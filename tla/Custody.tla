------------------------------ MODULE Custody ------------------------------
(***************************************************************************)
(* Who holds keys and who signs: the vault of vault.ts (one passphrase,    *)
(* sealed keys, an in-memory master key per process), the node authority   *)
(* of protocol/v2/node-authority.ts, the host authority of                 *)
(* pay/host-authority.ts, and the agent payments of pay/agent-pay.ts that  *)
(* the host attests.  Sovereign processes share one database file; each    *)
(* has its own memory and dies on its own.                                 *)
(*                                                                         *)
(* A job is one HTTP request.  Its actions run from one await to the next: *)
(* what it read before an await (the master key, a salt, the clock) is in  *)
(* its record and may be stale when it is used.                            *)
(*                                                                         *)
(* A sealed blob is the pair <<passphrase, salt>> whose Argon2id key seals *)
(* it: unsealing works with that key and no other.  A job draws at most    *)
(* one salt, one key and one session token, which are named after it.      *)
(***************************************************************************)
EXTENDS AgentUsage

CONSTANTS
    Procs,        \* sovereign processes over one database
    Jobs,         \* requests
    Home,         \* the process that serves a job
    Work,         \* what a job may ask for
    Passphrases,
    None,         \* no value yet
    Legacy,       \* authorizations older than their exact bindings
    MaxTime,      \* bound on the clock
    MaxStops      \* bound on the crashes and the locks together

ASSUME CustodyAssumption ==
    /\ Home \in [Jobs -> Procs]
    /\ Work \in [Jobs -> SUBSET {"init", "unlock", "key", "sign", "node", "agent"}]
    /\ None \notin Jobs \cup Passphrases \cup (Passphrases \X Jobs)
    /\ MaxTime \in Nat /\ MaxStops \in Nat

(* Rows are ordered by created_at; those from before the exact bindings    *)
(* come first.                                                             *)
ASSUME LegacyAssumption ==
    /\ IsFiniteSet(Legacy)
    /\ \A row \in Legacy : /\ row.request = Unbound /\ row.spends \in Spends
                            /\ row.order \in Nat /\ row.order < Cardinality(Legacy)

VARIABLES
    settings,  \* the settings rows: vault.salt and vault.verifier
    keys,      \* vault_keys: [id, label, seal, order of created_at]
    master,    \* masterKey of each process
    sessions,  \* the session tokens each process honours
    node,      \* createV2NodeAuthorityProvider: cached and inFlight per process
    tables,    \* the agent tables
    job,       \* what each request is doing
    racing,    \* history: initializations begun before the first salt was stored
    now,
    stops

vars == <<settings, keys, master, sessions, node, tables, job, racing, now, stops>>

Seals == Passphrases \X Jobs

Idle == [phase |-> "idle", key |-> None, verifier |-> None, row |-> None,
         request |-> Unbound, at |-> 0]

-----------------------------------------------------------------------------
(* Helpers. *)

isInitialized == settings.salt # None

(* A session this process opened, while its vault is unlocked. *)
isValidSession(p) == sessions[p] # {} /\ master[p] # None

Labelled(label) == {row \in keys : row.label = label}

(* ORDER BY created_at, and the first row. *)
First(rows) ==
    IF rows = {} THEN None
    ELSE (CHOOSE row \in rows : \A other \in rows : row.order <= other.order).id

(* authorityRow, and the first row of listKeys with the host's label. *)
FirstOf(label) == First(Labelled(label))

Opens(seal, id) == \E row \in keys : row.id = id /\ row.seal = seal

(* putSetting twice, with nothing awaited in between: no other job of the  *)
(* process runs there, other processes and crashes do.                     *)
Turn(p) == \A j \in Jobs : Home[j] = p => job[j].phase # "salt stored"

At(j, phase) == job[j].phase = phase /\ Turn(Home[j])

Goto(j, phase) == job' = [job EXCEPT ![j].phase = phase]

(* The request is answered; what it carried is gone. *)
End(j, phase) == job' = [job EXCEPT ![j] = [Idle EXCEPT !.phase = phase]]

Start(j, what) == At(j, "idle") /\ what \in Work[j]

(* The gate in front of every route but init and unlock. *)
Gated(j, what) == Start(j, what) /\ isValidSession(Home[j])

(* A step that seals or signs: requireKey, captured before the await. *)
WithKey(j, phase, row) ==
    IF master[Home[j]] = None THEN End(j, "failed")
    ELSE job' = [job EXCEPT ![j].phase = phase, ![j].row = row,
                            ![j].key = master[Home[j]]]

(* The row of a key sealed by a job, with the seal it captured. *)
Inserted(j, label) ==
    keys \cup {[id |-> j, label |-> label, seal |-> job[j].key,
               order |-> Cardinality(keys)]}

-----------------------------------------------------------------------------
(* vault.ts: initialize, unlock, lock. *)

(* Mutant of InitializeStart: an existing vault is not noticed. *)
InitializeStartAnyway(j, passphrase) ==
    /\ Start(j, "init")
    /\ job' = [job EXCEPT ![j].phase = "deriving", ![j].key = <<passphrase, j>>]
    /\ UNCHANGED <<settings, keys, master, sessions, node, tables, racing, now, stops>>

(* initialize, up to its first await: the check and the salt. *)
InitializeStart(j, passphrase) ==
    /\ Start(j, "init") /\ ~isInitialized
    /\ job' = [job EXCEPT ![j].phase = "deriving", ![j].key = <<passphrase, j>>]
    /\ UNCHANGED <<settings, keys, master, sessions, node, tables, racing, now, stops>>

(* The verifier is sealed; the first of two settings is written. *)
SaltStored(j) ==
    /\ At(j, "deriving")
    /\ Goto(j, "salt stored")
    /\ settings' = [settings EXCEPT !.salt = j]
    /\ racing' = IF isInitialized THEN racing
                 ELSE {k \in Jobs \ {j} : job[k].phase = "deriving"}
    /\ UNCHANGED <<keys, master, sessions, node, tables, now, stops>>

(* The second setting, and the master key in memory. *)
VerifierStored(j) ==
    /\ job[j].phase = "salt stored"
    /\ Goto(j, "initialized")
    /\ settings' = [settings EXCEPT !.verifier = job[j].key]
    /\ master' = [master EXCEPT ![Home[j]] = job[j].key]
    /\ UNCHANGED <<keys, sessions, node, tables, racing, now, stops>>

(* unlock reads both settings, then derives and unseals.  The route of     *)
(* init calls it with the passphrase it was given.                         *)
UnlockStart(j, passphrase) ==
    /\ \/ Start(j, "unlock")
       \/ At(j, "initialized") /\ passphrase = job[j].key[1]
    /\ IF settings.salt = None \/ settings.verifier = None THEN End(j, "failed")
       ELSE job' = [job EXCEPT ![j].phase = "checking",
                               ![j].key = <<passphrase, settings.salt>>,
                               ![j].verifier = settings.verifier]
    /\ UNCHANGED <<settings, keys, master, sessions, node, tables, racing, now, stops>>

(* Both are held only by the passphrase that opens the verifier it read;   *)
(* a lock that came while it was derived is undone.                        *)
Unlocked(j) ==
    /\ At(j, "checking")
    /\ IF job[j].key = job[j].verifier
       THEN /\ End(j, "done")
            /\ master' = [master EXCEPT ![Home[j]] = job[j].key]
            /\ sessions' = [sessions EXCEPT ![Home[j]] = @ \cup {j}]
       ELSE End(j, "failed") /\ UNCHANGED <<master, sessions>>
    /\ UNCHANGED <<settings, keys, node, tables, racing, now, stops>>

Lock(p) ==
    /\ stops < MaxStops /\ isValidSession(p) /\ Turn(p)
    /\ stops' = stops + 1
    /\ master' = [master EXCEPT ![p] = None]
    /\ sessions' = [sessions EXCEPT ![p] = {}]
    /\ UNCHANGED <<settings, keys, node, tables, job, racing, now>>

-----------------------------------------------------------------------------
(* vault.ts: keys and signatures. *)

(* POST /api/vault/keys: generate or import, EVM or BTC. *)
KeyStart(j) ==
    /\ Gated(j, "key")
    /\ WithKey(j, "sealing", None)
    /\ UNCHANGED <<settings, keys, master, sessions, node, tables, racing, now, stops>>

KeySealed(j) ==
    /\ At(j, "sealing")
    /\ keys' = Inserted(j, "user")
    /\ End(j, "done")
    /\ UNCHANGED <<settings, master, sessions, node, tables, racing, now, stops>>

(* signEvmTransaction, signBtcPsbt: one key decrypted for one signature.   *)
SignStart(j, row) ==
    /\ Gated(j, "sign")
    /\ WithKey(j, "signing", row.id)
    /\ UNCHANGED <<settings, keys, master, sessions, node, tables, racing, now, stops>>

Signed(j) ==
    /\ At(j, "signing")
    /\ End(j, IF Opens(job[j].key, job[j].row) THEN "done" ELSE "failed")
    /\ UNCHANGED <<settings, keys, master, sessions, node, tables, racing, now, stops>>

-----------------------------------------------------------------------------
(* node-authority.ts: one authority per process, one row per database. *)

(* ensure: the cached authority, the promise in flight, the row, or a new  *)
(* key.  POST /v2/local/activate and every signing context begin so.       *)
EnsureNode(j) ==
    LET p == Home[j] IN
    /\ Gated(j, "node")
    /\ IF node[p].cached # None
       THEN /\ job' = [job EXCEPT ![j].phase = "node ready", ![j].row = node[p].cached]
            /\ UNCHANGED node
       ELSE IF node[p].inFlight # None
       THEN Goto(j, "node waiting") /\ UNCHANGED node
       ELSE IF FirstOf("node") # None
       THEN /\ job' = [job EXCEPT ![j].phase = "node ready", ![j].row = FirstOf("node")]
            /\ node' = [node EXCEPT ![p].cached = FirstOf("node")]
       ELSE /\ WithKey(j, "node sealing", None)
            /\ node' = [node EXCEPT ![p].inFlight = j]
    /\ UNCHANGED <<settings, keys, master, sessions, tables, racing, now, stops>>

(* Mutant of NodeKeys: no index stands behind the read of an empty table. *)
NodeKeysUnindexed(j) == Inserted(j, "node")

(* The UNIQUE index on the label arbitrates: the loser's insert throws and *)
(* it reads the winner's row.  All that waited for the promise resume.     *)
NodeKeys(j) == IF Labelled("node") = {} THEN Inserted(j, "node") ELSE keys

(* Mutant of Settled: the promise is never forgotten. *)
SettledInFlight(p, id) == [node[p] EXCEPT !.cached = id]

(* ensure's then and finally: the result is kept, the promise forgotten.   *)
Settled(p, id) == [cached |-> id, inFlight |-> None]

NodeSealed(j) ==
    LET p == Home[j]
        id == IF FirstOf("node") # None THEN FirstOf("node") ELSE j
    IN
    /\ At(j, "node sealing")
    /\ keys' = NodeKeys(j)
    /\ node' = [node EXCEPT ![p] = Settled(p, id)]
    /\ job' = [k \in Jobs |->
                 IF k = j \/ (Home[k] = p /\ job[k].phase = "node waiting")
                 THEN [job[k] EXCEPT !.phase = "node ready", !.row = id, !.key = None]
                 ELSE job[k]]
    /\ UNCHANGED <<settings, master, sessions, tables, racing, now, stops>>

(* sign_digest: the vault signs, then the signature is checked against the *)
(* authority the node publishes.                                           *)
NodeSignStart(j) ==
    /\ At(j, "node ready")
    /\ WithKey(j, "node signing", job[j].row)
    /\ UNCHANGED <<settings, keys, master, sessions, node, tables, racing, now, stops>>

NodeSigned(j) ==
    /\ At(j, "node signing")
    /\ IF Opens(job[j].key, job[j].row)
       THEN job' = [job EXCEPT ![j].phase = "node signed", ![j].key = None]
       ELSE End(j, "failed")
    /\ UNCHANGED <<settings, keys, master, sessions, node, tables, racing, now, stops>>

-----------------------------------------------------------------------------
(* agent-pay.ts: authorizeAgentPayment_wired. *)

(* Records verified, adapter trusted, the clock read, the gate passed once;*)
(* then ensureHostAuthority, whose row no index makes unique.              *)
AuthorizeStart(j, r) ==
    /\ Gated(j, "agent")
    /\ Trusted(r)
    /\ Authorizable(tables, r, now)
    /\ job' = [job EXCEPT ![j] =
          IF FirstOf("host") = None
          THEN [Idle EXCEPT !.phase = "host sealing", !.key = master[Home[j]],
                            !.request = r, !.at = now]
          ELSE [Idle EXCEPT !.phase = "host ready", !.row = FirstOf("host"),
                            !.request = r, !.at = now]]
    /\ UNCHANGED <<settings, keys, master, sessions, node, tables, racing, now, stops>>

HostSealed(j) ==
    /\ At(j, "host sealing")
    /\ keys' = Inserted(j, "host")
    /\ job' = [job EXCEPT ![j].phase = "host ready", ![j].row = j, ![j].key = None]
    /\ UNCHANGED <<settings, master, sessions, node, tables, racing, now, stops>>

AttestStart(j) ==
    /\ At(j, "host ready")
    /\ WithKey(j, "attesting", job[j].row)
    /\ UNCHANGED <<settings, keys, master, sessions, node, tables, racing, now, stops>>

(* The signature is there; reserveAndRecord runs under the writer lock and *)
(* commits all its rows or, when it throws, none.                          *)
Recorded(j) ==
    LET r == job[j].request IN
    /\ At(j, "attesting")
    /\ IF Opens(job[j].key, job[j].row) /\ Reservable(tables, r, job[j].at)
       THEN /\ tables' = Reserved(tables, r, job[j].at, job[j].row, j)
            /\ End(j, "recorded")
       ELSE End(j, "failed") /\ UNCHANGED tables
    /\ UNCHANGED <<settings, keys, master, sessions, node, racing, now, stops>>

(* The attestation reaches the agent; a process that dies first loses it.  *)
Answered(j) ==
    /\ At(j, "recorded")
    /\ End(j, "answered")
    /\ UNCHANGED <<settings, keys, master, sessions, node, tables, racing, now, stops>>

-----------------------------------------------------------------------------
(* The rest of the world. *)

(* A process dies and is restarted: memory is gone, the database stays.    *)
Crash(p) ==
    /\ stops < MaxStops
    /\ stops' = stops + 1
    /\ master' = [master EXCEPT ![p] = None]
    /\ sessions' = [sessions EXCEPT ![p] = {}]
    /\ node' = [node EXCEPT ![p] = [cached |-> None, inFlight |-> None]]
    /\ job' = [j \in Jobs |->
                 IF Home[j] = p /\ job[j].phase \notin {"idle", "done", "node signed", "answered"}
                 THEN [Idle EXCEPT !.phase = "failed"] ELSE job[j]]
    /\ racing' = {j \in racing : ~(Home[j] = p /\ job[j].phase = "deriving")}
    /\ UNCHANGED <<settings, keys, tables, now>>

Tick ==
    /\ now < MaxTime
    /\ now' = now + 1
    /\ UNCHANGED <<settings, keys, master, sessions, node, tables, job,
                   racing, stops>>

Init ==
    /\ settings = [salt |-> None, verifier |-> None]
    /\ keys = {}
    /\ master = [p \in Procs |-> None]
    /\ sessions = [p \in Procs |-> {}]
    /\ node = [p \in Procs |-> [cached |-> None, inFlight |-> None]]
    /\ tables = NoTables(Legacy)
    /\ job = [j \in Jobs |-> Idle]
    /\ racing = {} /\ now = 0 /\ stops = 0

Next ==
    \/ \E j \in Jobs :
          \/ \E passphrase \in Passphrases :
                InitializeStart(j, passphrase) \/ UnlockStart(j, passphrase)
          \/ SaltStored(j) \/ VerifierStored(j) \/ Unlocked(j)
          \/ KeyStart(j) \/ KeySealed(j)
          \/ \E row \in Labelled("user") : SignStart(j, row)
          \/ Signed(j)
          \/ EnsureNode(j) \/ NodeSealed(j) \/ NodeSignStart(j) \/ NodeSigned(j)
          \/ \E r \in Requests : AuthorizeStart(j, r)
          \/ HostSealed(j) \/ AttestStart(j) \/ Recorded(j) \/ Answered(j)
    \/ \E p \in Procs : Lock(p) \/ Crash(p)
    \/ Tick

Spec == Init /\ [][Next]_vars

-----------------------------------------------------------------------------
(* Properties. *)

Phases == {"idle", "failed", "done", "deriving", "salt stored", "initialized",
           "checking", "sealing", "signing", "node sealing", "node waiting",
           "node ready", "node signing", "node signed", "host sealing",
           "host ready", "attesting", "recorded", "answered"}

(* Every variable has its type; a promise in flight belongs to a job of    *)
(* its process that is generating the node's key, and to no other.         *)
TypeOK ==
    /\ settings \in [salt : Jobs \cup {None}, verifier : Seals \cup {None}]
    /\ \A row \in keys : row.id \in Jobs /\ row.label \in {"user", "node", "host"}
                         /\ row.seal \in Seals
    /\ master \in [Procs -> Seals \cup {None}]
    /\ sessions \in [Procs -> SUBSET Jobs]
    /\ node \in [Procs -> [cached : Jobs \cup {None}, inFlight : Jobs \cup {None}]]
    /\ \A j \in Jobs :
          /\ job[j].phase \in Phases
          /\ job[j].key \in Seals \cup {None}
          /\ job[j].row \in Jobs \cup {None}
    /\ racing \subseteq Jobs
    /\ \A j \in Jobs : (node[Home[j]].inFlight = j) <=> (job[j].phase = "node sealing")

(* No initialization that overlapped the first one stored its salt too. *)
Clean == \A j \in racing : job[j].phase = "deriving"

(* Re-initializing would orphan every sealed key (vault.ts:88), so         *)
(* initialize refuses when a vault exists.  Until an initialization that   *)
(* was already under way when the first salt was stored comes through as   *)
(* well, every key in the database, every master key in memory and the     *)
(* stored verifier are of one passphrase and salt: whoever opens the       *)
(* verifier opens all keys, through crashes, locks, overlapping unlocks    *)
(* and initializations still deriving or dead; a vault left with a salt    *)
(* and no verifier holds no key.                                           *)
KeysStayOpenable ==
    Clean =>
       /\ \A row \in keys : row.seal = settings.verifier
       /\ \A p \in Procs : master[p] \in {None, settings.verifier}
       /\ settings.verifier # None => settings.verifier[2] = settings.salt

(* The discovery authority is one stable node key (db.ts:115): at most one *)
(* row, and every process, every call that waited for it and every         *)
(* signature made with it name that row, whichever process generated first.*)
OneNodeAuthority ==
    /\ \A row, other \in Labelled("node") : row = other
    /\ \A p \in Procs : node[p].cached \in {None, FirstOf("node")}
    /\ \A j \in Jobs : job[j].phase \in {"node ready", "node signing", "node signed"} =>
          job[j].row = FirstOf("node") /\ job[j].row # None

(* The authorizations with exact bindings; those before one, and those its *)
(* capability has to account for.                                          *)
BoundRows == {row \in tables.rows : row.request # Unbound}

Before(row) == {q \in tables.rows : q.order < row.order}

CountedWith(row) == {q \in Before(row) : q.grant = row.grant} \cup {row}

Admissible(row) ==
    LET r == row.request IN
    /\ Cardinality(CountedWith(row)) <= r.count
    /\ row.at < r.expires
    /\ \A q \in Before(row) :
          /\ q.intent # row.intent
          /\ q.request # Unbound =>
                /\ q.request.wallet = r.wallet => q.request.epoch <= r.epoch
                /\ <<q.request.wallet, q.grant, q.request.source, q.request.nonce>>
                      # <<r.wallet, r.grant, r.source, r.nonce>>

Reserves(j) == \E row \in BoundRows : row.id = j

(* What agents were granted is never exceeded, however calls overlap while *)
(* they wait for a signature: counting every row of the grant up to it, an *)
(* authorization is within the count and the spends of its capability; it  *)
(* is no older than what its wallet revoked before; no intent and no       *)
(* signed nonce is authorized twice; and an agent holds an attestation     *)
(* only of an intent that is reserved.                                     *)
LimitsHold ==
    /\ \A row \in BoundRows :
          /\ Admissible(row)
          /\ \A a \in Assets : SpentBy(CountedWith(row))[a] <= row.request.total[a]
    /\ \A j \in Jobs : job[j].phase = "answered" => Reserves(j)
=============================================================================
