---------------------------- MODULE CustodyProofs ----------------------------
(***************************************************************************)
(* Theorems of module Custody, for any processes, requests, passphrases,   *)
(* numbers of crashes and locks.                                           *)
(*                                                                         *)
(* Two requests never meet except over the settings rows, the keys and a   *)
(* process's memory, so what has to be known of each is only what it       *)
(* carries across its await: a key that is still the verifier's, a         *)
(* verifier that is still the stored one, the row of an authority that is  *)
(* still the only one.                                                     *)
(***************************************************************************)
EXTENDS Custody, TLAPS, FiniteSetTheorems, WellFoundedInduction

(* The awaits a captured master key is carried across. *)
Using == {"sealing", "signing", "node sealing", "node signing", "host sealing",
          "attesting"}

Carrying == Using \cup {"deriving", "salt stored", "initialized", "checking"}

Ready == {"node ready", "node signing", "node signed"}

Job == [phase : Phases, key : Seals \cup {None}, verifier : Seals \cup {None},
        row : Jobs \cup {None}, request : Requests \cup {Unbound}, at : Nat]

KeysType ==
    /\ keys \subseteq [id : Jobs, label : {"user", "node", "host"}, seal : Seals, order : Nat]
    /\ IsFiniteSet(keys)

StateType ==
    /\ settings \in [salt : Jobs \cup {None}, verifier : Seals \cup {None}]
    /\ KeysType
    /\ master \in [Procs -> Seals \cup {None}]
    /\ sessions \in [Procs -> SUBSET Jobs]
    /\ node \in [Procs -> [cached : Jobs \cup {None}, inFlight : Jobs \cup {None}]]
    /\ job \in [Jobs -> Job]
    /\ racing \subseteq Jobs
    /\ now \in Nat

(* What a request carries is there. *)
Carries(j) ==
    /\ job[j].phase \in Carrying => job[j].key \in Seals
    /\ job[j].phase = "checking" => job[j].verifier \in Seals
    /\ job[j].phase \in {"deriving", "salt stored"} => job[j].key[2] = j
    /\ node[Home[j]].inFlight = j <=> job[j].phase = "node sealing"

(* Initializations after the first salt are the ones that raced it, and as  *)
(* long as none of those came through it is as if there had been one.       *)
Raced ==
    /\ racing # {} => settings.salt # None
    /\ settings.salt # None =>
          \A j \in Jobs : job[j].phase = "deriving" => j \in racing

Aligned(j) ==
    /\ job[j].phase = "salt stored" => settings.salt = j /\ settings.verifier = None
    /\ job[j].phase \in Using => job[j].key = settings.verifier
    /\ job[j].phase = "checking" => job[j].verifier = settings.verifier

OneVerifier ==
    /\ settings.salt = None => settings.verifier = None
    /\ settings.verifier # None => settings.verifier[2] = settings.salt
    /\ \A row \in keys : row.seal = settings.verifier
    /\ \A p \in Procs : master[p] \in {None, settings.verifier}
    /\ \A j \in Jobs : Aligned(j)

IInv ==
    /\ StateType
    /\ \A j \in Jobs : Carries(j)
    /\ Raced
    /\ Clean => OneVerifier
    /\ OneNodeAuthority

-----------------------------------------------------------------------------
(* The first row of a label. *)

(* A nonempty set of naturals has a least element. *)
LEMMA LeastOf ==
    ASSUME NEW S, S \subseteq Nat, S # {}
    PROVE  \E m \in S : \A e \in S : m <= e
<1>1. PICK m \in S : \A e \in S : ~(<<e, m>> \in OpToRel(<, Nat))
  BY WFMin, NatLessThanWellFounded, Zenon
<1>2. \A x, y \in Nat : (<<x, y>> \in OpToRel(<, Nat)) <=> x < y
  BY Zenon DEF OpToRel
<1>3. \A e \in S : ~(e < m)
  BY <1>1, <1>2, Zenon
<1> QED
  BY <1>3, SMT

(* listKeys answers with a row of the table. *)
LEMMA FirstIsRow ==
    ASSUME NEW rows, rows # {}, \A row \in rows : row.order \in Nat
    PROVE  \E row \in rows : First(rows) = row.id
<1> DEFINE Orders == {row.order : row \in rows}
<1>1. Orders \subseteq Nat /\ Orders # {}
  OBVIOUS
<1>2. PICK m \in Orders : \A e \in Orders : m <= e
  <2> HIDE DEF Orders
  <2> QED
    BY <1>1, LeastOf
<1>3. PICK row \in rows : m = row.order
  BY <1>2
<1>4. \A other \in rows : row.order <= other.order
  BY <1>2, <1>3
<1> QED
  BY <1>4 DEF First

LEMMA FirstType ==
    ASSUME KeysType, NEW label
    PROVE  /\ FirstOf(label) \in Jobs \cup {None}
           /\ FirstOf(label) = None <=> Labelled(label) = {}
<1>1. CASE Labelled(label) = {}
  BY <1>1 DEF FirstOf, First
<1>2. CASE Labelled(label) # {}
  <2>1. PICK row \in Labelled(label) : FirstOf(label) = row.id
    BY <1>2, FirstIsRow DEF FirstOf, KeysType, Labelled
  <2>2. FirstOf(label) \in Jobs
    BY <2>1 DEF KeysType, Labelled
  <2> QED
    BY <1>2, <2>2, CustodyAssumption
<1> QED
  BY <1>1, <1>2

(* The node's row is the only one of its label. *)
LEMMA TheNode ==
    ASSUME KeysType, OneNodeAuthority, NEW row \in Labelled("node")
    PROVE  FirstOf("node") = row.id
  BY FirstIsRow DEF FirstOf, KeysType, Labelled, OneNodeAuthority

LEMMA SameNode ==
    ASSUME keys' = keys
    PROVE  FirstOf("node")' = FirstOf("node") /\ Labelled("node")' = Labelled("node")
  BY DEF FirstOf, Labelled

LEMMA NoJobIsNone == None \notin Jobs
  BY CustodyAssumption

LEMMA NoKeyIsNone == None \notin Seals
  BY CustodyAssumption DEF Seals

-----------------------------------------------------------------------------
(* A step of one request that touches no row, no other request and no      *)
(* memory but, at most, the master key of its process.                     *)

(* What such a step may leave in the request's record. *)
Fits(j, r) ==
    /\ job[j].phase # "node sealing"
    /\ r.phase \notin {"salt stored", "node sealing"}
    /\ r.phase = "deriving" => settings.salt = None /\ r.key[2] = j
    /\ r.phase \in Carrying => r.key \in Seals
    /\ r.phase \in Using => r.key = master[Home[j]]
    /\ r.phase = "checking" => r.verifier = settings.verifier /\ r.verifier \in Seals
    /\ r.phase \in Ready => r.row = FirstOf("node") /\ r.row # None

LEMMA JobStep ==
    ASSUME IInv, NEW j \in Jobs, NEW r \in Job, Fits(j, r),
           job' = [job EXCEPT ![j] = r],
           UNCHANGED <<settings, keys, node, racing, now>>,
           master' \in [Procs -> Seals \cup {None}],
           sessions' \in [Procs -> SUBSET Jobs],
           Clean => \A p \in Procs : master'[p] \in {None, settings.verifier}
    PROVE  IInv'
<1>1. job'[j] = r /\ \A k \in Jobs : k # j => job'[k] = job[k]
  BY DEF IInv, StateType
<1>2. StateType'
  BY DEF IInv, StateType, KeysType
<1>3. \A k \in Jobs : Carries(k)'
  <2>1. \A k \in Jobs : Carries(k)
    BY DEF IInv
  <2>2. Carries(j)'
    BY <1>1, <2>1 DEF Carries, Fits
  <2>3. ASSUME NEW k \in Jobs, k # j PROVE Carries(k)'
    <3>1. job'[k] = job[k] /\ node' = node
      BY <1>1, <2>3
    <3>2. Carries(k)
      BY <2>1
    <3> QED
      BY <3>1, <3>2 DEF Carries
  <2> QED
    BY <2>2, <2>3
<1>4. Raced'
  BY <1>1 DEF IInv, Raced, Fits
<1>5. Clean' => Clean
  BY <1>1 DEF IInv, Raced, Clean, Fits, StateType
<1>6. Clean' => OneVerifier'
  <2> SUFFICES ASSUME Clean' PROVE OneVerifier'
    OBVIOUS
  <2>1. OneVerifier
    BY <1>5 DEF IInv
  <2>2. Home[j] \in Procs
    BY CustodyAssumption
  <2>3. r.phase \in Using => r.key = settings.verifier
    BY <2>1, <2>2, NoKeyIsNone DEF Fits, OneVerifier, Using, Carrying
  <2>4. \A k \in Jobs : Aligned(k)'
    <3>1. Aligned(j)'
      BY <1>1, <2>3 DEF Aligned, Fits
    <3>2. ASSUME NEW k \in Jobs, k # j PROVE Aligned(k)'
      <4>1. job'[k] = job[k] /\ settings' = settings /\ Aligned(k)
        BY <1>1, <2>1, <3>2 DEF OneVerifier
      <4> QED
        BY <4>1 DEF Aligned
    <3> QED
      BY <3>1, <3>2
  <2> QED
    BY <1>5, <2>1, <2>4 DEF OneVerifier
<1>7. OneNodeAuthority'
  <2>1. FirstOf("node")' = FirstOf("node") /\ Labelled("node")' = Labelled("node")
    BY DEF FirstOf, Labelled
  <2> QED
    BY <1>1, <2>1 DEF IInv, OneNodeAuthority, Fits, Ready
<1> QED
  BY <1>2, <1>3, <1>4, <1>6, <1>7 DEF IInv

(* The same, with the master keys left alone. *)
LEMMA QuietStep ==
    ASSUME IInv, NEW j \in Jobs, NEW r \in Job, Fits(j, r),
           job' = [job EXCEPT ![j] = r],
           UNCHANGED <<settings, keys, master, sessions, node, racing, now>>
    PROVE  IInv'
  BY JobStep DEF IInv, StateType, OneVerifier

(* requireKey: the answer of a locked vault, or the key captured. *)
LEMMA KeyTaken ==
    ASSUME IInv, NEW j \in Jobs, NEW phase \in Using \ {"node sealing"},
           NEW row \in Jobs \cup {None}, WithKey(j, phase, row),
           job[j].phase # "node sealing",
           phase = "node signing" => row = FirstOf("node") /\ row # None,
           UNCHANGED <<settings, keys, master, sessions, node, racing, now>>
    PROVE  IInv'
<1>1. job[j] \in Job /\ Home[j] \in Procs /\ phase \in Phases
  BY CustodyAssumption DEF IInv, StateType, Using, Phases
<1>2. CASE master[Home[j]] = None
  <2> DEFINE r == [Idle EXCEPT !.phase = "failed"]
  <2>1. r \in Job /\ r.phase = "failed"
    BY DEF Job, Idle, Phases
  <2>2. job' = [job EXCEPT ![j] = r]
    BY <1>2 DEF WithKey, End
  <2>3. Fits(j, r)
    BY <2>1 DEF Fits, Using, Carrying, Ready
  <2> HIDE DEF r
  <2> QED
    BY <2>1, <2>2, <2>3, QuietStep
<1>3. CASE master[Home[j]] # None
  <2> DEFINE r == [job[j] EXCEPT !.phase = phase, !.row = row, !.key = master[Home[j]]]
  <2>1. master[Home[j]] \in Seals
    BY <1>1, <1>3 DEF IInv, StateType
  <2>2. /\ r \in Job /\ r.phase = phase /\ r.row = row /\ r.key = master[Home[j]]
    BY <1>1, <2>1 DEF Job
  <2>3. job' = [job EXCEPT ![j] = r]
    BY <1>3 DEF WithKey, IInv, StateType
  <2>4. Fits(j, r)
    BY <2>1, <2>2 DEF Fits, Using, Carrying, Ready
  <2> HIDE DEF r
  <2> QED
    BY <2>2, <2>3, <2>4, QuietStep
<1> QED
  BY <1>2, <1>3

(* The request is over. *)
LEMMA Ended ==
    ASSUME IInv, NEW j \in Jobs, NEW phase \in {"failed", "done", "recorded", "answered"},
           End(j, phase), job[j].phase # "node sealing",
           UNCHANGED <<settings, keys, master, sessions, node, racing, now>>
    PROVE  IInv'
<1> DEFINE r == [Idle EXCEPT !.phase = phase]
<1>1. r \in Job /\ r.phase = phase
  BY DEF Job, Idle, Phases
<1>2. Fits(j, r)
  BY <1>1 DEF Fits, Using, Carrying, Ready
<1>3. job' = [job EXCEPT ![j] = r]
  BY DEF End
<1> HIDE DEF r
<1> QED
  BY <1>1, <1>2, <1>3, QuietStep

-----------------------------------------------------------------------------
(* vault.ts, action by action. *)

LEMMA InitInv == Init => IInv
<1> SUFFICES ASSUME Init PROVE IInv
  OBVIOUS
<1>1. Idle \in Job /\ Idle.phase = "idle"
  BY DEF Idle, Job, Phases
<1>2. StateType
  BY <1>1, FS_EmptySet DEF Init, StateType, KeysType
<1>3. \A j \in Jobs : Carries(j)
  BY <1>1, CustodyAssumption DEF Init, Carries, Carrying, Using
<1>4. OneVerifier
  BY <1>1 DEF Init, OneVerifier, Aligned, Using
<1>5. OneNodeAuthority
  BY <1>1, FirstType DEF Init, OneNodeAuthority, Labelled
<1> QED
  BY <1>2, <1>3, <1>4, <1>5 DEF IInv, Raced, Clean, Init

LEMMA InitializeStartInv ==
    ASSUME IInv, NEW j \in Jobs, NEW passphrase \in Passphrases, InitializeStart(j, passphrase)
    PROVE  IInv'
<1> DEFINE r == [job[j] EXCEPT !.phase = "deriving", !.key = <<passphrase, j>>]
<1>1. job[j] \in Job /\ job[j].phase = "idle"
  BY DEF IInv, StateType, InitializeStart, Start, At
<1>2. <<passphrase, j>> \in Seals
  BY DEF Seals
<1>3. r \in Job /\ r.phase = "deriving" /\ r.key = <<passphrase, j>>
  BY <1>1, <1>2 DEF Job, Phases
<1>4. Fits(j, r)
  BY <1>1, <1>2, <1>3 DEF Fits, Using, Ready, InitializeStart, isInitialized
<1>5. job' = [job EXCEPT ![j] = r]
  BY <1>1 DEF InitializeStart, IInv, StateType
<1> HIDE DEF r
<1> QED
  BY <1>3, <1>4, <1>5, QuietStep DEF InitializeStart

(* A second salt is stored only by an initialization that raced the first. *)
LEMMA SaltStoredInv ==
    ASSUME IInv, NEW j \in Jobs, SaltStored(j)
    PROVE  IInv'
<1> DEFINE r == [job[j] EXCEPT !.phase = "salt stored"]
<1>1. job[j] \in Job /\ job[j].phase = "deriving"
  BY DEF IInv, StateType, SaltStored, At
<1>2. /\ r \in Job /\ r.phase = "salt stored" /\ r.key = job[j].key
      /\ r.row = job[j].row
  BY <1>1 DEF Job, Phases
<1>3. job' = [job EXCEPT ![j] = r]
  BY DEF SaltStored, Goto
<1> HIDE DEF r
<1>4. job'[j] = r /\ \A k \in Jobs : k # j => job'[k] = job[k]
  BY <1>3 DEF IInv, StateType
<1>5. /\ settings'.salt = j /\ settings'.verifier = settings.verifier
      /\ settings' \in [salt : Jobs \cup {None}, verifier : Seals \cup {None}]
      /\ j # None
  BY CustodyAssumption DEF SaltStored, IInv, StateType
<1>6. StateType'
  BY <1>2, <1>3, <1>5 DEF SaltStored, IInv, StateType, KeysType, isInitialized
<1>7. \A k \in Jobs : Carries(k)'
  <2>1. \A k \in Jobs : Carries(k)
    BY DEF IInv
  <2>2. Carries(j)'
    BY <1>1, <1>2, <1>4, <2>1 DEF Carries, Carrying, SaltStored
  <2>3. \A k \in Jobs : k # j => Carries(k)'
    BY <1>4, <2>1 DEF Carries, SaltStored
  <2> QED
    BY <2>2, <2>3
<1>8. Raced'
  BY <1>2, <1>4, <1>5 DEF SaltStored, IInv, Raced, isInitialized
<1>9. Clean' => OneVerifier'
  <2> SUFFICES ASSUME Clean' PROVE OneVerifier'
    OBVIOUS
  <2>1. settings.salt = None
    BY <1>1, <1>2, <1>4 DEF SaltStored, isInitialized, IInv, Raced, Clean
  <2>2. OneVerifier
    BY <2>1 DEF IInv, Raced, Clean
  <2>3. settings.verifier = None
    BY <2>1, <2>2 DEF OneVerifier
  <2>4. \A k \in Jobs : Aligned(k)'
    <3>1. Aligned(j)'
      BY <1>2, <1>4, <1>5, <2>3 DEF Aligned, Using
    <3>2. ASSUME NEW k \in Jobs, k # j PROVE Aligned(k)'
      <4>1. Aligned(k) /\ job[k].phase # "salt stored"
        BY <2>1, <2>2, NoJobIsNone DEF OneVerifier, Aligned
      <4> QED
        BY <1>4, <1>5, <3>2, <4>1 DEF Aligned
    <3> QED
      BY <3>1, <3>2
  <2> QED
    BY <1>5, <2>2, <2>3, <2>4 DEF OneVerifier, SaltStored
<1>10. OneNodeAuthority'
  <2>1. FirstOf("node")' = FirstOf("node") /\ Labelled("node")' = Labelled("node")
    BY SameNode DEF SaltStored
  <2> QED
    BY <1>2, <1>4, <2>1 DEF IInv, OneNodeAuthority, SaltStored
<1> QED
  BY <1>6, <1>7, <1>8, <1>9, <1>10 DEF IInv

(* Until the verifier is stored nothing is sealed. *)
LEMMA VerifierStoredInv ==
    ASSUME IInv, NEW j \in Jobs, VerifierStored(j)
    PROVE  IInv'
<1> DEFINE r == [job[j] EXCEPT !.phase = "initialized"]
<1>1. /\ job[j] \in Job /\ job[j].phase = "salt stored" /\ job[j].key \in Seals
      /\ job[j].key[2] = j /\ Home[j] \in Procs
  BY CustodyAssumption DEF IInv, StateType, VerifierStored, Carries, Carrying
<1>2. /\ r \in Job /\ r.phase = "initialized" /\ r.key = job[j].key
      /\ r.row = job[j].row
  BY <1>1 DEF Job, Phases
<1>3. job' = [job EXCEPT ![j] = r]
  BY DEF VerifierStored, Goto
<1> HIDE DEF r
<1>4. job'[j] = r /\ \A k \in Jobs : k # j => job'[k] = job[k]
  BY <1>3 DEF IInv, StateType
<1>5. /\ settings'.salt = settings.salt /\ settings'.verifier = job[j].key
      /\ settings' \in [salt : Jobs \cup {None}, verifier : Seals \cup {None}]
  BY <1>1 DEF VerifierStored, IInv, StateType
<1>6. StateType'
  BY <1>1, <1>2, <1>3, <1>5 DEF VerifierStored, IInv, StateType, KeysType
<1>7. \A k \in Jobs : Carries(k)'
  <2>1. \A k \in Jobs : Carries(k)
    BY DEF IInv
  <2>2. Carries(j)'
    BY <1>1, <1>2, <1>4, <2>1 DEF Carries, Carrying, VerifierStored
  <2>3. \A k \in Jobs : k # j => Carries(k)'
    BY <1>4, <2>1 DEF Carries, VerifierStored
  <2> QED
    BY <2>2, <2>3
<1>8. Raced'
  BY <1>2, <1>4, <1>5 DEF VerifierStored, IInv, Raced
<1>9. Clean' => OneVerifier'
  <2> SUFFICES ASSUME Clean' PROVE OneVerifier'
    OBVIOUS
  <2>1. OneVerifier
    BY <1>2, <1>4 DEF IInv, Clean, StateType, VerifierStored
  <2>2. settings.salt = j /\ settings.verifier = None /\ j # None
    BY <1>1, <2>1, CustodyAssumption DEF OneVerifier, Aligned
  <2>3. keys = {}
    BY <2>1, <2>2, NoKeyIsNone DEF OneVerifier, IInv, StateType, KeysType
  <2>4. \A k \in Jobs : Aligned(k)'
    <3>1. Aligned(j)'
      BY <1>2, <1>4 DEF Aligned, Using
    <3>2. ASSUME NEW k \in Jobs, k # j PROVE Aligned(k)'
      <4>1. Aligned(k) /\ Carries(k)
        BY <2>1 DEF OneVerifier, IInv
      <4>2. job[k].phase \notin Using \cup {"salt stored", "checking"}
        BY <2>2, <3>2, <4>1, NoKeyIsNone DEF Aligned, Carries, Carrying
      <4> QED
        BY <1>4, <3>2, <4>2 DEF Aligned
    <3> QED
      BY <3>1, <3>2
  <2>5. \A p \in Procs : master'[p] \in {None, job[j].key}
    BY <1>1, <2>1, <2>2 DEF OneVerifier, VerifierStored, IInv, StateType
  <2> QED
    BY <1>1, <1>5, <2>2, <2>3, <2>4, <2>5 DEF OneVerifier, VerifierStored
<1>10. OneNodeAuthority'
  <2>1. FirstOf("node")' = FirstOf("node") /\ Labelled("node")' = Labelled("node")
    BY SameNode DEF VerifierStored
  <2> QED
    BY <1>2, <1>4, <2>1 DEF IInv, OneNodeAuthority, VerifierStored
<1> QED
  BY <1>6, <1>7, <1>8, <1>9, <1>10 DEF IInv

LEMMA UnlockStartInv ==
    ASSUME IInv, NEW j \in Jobs, NEW passphrase \in Passphrases, UnlockStart(j, passphrase)
    PROVE  IInv'
<1>1. job[j] \in Job /\ job[j].phase \in {"idle", "initialized"}
  BY DEF IInv, StateType, UnlockStart, Start, At
<1>2. CASE settings.salt = None \/ settings.verifier = None
  BY <1>1, <1>2, Ended DEF UnlockStart
<1>3. CASE ~(settings.salt = None \/ settings.verifier = None)
  <2> DEFINE r == [job[j] EXCEPT !.phase = "checking", !.key = <<passphrase, settings.salt>>,
                                 !.verifier = settings.verifier]
  <2>1. <<passphrase, settings.salt>> \in Seals /\ settings.verifier \in Seals
    BY <1>3 DEF IInv, StateType, Seals
  <2>2. /\ r \in Job /\ r.phase = "checking" /\ r.key \in Seals
        /\ r.verifier = settings.verifier
    BY <1>1, <2>1 DEF Job, Phases
  <2>3. Fits(j, r)
    BY <1>1, <2>1, <2>2 DEF Fits, Using, Ready
  <2>4. job' = [job EXCEPT ![j] = r]
    BY <1>3 DEF UnlockStart, IInv, StateType
  <2> HIDE DEF r
  <2> QED
    BY <2>2, <2>3, <2>4, QuietStep DEF UnlockStart
<1> QED
  BY <1>2, <1>3

(* The master key becomes a key that opened the verifier. *)
LEMMA UnlockedInv ==
    ASSUME IInv, NEW j \in Jobs, Unlocked(j)
    PROVE  IInv'
<1>1. /\ job[j] \in Job /\ job[j].phase = "checking" /\ job[j].key \in Seals
      /\ Home[j] \in Procs
  <2>1. job[j].phase = "checking" /\ Home[j] \in Procs
    BY CustodyAssumption DEF Unlocked, At
  <2>2. job[j] \in Job /\ Carries(j)
    BY DEF IInv, StateType
  <2> QED
    BY <2>1, <2>2 DEF Carries, Carrying
<1>2. CASE job[j].key # job[j].verifier
  BY <1>1, <1>2, Ended DEF Unlocked
<1>3. CASE job[j].key = job[j].verifier
  <2> DEFINE r == [Idle EXCEPT !.phase = "done"]
  <2>1. r \in Job /\ r.phase = "done"
    BY DEF Job, Idle, Phases
  <2>2. Fits(j, r)
    BY <1>1, <2>1 DEF Fits, Using, Carrying, Ready
  <2>3. /\ job' = [job EXCEPT ![j] = r]
        /\ master' = [master EXCEPT ![Home[j]] = job[j].key]
        /\ sessions' = [sessions EXCEPT ![Home[j]] = @ \cup {j}]
    BY <1>3 DEF Unlocked, End
  <2> HIDE DEF r
  <2>4. /\ master' \in [Procs -> Seals \cup {None}]
        /\ sessions' \in [Procs -> SUBSET Jobs]
    BY <1>1, <2>3 DEF IInv, StateType
  <2>5. Clean => \A p \in Procs : master'[p] \in {None, settings.verifier}
    <3> SUFFICES ASSUME Clean PROVE \A p \in Procs : master'[p] \in {None, settings.verifier}
      OBVIOUS
    <3>1. job[j].key = settings.verifier
      BY <1>1, <1>3 DEF IInv, OneVerifier, Aligned
    <3> QED
      BY <1>1, <2>3, <3>1 DEF IInv, OneVerifier, StateType
  <2> QED
    BY <2>1, <2>2, <2>3, <2>4, <2>5, JobStep DEF Unlocked
<1> QED
  BY <1>2, <1>3

LEMMA LockInv ==
    ASSUME IInv, NEW p \in Procs, Lock(p)
    PROVE  IInv'
<1>1. UNCHANGED <<settings, keys, node, job, racing, now>>
  BY DEF Lock
<1>2. /\ master' \in [Procs -> Seals \cup {None}]
      /\ sessions' \in [Procs -> SUBSET Jobs]
      /\ \A q \in Procs : master'[q] \in {None, master[q]}
  BY DEF Lock, IInv, StateType
<1>3. StateType' /\ Raced' /\ \A j \in Jobs : Carries(j)'
  BY <1>1, <1>2 DEF IInv, StateType, KeysType, Raced, Carries
<1>4. (Clean => OneVerifier)'
  BY <1>1, <1>2 DEF IInv, Clean, OneVerifier, Aligned
<1>5. OneNodeAuthority'
  BY <1>1, SameNode DEF IInv, OneNodeAuthority
<1> QED
  BY <1>3, <1>4, <1>5 DEF IInv

LEMMA TickInv == ASSUME IInv, Tick PROVE IInv'
<1>1. UNCHANGED <<settings, keys, master, sessions, node, job, racing>> /\ now' = now + 1
  BY DEF Tick
<1>2. StateType' /\ Raced' /\ \A j \in Jobs : Carries(j)'
  <2>1. StateType'
    BY <1>1 DEF IInv, StateType, KeysType
  <2>2. Raced' /\ \A j \in Jobs : Carries(j)'
    BY <1>1 DEF IInv, Raced, Carries
  <2> QED
    BY <2>1, <2>2
<1>3. (Clean => OneVerifier)'
  BY <1>1 DEF IInv, Clean, OneVerifier, Aligned
<1>4. OneNodeAuthority'
  BY <1>1, SameNode DEF IInv, OneNodeAuthority
<1> QED
  BY <1>2, <1>3, <1>4 DEF IInv

(* What a dead process held in memory was nobody else's. *)
LEMMA CrashInv ==
    ASSUME IInv, NEW p \in Procs, Crash(p)
    PROVE  IInv'
<1> DEFINE Dead(j) == /\ Home[j] = p
                      /\ job[j].phase \notin {"idle", "done", "node signed", "answered"}
<1>1. UNCHANGED <<settings, keys, now>>
  BY DEF Crash
<1>2. [Idle EXCEPT !.phase = "failed"] \in Job /\ [Idle EXCEPT !.phase = "failed"].phase = "failed"
  BY DEF Idle, Job, Phases
<1>3. \A j \in Jobs : IF Dead(j) THEN job'[j] \in Job /\ job'[j].phase = "failed"
                                 ELSE job'[j] = job[j]
  BY <1>2 DEF Crash
<1>4. job' \in [Jobs -> Job]
  BY <1>2 DEF Crash, IInv, StateType
<1>5. /\ node' = [node EXCEPT ![p] = [cached |-> None, inFlight |-> None]]
      /\ master' = [master EXCEPT ![p] = None]
      /\ sessions' = [sessions EXCEPT ![p] = {}]
      /\ racing' = {j \in racing : ~(Home[j] = p /\ job[j].phase = "deriving")}
  BY DEF Crash
<1> HIDE DEF Dead
<1>6. StateType'
  BY <1>1, <1>4, <1>5 DEF IInv, StateType, KeysType
<1>7. ASSUME NEW j \in Jobs PROVE Carries(j)'
  <2>1. Carries(j) /\ Home[j] \in Procs
    BY CustodyAssumption DEF IInv
  <2>2. node'[Home[j]].inFlight = j <=> job'[j].phase = "node sealing"
    <3>1. CASE Home[j] = p
      <4>1. node'[Home[j]].inFlight = None
        BY <1>5, <3>1 DEF IInv, StateType
      <4>2. job'[j].phase # "node sealing"
        BY <1>3, <3>1 DEF Dead
      <4> QED
        BY <4>1, <4>2, NoJobIsNone
    <3>2. CASE Home[j] # p
      <4>1. node'[Home[j]] = node[Home[j]]
        BY <1>5, <2>1, <3>2 DEF IInv, StateType
      <4>2. job'[j] = job[j]
        BY <1>3, <3>2 DEF Dead
      <4> QED
        BY <2>1, <4>1, <4>2 DEF Carries
    <3> QED
      BY <3>1, <3>2
  <2> QED
    BY <1>3, <2>1, <2>2 DEF Carries, Carrying, Using
<1>8. Raced'
  BY <1>1, <1>3, <1>5 DEF IInv, Raced, Dead
<1>9. Clean' => OneVerifier'
  <2> SUFFICES ASSUME Clean' PROVE OneVerifier'
    OBVIOUS
  <2>1. OneVerifier
    BY <1>3, <1>5 DEF IInv, StateType, Clean
  <2>2. \A j \in Jobs : Aligned(j)'
    BY <1>1, <1>3, <2>1 DEF OneVerifier, Aligned, Using
  <2>3. \A q \in Procs : master'[q] \in {None, settings.verifier}
    BY <1>5, <2>1 DEF OneVerifier, IInv, StateType
  <2> QED
    BY <1>1, <2>1, <2>2, <2>3 DEF OneVerifier
<1>10. OneNodeAuthority'
  <2>1. \A q \in Procs : node'[q].cached \in {None, FirstOf("node")}
    BY <1>5 DEF IInv, StateType, OneNodeAuthority
  <2> QED
    BY <1>1, <1>3, <2>1, SameNode DEF IInv, OneNodeAuthority
<1> QED
  BY <1>6, <1>7, <1>8, <1>9, <1>10 DEF IInv

(* A key of a user or of the host is sealed: no row of the node's label.    *)
LEMMA SealedStep ==
    ASSUME IInv, NEW j \in Jobs, job[j].phase \in {"sealing", "host sealing"},
           NEW label \in {"user", "host"}, keys' = Inserted(j, label),
           NEW r \in Job, r.phase \in {"done", "host ready"},
           job' = [job EXCEPT ![j] = r],
           UNCHANGED <<settings, master, sessions, node, racing, now>>
    PROVE  IInv'
<1> DEFINE row == [id |-> j, label |-> label, seal |-> job[j].key,
                   order |-> Cardinality(keys)]
<1>1. keys' = keys \cup {row}
  BY DEF Inserted
<1>2. job[j].key \in Seals
  BY DEF IInv, Carries, Carrying, Using
<1>3. IsFiniteSet(keys) /\ Cardinality(keys) \in Nat
  BY FS_CardinalityType DEF IInv, StateType, KeysType
<1>4. /\ row \in [id : Jobs, label : {"user", "node", "host"}, seal : Seals, order : Nat]
      /\ row.label = label /\ row.seal = job[j].key
  BY <1>2, <1>3
<1> HIDE DEF row
<1>5. KeysType'
  <2>1. IsFiniteSet(keys \cup {row})
    BY <1>3, FS_AddElement
  <2> QED
    BY <1>1, <1>4, <2>1 DEF IInv, StateType, KeysType
<1>6. Labelled("node")' = Labelled("node")
  BY <1>1, <1>4 DEF Labelled
<1>7. FirstOf("node")' = FirstOf("node")
  BY <1>6 DEF FirstOf
<1>8. job'[j] = r /\ \A k \in Jobs : k # j => job'[k] = job[k]
  BY DEF IInv, StateType
<1>9. StateType'
  BY <1>5 DEF IInv, StateType
<1>10. \A k \in Jobs : Carries(k)'
  <2>1. \A k \in Jobs : Carries(k)
    BY DEF IInv
  <2>2. Carries(j)'
    BY <1>8, <2>1 DEF Carries, Carrying, Using
  <2>3. ASSUME NEW k \in Jobs, k # j PROVE Carries(k)'
    <3>1. job'[k] = job[k] /\ node' = node
      BY <1>8, <2>3
    <3>2. Carries(k)
      BY <2>1
    <3> QED
      BY <3>1, <3>2 DEF Carries
  <2> QED
    BY <2>2, <2>3
<1>11. Raced' /\ (Clean' => Clean)
  BY <1>8 DEF IInv, Raced, Clean, StateType
<1>12. Clean' => OneVerifier'
  <2> SUFFICES ASSUME Clean' PROVE OneVerifier'
    OBVIOUS
  <2>1. OneVerifier
    BY <1>11 DEF IInv
  <2>2. job[j].key = settings.verifier
    BY <2>1 DEF OneVerifier, Aligned, Using
  <2>3. Aligned(j)'
    BY <1>8 DEF Aligned, Using
  <2>4. ASSUME NEW k \in Jobs, k # j PROVE Aligned(k)'
    <3>1. job'[k] = job[k] /\ settings' = settings /\ Aligned(k)
      BY <1>8, <2>1, <2>4 DEF OneVerifier
    <3> QED
      BY <3>1 DEF Aligned
  <2> QED
    BY <1>1, <1>4, <2>1, <2>2, <2>3, <2>4 DEF OneVerifier
<1>13. OneNodeAuthority'
  BY <1>6, <1>7, <1>8 DEF IInv, OneNodeAuthority
<1> QED
  BY <1>9, <1>10, <1>11, <1>12, <1>13 DEF IInv

LEMMA KeySealedInv ==
    ASSUME IInv, NEW j \in Jobs, KeySealed(j)
    PROVE  IInv'
<1> DEFINE r == [Idle EXCEPT !.phase = "done"]
<1>1. r \in Job /\ r.phase = "done"
  BY DEF Job, Idle, Phases
<1>2. job' = [job EXCEPT ![j] = r]
  BY DEF KeySealed, End
<1> HIDE DEF r
<1> QED
  BY <1>1, <1>2, SealedStep DEF KeySealed, At

LEMMA HostSealedInv ==
    ASSUME IInv, NEW j \in Jobs, HostSealed(j)
    PROVE  IInv'
<1> DEFINE r == [job[j] EXCEPT !.phase = "host ready", !.row = j, !.key = None]
<1>1. r \in Job /\ r.phase = "host ready"
  <2>1. job[j] \in Job
    BY DEF IInv, StateType
  <2> QED
    BY <2>1 DEF Job, Phases
<1>2. job' = [job EXCEPT ![j] = r]
  BY DEF HostSealed, IInv, StateType
<1> HIDE DEF r
<1> QED
  BY <1>1, <1>2, SealedStep DEF HostSealed, At

LEMMA KeyStepsInv ==
    ASSUME IInv, NEW j \in Jobs,
           \/ KeyStart(j) \/ Signed(j)
           \/ \E row \in Labelled("user") : SignStart(j, row)
    PROVE  IInv'
<1>1. CASE KeyStart(j)
  BY <1>1, KeyTaken DEF KeyStart, Gated, Start, At, Using
<1>2. CASE Signed(j)
  BY <1>2, Ended DEF Signed, At
<1>3. ASSUME NEW row \in Labelled("user"), SignStart(j, row) PROVE IInv'
  <2>1. row.id \in Jobs
    BY DEF IInv, StateType, KeysType, Labelled
  <2> QED
    BY <1>3, <2>1, KeyTaken DEF SignStart, Gated, Start, At, Using
<1> QED
  BY <1>1, <1>2, <1>3

-----------------------------------------------------------------------------
(* node-authority.ts. *)

(* The four answers of ensure. *)
LEMMA EnsureNodeInv ==
    ASSUME IInv, NEW j \in Jobs, EnsureNode(j)
    PROVE  IInv'
<1> DEFINE p == Home[j]
<1>1. /\ p \in Procs /\ job[j] \in Job /\ job[j].phase = "idle"
      /\ master[p] \in Seals
  BY CustodyAssumption DEF EnsureNode, Gated, Start, At, isValidSession, IInv, StateType
<1>2. UNCHANGED <<settings, keys, master, sessions, tables, racing, now, stops>>
  BY DEF EnsureNode
<1>3. CASE node[p].cached # None
  <2> DEFINE r == [job[j] EXCEPT !.phase = "node ready", !.row = node[p].cached]
  <2>1. node[p].cached = FirstOf("node") /\ node[p].cached \in Jobs
    BY <1>1, <1>3 DEF IInv, StateType, OneNodeAuthority
  <2>2. r \in Job /\ r.phase = "node ready" /\ r.row = FirstOf("node") /\ r.row # None
    BY <1>1, <1>3, <2>1 DEF Job, Phases
  <2>3. Fits(j, r)
    BY <1>1, <2>2 DEF Fits, Carrying, Using
  <2>4. job' = [job EXCEPT ![j] = r] /\ UNCHANGED node
    BY <1>3 DEF EnsureNode, IInv, StateType
  <2> HIDE DEF r, p
  <2> QED
    BY <1>2, <2>2, <2>3, <2>4, QuietStep
<1>4. CASE node[p].cached = None /\ node[p].inFlight # None
  <2> DEFINE r == [job[j] EXCEPT !.phase = "node waiting"]
  <2>1. r \in Job /\ r.phase = "node waiting"
    BY <1>1 DEF Job, Phases
  <2>2. Fits(j, r)
    BY <1>1, <2>1 DEF Fits, Carrying, Using, Ready
  <2>3. job' = [job EXCEPT ![j] = r] /\ UNCHANGED node
    BY <1>4 DEF EnsureNode, Goto, IInv, StateType
  <2> HIDE DEF r, p
  <2> QED
    BY <1>2, <2>1, <2>2, <2>3, QuietStep
<1>5. CASE node[p].cached = None /\ node[p].inFlight = None /\ FirstOf("node") # None
  <2> DEFINE r == [job[j] EXCEPT !.phase = "node ready", !.row = FirstOf("node")]
  <2>1. FirstOf("node") \in Jobs
    BY <1>5, FirstType DEF IInv, StateType
  <2>2. r \in Job /\ r.phase = "node ready" /\ r.row = FirstOf("node")
    BY <1>1, <2>1 DEF Job, Phases
  <2>3. /\ job' = [job EXCEPT ![j] = r]
        /\ node' = [node EXCEPT ![p].cached = FirstOf("node")]
    BY <1>5 DEF EnsureNode, IInv, StateType
  <2> HIDE DEF r, p
  <2>4. job'[j] = r /\ \A k \in Jobs : k # j => job'[k] = job[k]
    BY <2>3 DEF IInv, StateType
  <2>5. /\ node' \in [Procs -> [cached : Jobs \cup {None}, inFlight : Jobs \cup {None}]]
        /\ \A q \in Procs : /\ node'[q].inFlight = node[q].inFlight
                            /\ node'[q].cached \in {node[q].cached, FirstOf("node")}
    BY <1>1, <2>1, <2>3 DEF IInv, StateType
  <2>6. StateType'
    BY <1>2, <2>2, <2>3, <2>5 DEF IInv, StateType, KeysType
  <2>7. ASSUME NEW k \in Jobs PROVE Carries(k)'
    <3>1. Carries(k) /\ Home[k] \in Procs
      BY CustodyAssumption DEF IInv
    <3> QED
      BY <1>1, <2>2, <2>4, <2>5, <3>1 DEF Carries, Carrying, Using
  <2>8. Raced' /\ (Clean' => Clean)
    BY <1>2, <2>2, <2>4 DEF IInv, Raced, Clean, StateType
  <2>9. Clean' => OneVerifier'
    <3> SUFFICES ASSUME Clean' PROVE OneVerifier'
      OBVIOUS
    <3>1. OneVerifier
      BY <2>8 DEF IInv
    <3>2. \A k \in Jobs : Aligned(k)'
      BY <1>2, <2>2, <2>4, <3>1 DEF OneVerifier, Aligned, Using
    <3> QED
      BY <1>2, <3>1, <3>2 DEF OneVerifier
  <2>10. OneNodeAuthority'
    BY <1>2, <1>5, <2>2, <2>4, <2>5, SameNode DEF IInv, OneNodeAuthority
  <2> QED
    BY <2>6, <2>7, <2>8, <2>9, <2>10 DEF IInv
<1>6. CASE node[p].cached = None /\ node[p].inFlight = None /\ FirstOf("node") = None
  <2> DEFINE r == [job[j] EXCEPT !.phase = "node sealing", !.row = None, !.key = master[p]]
  <2>1. master[p] # None
    BY <1>1, NoKeyIsNone
  <2>2. /\ r \in Job /\ r.phase = "node sealing" /\ r.key = master[p]
    BY <1>1 DEF Job, Phases
  <2>3. /\ job' = [job EXCEPT ![j] = r]
        /\ node' = [node EXCEPT ![p].inFlight = j]
    BY <1>6, <2>1 DEF EnsureNode, WithKey, IInv, StateType
  <2> HIDE DEF r
  <2>4. job'[j] = r /\ \A k \in Jobs : k # j => job'[k] = job[k]
    BY <2>3 DEF IInv, StateType
  <2>5. /\ node' \in [Procs -> [cached : Jobs \cup {None}, inFlight : Jobs \cup {None}]]
        /\ \A q \in Procs : node'[q].cached = node[q].cached
        /\ \A q \in Procs : node'[q].inFlight = IF q = p THEN j ELSE node[q].inFlight
    BY <1>1, <2>3 DEF IInv, StateType
  <2>6. StateType'
    BY <1>2, <2>2, <2>3, <2>5 DEF IInv, StateType, KeysType
  <2>7. ASSUME NEW k \in Jobs PROVE Carries(k)'
    <3>1. Carries(k) /\ Home[k] \in Procs
      BY CustodyAssumption DEF IInv
    <3>2. CASE k = j
      BY <1>1, <2>2, <2>4, <2>5, <3>2 DEF Carries
    <3>3. CASE k # j
      <4>1. node'[Home[k]].inFlight = k <=> node[Home[k]].inFlight = k
        BY <1>6, <2>5, <3>1, <3>3, NoJobIsNone
      <4>2. job'[k] = job[k]
        BY <2>4, <3>3
      <4> QED
        BY <3>1, <4>1, <4>2 DEF Carries
    <3> QED
      BY <3>2, <3>3
  <2>8. Raced' /\ (Clean' => Clean)
    BY <1>2, <2>2, <2>4 DEF IInv, Raced, Clean, StateType
  <2>9. Clean' => OneVerifier'
    <3> SUFFICES ASSUME Clean' PROVE OneVerifier'
      OBVIOUS
    <3>1. OneVerifier
      BY <2>8 DEF IInv
    <3>2. r.key = settings.verifier
      BY <1>1, <2>1, <2>2, <3>1 DEF OneVerifier
    <3>3. \A k \in Jobs : Aligned(k)'
      BY <1>2, <2>2, <2>4, <3>1, <3>2 DEF OneVerifier, Aligned
    <3> QED
      BY <1>2, <3>1, <3>3 DEF OneVerifier
  <2>10. OneNodeAuthority'
    BY <1>2, <2>2, <2>4, <2>5, SameNode DEF IInv, OneNodeAuthority
  <2> QED
    BY <2>6, <2>7, <2>8, <2>9, <2>10 DEF IInv
<1> QED
  BY <1>3, <1>4, <1>5, <1>6

(* The unique index lets one generation through; the loser takes its row.   *)
LEMMA NodeSealedInv ==
    ASSUME IInv, NEW j \in Jobs, NodeSealed(j)
    PROVE  IInv'
<1> DEFINE p == Home[j]
           id == IF FirstOf("node") # None THEN FirstOf("node") ELSE j
           Woken(k) == k = j \/ (Home[k] = p /\ job[k].phase = "node waiting")
           row == [id |-> j, label |-> "node", seal |-> job[j].key,
                   order |-> Cardinality(keys)]
<1>1. /\ p \in Procs /\ job[j].phase = "node sealing" /\ job[j].key \in Seals
      /\ id \in Jobs
  BY CustodyAssumption, FirstType DEF NodeSealed, At, IInv, StateType, Carries, Carrying, Using
<1>2. UNCHANGED <<settings, master, sessions, tables, racing, now, stops>>
  BY DEF NodeSealed
<1>3. keys' = IF Labelled("node") = {} THEN keys \cup {row} ELSE keys
  BY DEF NodeSealed, NodeKeys, Inserted
<1>4. node' = [node EXCEPT ![p] = [cached |-> id, inFlight |-> None]]
  BY DEF NodeSealed, Settled
<1>5. job' = [k \in Jobs |->
                IF Woken(k) THEN [job[k] EXCEPT !.phase = "node ready", !.row = id, !.key = None]
                ELSE job[k]]
  BY DEF NodeSealed
<1>6. IsFiniteSet(keys) /\ Cardinality(keys) \in Nat
  BY FS_CardinalityType DEF IInv, StateType, KeysType
<1>7. /\ row \in [id : Jobs, label : {"user", "node", "host"}, seal : Seals, order : Nat]
      /\ row.label = "node" /\ row.seal = job[j].key /\ row.id = j
  BY <1>1, <1>6
<1>8. KeysType'
  <2>1. IsFiniteSet(keys \cup {row})
    BY <1>6, FS_AddElement
  <2> QED
    BY <1>3, <1>7, <2>1 DEF IInv, StateType, KeysType
<1>9. /\ \A x, y \in Labelled("node")' : x = y
      /\ FirstOf("node")' = id
  <2>1. CASE Labelled("node") # {}
    <3>1. keys' = keys /\ FirstOf("node") # None
      BY <1>3, <2>1, FirstType DEF IInv, StateType
    <3> QED
      BY <3>1, SameNode DEF IInv, OneNodeAuthority
  <2>2. CASE Labelled("node") = {}
    <3>1. Labelled("node")' = {row}
      <4> HIDE DEF row
      <4> QED
        BY <1>3, <1>7, <2>2 DEF Labelled
    <3>2. First({row}) = j
      <4>1. \A x \in {row} : x.order \in Nat
        BY <1>6
      <4>2. \E x \in {row} : First({row}) = x.id
        <5> HIDE DEF row
        <5> QED
          BY <4>1, FirstIsRow
      <4> QED
        BY <4>2
    <3>3. FirstOf("node") = None
      BY <2>2, FirstType DEF IInv, StateType
    <3> HIDE DEF row
    <3> QED
      BY <3>1, <3>2, <3>3 DEF FirstOf
  <2> QED
    BY <2>1, <2>2
<1> HIDE DEF row, id
<1>10. \A k \in Jobs :
          IF Woken(k)
          THEN /\ job'[k] \in Job /\ job'[k].phase = "node ready" /\ job'[k].row = id
          ELSE job'[k] = job[k]
  <2>1. \A k \in Jobs : job[k] \in Job
    BY DEF IInv, StateType
  <2>2. \A r \in Job : LET s == [r EXCEPT !.phase = "node ready", !.row = id, !.key = None]
                       IN  s \in Job /\ s.phase = "node ready" /\ s.row = id
    BY <1>1 DEF Job, Phases
  <2> QED
    BY <1>5, <2>1, <2>2
<1>11. job' \in [Jobs -> Job]
  BY <1>5, <1>10 DEF IInv, StateType
<1>12. /\ node' \in [Procs -> [cached : Jobs \cup {None}, inFlight : Jobs \cup {None}]]
       /\ \A q \in Procs : IF q = p THEN node'[q].cached = id /\ node'[q].inFlight = None
                                    ELSE node'[q] = node[q]
  BY <1>1, <1>4 DEF IInv, StateType
<1>13. StateType'
  BY <1>2, <1>8, <1>11, <1>12 DEF IInv, StateType
<1>14. ASSUME NEW k \in Jobs PROVE Carries(k)'
  <2>1. Carries(k) /\ Carries(j) /\ Home[k] \in Procs
    BY CustodyAssumption DEF IInv
  <2>2. CASE Woken(k)
    <3>1. node'[Home[k]].inFlight = None
      BY <1>12, <2>1, <2>2
    <3> QED
      BY <1>10, <2>2, <3>1, NoJobIsNone DEF Carries, Carrying, Using
  <2>3. CASE ~Woken(k)
    <3>1. job'[k] = job[k]
      BY <1>10, <2>3
    <3>2. CASE Home[k] # p
      <4>1. node'[Home[k]] = node[Home[k]]
        BY <1>12, <2>1, <3>2
      <4> QED
        BY <2>1, <3>1, <4>1 DEF Carries
    <3>3. CASE Home[k] = p
      <4>1. node[p].inFlight = j
        BY <1>1, <2>1 DEF Carries
      <4>2. job[k].phase # "node sealing"
        BY <2>1, <2>3, <3>3, <4>1 DEF Carries
      <4>3. node'[Home[k]].inFlight = None
        BY <1>12, <2>1, <3>3
      <4> QED
        BY <2>1, <3>1, <4>2, <4>3, NoJobIsNone DEF Carries
    <3> QED
      BY <3>2, <3>3
  <2> QED
    BY <2>2, <2>3
<1>15. Raced' /\ (Clean' => Clean)
  BY <1>2, <1>10 DEF IInv, Raced, Clean, StateType
<1>16. Clean' => OneVerifier'
  <2> SUFFICES ASSUME Clean' PROVE OneVerifier'
    OBVIOUS
  <2>1. OneVerifier
    BY <1>15 DEF IInv
  <2>2. job[j].key = settings.verifier
    BY <1>1, <2>1 DEF OneVerifier, Aligned, Using
  <2>3. ASSUME NEW k \in Jobs PROVE Aligned(k)'
    <3>1. job'[k] = job[k] \/ job'[k].phase = "node ready"
      BY <1>10
    <3>2. settings' = settings /\ Aligned(k)
      BY <1>2, <2>1 DEF OneVerifier
    <3> QED
      BY <3>1, <3>2 DEF Aligned, Using
  <2>4. \A x \in keys' : x.seal = settings.verifier
    BY <1>3, <1>7, <2>1, <2>2 DEF OneVerifier
  <2> QED
    BY <1>2, <2>1, <2>3, <2>4 DEF OneVerifier
<1>17. OneNodeAuthority'
  <2>1. \A q \in Procs : node'[q].cached \in {None, id}
    BY <1>12 DEF IInv, OneNodeAuthority, id
  <2>2. \A k \in Jobs : job'[k].phase \in {"node ready", "node signing", "node signed"} =>
            job'[k].row = id /\ job'[k].row # None
    BY <1>1, <1>10, NoJobIsNone DEF IInv, OneNodeAuthority, id
  <2> QED
    BY <1>9, <2>1, <2>2 DEF OneNodeAuthority
<1> QED
  BY <1>13, <1>14, <1>15, <1>16, <1>17 DEF IInv

LEMMA NodeSignStartInv ==
    ASSUME IInv, NEW j \in Jobs, NodeSignStart(j)
    PROVE  IInv'
<1>1. job[j].phase = "node ready" /\ job[j].row \in Jobs \cup {None}
  BY DEF NodeSignStart, At, IInv, StateType, Job
<1>2. job[j].row = FirstOf("node") /\ job[j].row # None
  BY <1>1 DEF IInv, OneNodeAuthority
<1> QED
  BY <1>1, <1>2, KeyTaken DEF NodeSignStart, Using

LEMMA NodeSignedInv ==
    ASSUME IInv, NEW j \in Jobs, NodeSigned(j)
    PROVE  IInv'
<1>1. job[j].phase = "node signing" /\ job[j] \in Job
  BY DEF NodeSigned, At, IInv, StateType
<1>2. job[j].row = FirstOf("node") /\ job[j].row # None
  BY <1>1 DEF IInv, OneNodeAuthority
<1>3. CASE ~Opens(job[j].key, job[j].row)
  BY <1>1, <1>3, Ended DEF NodeSigned
<1>4. CASE Opens(job[j].key, job[j].row)
  <2> DEFINE r == [job[j] EXCEPT !.phase = "node signed", !.key = None]
  <2>1. r \in Job /\ r.phase = "node signed" /\ r.row = job[j].row
    BY <1>1 DEF Job, Phases
  <2>2. Fits(j, r)
    BY <1>1, <1>2, <2>1 DEF Fits, Carrying, Using
  <2>3. job' = [job EXCEPT ![j] = r]
    BY <1>4 DEF NodeSigned, IInv, StateType
  <2> HIDE DEF r
  <2> QED
    BY <2>1, <2>2, <2>3, QuietStep DEF NodeSigned
<1> QED
  BY <1>3, <1>4

-----------------------------------------------------------------------------
(* agent-pay.ts: nothing an agent asks for touches the node or the vault,  *)
(* except the host's own key.                                              *)

LEMMA AgentStepsInv ==
    ASSUME IInv, NEW j \in Jobs,
           \/ \E r \in Requests : AuthorizeStart(j, r)
           \/ HostSealed(j) \/ AttestStart(j) \/ Recorded(j) \/ Answered(j)
    PROVE  IInv'
<1>1. ASSUME NEW q \in Requests, AuthorizeStart(j, q) PROVE IInv'
  <2> DEFINE host == FirstOf("host")
             s == [Idle EXCEPT !.phase = "host sealing", !.key = master[Home[j]],
                               !.request = q, !.at = now]
             t == [Idle EXCEPT !.phase = "host ready", !.row = host, !.request = q, !.at = now]
  <2>1. /\ job[j].phase = "idle" /\ master[Home[j]] \in Seals
        /\ host \in Jobs \cup {None} /\ now \in Nat
    BY <1>1, CustodyAssumption, FirstType
       DEF AuthorizeStart, Gated, Start, At, isValidSession, IInv, StateType
  <2>2. s \in Job /\ s.phase = "host sealing" /\ s.key = master[Home[j]]
    BY <2>1 DEF Job, Idle, Phases
  <2>3. t \in Job /\ t.phase = "host ready"
    BY <2>1 DEF Job, Idle, Phases
  <2>4. Fits(j, s) /\ Fits(j, t)
    BY <2>1, <2>2, <2>3 DEF Fits, Carrying, Using, Ready
  <2>5. job' = [job EXCEPT ![j] = IF host = None THEN s ELSE t]
    BY <1>1 DEF AuthorizeStart
  <2> HIDE DEF s, t, host
  <2>6. UNCHANGED <<settings, keys, master, sessions, node, racing, now>>
    BY <1>1 DEF AuthorizeStart
  <2>7. CASE host = None
    <3>1. job' = [job EXCEPT ![j] = s]
      BY <2>5, <2>7
    <3> QED
      BY <2>2, <2>4, <2>6, <3>1, QuietStep
  <2>8. CASE host # None
    <3>1. job' = [job EXCEPT ![j] = t]
      BY <2>5, <2>8
    <3> QED
      BY <2>3, <2>4, <2>6, <3>1, QuietStep
  <2> QED
    BY <2>7, <2>8
<1>2. CASE HostSealed(j)
  BY <1>2, HostSealedInv
<1>3. CASE AttestStart(j)
  <2>1. job[j].phase = "host ready" /\ job[j].row \in Jobs \cup {None}
    BY <1>3 DEF AttestStart, At, IInv, StateType, Job
  <2> QED
    BY <1>3, <2>1, KeyTaken DEF AttestStart, Using
<1>4. CASE Recorded(j)
  <2>1. job[j].phase = "attesting" /\ (End(j, "recorded") \/ End(j, "failed"))
    BY <1>4 DEF Recorded, At
  <2>2. UNCHANGED <<settings, keys, master, sessions, node, racing, now>>
    BY <1>4 DEF Recorded
  <2> QED
    BY <2>1, <2>2, Ended
<1>5. CASE Answered(j)
  BY <1>5, Ended DEF Answered, At
<1> QED
  BY <1>1, <1>2, <1>3, <1>4, <1>5

-----------------------------------------------------------------------------
(* Sums over finite sets of rows.  MapThenSumSet adds in an order CHOOSE    *)
(* picks; that any order gives the same is shown on a smallest             *)
(* counterexample, which has at least one element to take out.             *)

Some(s) == CHOOSE x \in s : TRUE

(* f tells what the weights w of every subset of S sum up to. *)
Totals(f, S, w) ==
    f = [s \in SUBSET S |-> IF s = {} THEN 0 ELSE w[Some(s)] + f[s \ {Some(s)}]]

LEMMA SomeIn == ASSUME NEW s, s # {} PROVE Some(s) \in s
BY DEF Some

(* Of any subsets of a finite set one has the fewest elements: the         *)
(* induction that the lemmas below make.                                   *)
LEMMA SmallestSubset ==
    ASSUME NEW S, IsFiniteSet(S), NEW B, B \subseteq SUBSET S, B # {}
    PROVE  \E s \in B : \A t \in B : Cardinality(s) <= Cardinality(t)
<1> DEFINE N == {Cardinality(s) : s \in B}
<1>1. N \subseteq Nat /\ N # {}
  BY FS_Subset, FS_CardinalityType
<1>2. PICK m \in N : \A e \in N : m <= e
  <2> HIDE DEF N
  <2> QED
    BY <1>1, LeastOf
<1> QED
  BY <1>2

LEMMA SmallerSubset ==
    ASSUME NEW S, IsFiniteSet(S), NEW s \in SUBSET S, NEW x \in s
    PROVE  /\ s \ {x} \in SUBSET S
           /\ ~(Cardinality(s) <= Cardinality(s \ {x}))
BY FS_Subset, FS_RemoveElement, FS_CardinalityType

LEMMA TotalsAt ==
    ASSUME NEW S, NEW w, NEW f, Totals(f, S, w), NEW s \in SUBSET S
    PROVE  f[s] = IF s = {} THEN 0 ELSE w[Some(s)] + f[s \ {Some(s)}]
BY DEF Totals

LEMMA TotalsEmpty ==
    ASSUME NEW S, NEW w, NEW f, Totals(f, S, w)
    PROVE  f[{}] = 0
BY TotalsAt

LEMMA TotalsStep ==
    ASSUME NEW S, NEW w, NEW f, Totals(f, S, w), NEW s \in SUBSET S, s # {}
    PROVE  f[s] = w[Some(s)] + f[s \ {Some(s)}]
BY TotalsAt

(* Sums of naturals are naturals. *)
LEMMA TotalsNat ==
    ASSUME NEW S, IsFiniteSet(S), NEW w, \A x \in S : w[x] \in Nat,
           NEW f, Totals(f, S, w)
    PROVE  \A s \in SUBSET S : f[s] \in Nat
<1> DEFINE B == {s \in SUBSET S : f[s] \notin Nat}
<1> SUFFICES ASSUME B # {} PROVE FALSE
  OBVIOUS
<1>1. PICK s \in B : \A t \in B : Cardinality(s) <= Cardinality(t)
  <2>1. B \subseteq SUBSET S
    OBVIOUS
  <2> HIDE DEF B
  <2> QED
    BY <2>1, SmallestSubset
<1>0. f[s] \notin Nat
  OBVIOUS
<1>2. s # {}
  <2>1. s = {} => f[s] = 0
    BY TotalsAt
  <2> QED
    BY <1>0, <2>1
<1>3. Some(s) \in s
  BY <1>2, SomeIn
<1>4. s \ {Some(s)} \in SUBSET S /\ s \ {Some(s)} \notin B
  BY <1>1, <1>3, SmallerSubset
<1>5. f[s] = w[Some(s)] + f[s \ {Some(s)}]
  BY <1>2, TotalsAt
<1> QED
  BY <1>3, <1>4, <1>5

(* Two such functions agree where their weights do. *)
LEMMA TotalsAgree ==
    ASSUME NEW S, IsFiniteSet(S), NEW T, S \subseteq T,
           NEW v, NEW w, \A x \in S : v[x] = w[x],
           NEW f, Totals(f, S, v), NEW g, Totals(g, T, w)
    PROVE  \A s \in SUBSET S : f[s] = g[s]
<1> DEFINE B == {s \in SUBSET S : f[s] # g[s]}
<1> SUFFICES ASSUME B # {} PROVE FALSE
  OBVIOUS
<1>1. PICK s \in B : \A t \in B : Cardinality(s) <= Cardinality(t)
  <2>1. B \subseteq SUBSET S
    OBVIOUS
  <2> HIDE DEF B
  <2> QED
    BY <2>1, SmallestSubset
<1>0. s \in SUBSET T
  OBVIOUS
<1>2. s # {}
  BY <1>0, TotalsAt
<1>3. Some(s) \in s
  BY <1>2, SomeIn
<1>4. s \ {Some(s)} \in SUBSET S /\ s \ {Some(s)} \notin B
  BY <1>1, <1>3, SmallerSubset
<1>5. f[s] = v[Some(s)] + f[s \ {Some(s)}] /\ g[s] = w[Some(s)] + g[s \ {Some(s)}]
  BY <1>0, <1>2, TotalsAt
<1> QED
  BY <1>3, <1>4, <1>5

(* Any element may be added last. *)
LEMMA TotalsSplit ==
    ASSUME NEW S, IsFiniteSet(S), NEW w, \A x \in S : w[x] \in Nat,
           NEW f, Totals(f, S, w)
    PROVE  \A s \in SUBSET S : \A x \in s : f[s] = w[x] + f[s \ {x}]
<1> DEFINE B == {s \in SUBSET S : \E x \in s : f[s] # w[x] + f[s \ {x}]}
<1> SUFFICES ASSUME B # {} PROVE FALSE
  OBVIOUS
<1>1. PICK s \in B : \A t \in B : Cardinality(s) <= Cardinality(t)
  <2>1. B \subseteq SUBSET S
    OBVIOUS
  <2> HIDE DEF B
  <2> QED
    BY <2>1, SmallestSubset
<1>2. PICK x \in s : f[s] # w[x] + f[s \ {x}]
  OBVIOUS
<1>3. PICK c \in s : c = Some(s)
  BY SomeIn
<1>4. f[s] = w[c] + f[s \ {c}] /\ c # x
  BY <1>2, <1>3, TotalsAt
<1>5. /\ s \ {c} \in SUBSET S /\ s \ {c} \notin B /\ x \in s \ {c}
      /\ s \ {x} \in SUBSET S /\ s \ {x} \notin B /\ c \in s \ {x}
  BY <1>1, <1>4, SmallerSubset
<1>6. f[s \ {c}] = w[x] + f[(s \ {c}) \ {x}] /\ f[s \ {x}] = w[c] + f[(s \ {x}) \ {c}]
  BY <1>5
<1>7. (s \ {c}) \ {x} = (s \ {x}) \ {c} /\ (s \ {x}) \ {c} \in SUBSET S
  OBVIOUS
<1>8. f[(s \ {x}) \ {c}] \in Nat /\ w[x] \in Nat /\ w[c] \in Nat
  BY <1>7, TotalsNat
<1>9. PICK rest \in Nat : rest = f[(s \ {x}) \ {c}]
  BY <1>8
<1>10. f[s] = w[c] + (w[x] + rest) /\ f[s \ {x}] = w[c] + rest
  BY <1>4, <1>6, <1>7, <1>9
<1> QED
  BY <1>2, <1>8, <1>10

(* There is such a function: every proper subset of a smallest set without *)
(* one has one, and they agree.                                             *)
LEMMA TotalsExist ==
    ASSUME NEW S, IsFiniteSet(S), NEW w
    PROVE  \E f : Totals(f, S, w)
<1> DEFINE B == {s \in SUBSET S : ~ \E f : Totals(f, s, w)}
<1> SUFFICES ASSUME B # {} PROVE FALSE
  OBVIOUS
<1>1. PICK s \in B : \A t \in B : Cardinality(s) <= Cardinality(t)
  <2>1. B \subseteq SUBSET S
    OBVIOUS
  <2> HIDE DEF B
  <2> QED
    BY <2>1, SmallestSubset
<1>2. IsFiniteSet(s)
  BY FS_Subset
<1>3. PICK below : below = [t \in SUBSET s |-> CHOOSE f : Totals(f, t \ {Some(t)}, w)]
  OBVIOUS
<1>4. PICK F : F = [t \in SUBSET s |->
                    IF t = {} THEN 0 ELSE w[Some(t)] + below[t][t \ {Some(t)}]]
  OBVIOUS
<1>5. ASSUME NEW t \in SUBSET s, t # {}
      PROVE  Totals(below[t], t \ {Some(t)}, w)
  <2>1. Some(t) \in t
    BY <1>5, SomeIn
  <2>2. t \ {Some(t)} \in SUBSET S /\ t \ {Some(t)} \notin B
    <3>1. t \ {Some(t)} \subseteq s \ {Some(t)} /\ Some(t) \in s
      BY <2>1
    <3>2. IsFiniteSet(s \ {Some(t)}) /\ Cardinality(t \ {Some(t)}) <= Cardinality(s \ {Some(t)})
      BY <1>2, <3>1, FS_Subset
    <3>3. ~(Cardinality(s) <= Cardinality(s \ {Some(t)}))
      BY <3>1, SmallerSubset
    <3>4. Cardinality(s) \in Nat /\ Cardinality(t \ {Some(t)}) \in Nat /\ Cardinality(s \ {Some(t)}) \in Nat
      BY <1>2, <3>2, FS_Subset, FS_CardinalityType
    <3> QED
      BY <1>1, <3>2, <3>3, <3>4
  <2>3. \E f : Totals(f, t \ {Some(t)}, w)
    BY <2>2
  <2>4. below[t] = CHOOSE f : Totals(f, t \ {Some(t)}, w)
    BY <1>3
  <2> QED
    BY <2>3, <2>4, Zenon
<1>6. /\ F[{}] = 0
      /\ \A t \in SUBSET s : t # {} => F[t] = w[Some(t)] + below[t][t \ {Some(t)}]
  BY <1>4
<1>7. ASSUME NEW t \in SUBSET s, t # {}
      PROVE  below[t][t \ {Some(t)}] = F[t \ {Some(t)}]
  <2>0. PICK u : u = t \ {Some(t)}
    OBVIOUS
  <2>1. Some(t) \in t /\ u \in SUBSET s /\ u \in SUBSET u
    BY <1>7, <2>0, SomeIn
  <2>2. Totals(below[t], u, w)
    BY <1>5, <1>7, <2>0
  <2>3. CASE u = {}
    <3>1. below[t][{}] = 0
      BY <2>1, <2>2, <2>3, TotalsEmpty, Zenon
    <3> QED
      BY <1>6, <2>0, <2>3, <3>1
  <2>4. CASE u # {}
    <3>0. PICK f, g : f = below[t] /\ g = below[u]
      OBVIOUS
    <3>1. Totals(f, u, w) /\ Totals(g, u \ {Some(u)}, w)
      BY <1>5, <2>1, <2>2, <2>4, <3>0
    <3>2. f[u] = w[Some(u)] + f[u \ {Some(u)}]
      <4>1. u \in SUBSET u
        OBVIOUS
      <4> QED
        BY <2>4, <3>1, <4>1, TotalsStep
    <3>3. IsFiniteSet(u \ {Some(u)}) /\ u \ {Some(u)} \subseteq u
      BY <1>2, <2>1, FS_Subset
    <3>4. \A x \in SUBSET (u \ {Some(u)}) : g[x] = f[x]
      <4>1. \A x \in u \ {Some(u)} : w[x] = w[x]
        OBVIOUS
      <4> QED
        BY <3>1, <3>3, <4>1, TotalsAgree
    <3>5. g[u \ {Some(u)}] = f[u \ {Some(u)}]
      BY <3>4
    <3> QED
      BY <1>6, <2>0, <2>1, <2>4, <3>0, <3>2, <3>5
  <2> QED
    BY <2>3, <2>4
<1>8. Totals(F, s, w)
  <2>1. \A t \in SUBSET s : F[t] = IF t = {} THEN 0 ELSE w[Some(t)] + F[t \ {Some(t)}]
    <3>1. ASSUME NEW t \in SUBSET s, t # {}
          PROVE  F[t] = w[Some(t)] + F[t \ {Some(t)}]
      BY <1>6, <1>7, <3>1, Zenon
    <3> QED
      BY <1>6, <3>1
  <2>2. F = [t \in SUBSET s |-> F[t]]
    BY <1>4
  <2>3. F = [t \in SUBSET s |-> IF t = {} THEN 0 ELSE w[Some(t)] + F[t \ {Some(t)}]]
    BY <2>1, <2>2
  <2> QED
    BY <2>3 DEF Totals
<1> QED
  BY <1>8

(* aggregateSpent sums one asset over the rows. *)
LEMMA SpentTotal ==
    ASSUME NEW a \in Assets, NEW S, IsFiniteSet(S), NEW w, \A row \in S : w[row] = row.spends[a]
    PROVE  \E f : Totals(f, S, w) /\ SpentBy(S)[a] = f[S]
<1> DEFINE It(f) == f = [s \in SUBSET S |->
                             IF s = {} THEN 0
                             ELSE LET x == CHOOSE x \in s : TRUE
                                  IN  x.spends[a] + f[s \ {x}]]
<1>1. SpentBy(S)[a] = (CHOOSE f : It(f))[S]
  BY DEF SpentBy, MapThenSumSet, MapThenFoldSet
<1>2. ASSUME NEW f PROVE It(f) <=> Totals(f, S, w)
  <2>1. \A s \in SUBSET S :
           (IF s = {} THEN 0
            ELSE LET x == CHOOSE x \in s : TRUE IN x.spends[a] + f[s \ {x}])
             = (IF s = {} THEN 0 ELSE w[Some(s)] + f[s \ {Some(s)}])
    BY SomeIn DEF Some
  <2> QED
    BY <2>1 DEF Totals
<1>3. PICK f : Totals(f, S, w)
  BY TotalsExist
<1>4. It(CHOOSE h : It(h))
  <2> HIDE DEF It
  <2> QED
    BY <1>2, <1>3, Zenon
<1> QED
  BY <1>1, <1>2, <1>4

(* One more authorization adds what it spends. *)
LEMMA SpentAdd ==
    ASSUME NEW a \in Assets, NEW S, IsFiniteSet(S), NEW new, new \notin S,
           \A row \in S \cup {new} : row.spends[a] \in Nat
    PROVE  SpentBy(S)[a] \in Nat /\ SpentBy(S \cup {new})[a] = SpentBy(S)[a] + new.spends[a]
<1>0. PICK T : T = S \cup {new}
  OBVIOUS
<1>1. PICK w : w = [row \in T |-> row.spends[a]]
  OBVIOUS
<1>2. IsFiniteSet(T) /\ S \subseteq T /\ T \ {new} = S /\ new \in T
  BY <1>0, FS_AddElement
<1>3. \A row \in T : w[row] = row.spends[a] /\ w[row] \in Nat
  BY <1>0, <1>1
<1>4. PICK f : Totals(f, S, w) /\ SpentBy(S)[a] = f[S]
  BY <1>2, <1>3, SpentTotal
<1>5. PICK g : Totals(g, T, w) /\ SpentBy(T)[a] = g[T]
  BY <1>2, <1>3, SpentTotal
<1>6. g[T] = w[new] + g[S]
  <2>1. T \in SUBSET T
    OBVIOUS
  <2> QED
    BY <1>2, <1>3, <1>5, <2>1, TotalsSplit
<1>7. f[S] = g[S] /\ f[S] \in Nat
  <2>1. S \in SUBSET S
    OBVIOUS
  <2>2. \A row \in S : w[row] = w[row] /\ w[row] \in Nat
    BY <1>2, <1>3
  <2>3. \A s \in SUBSET S : f[s] = g[s]
    BY <1>2, <1>4, <1>5, <2>2, TotalsAgree
  <2>4. \A s \in SUBSET S : f[s] \in Nat
    BY <1>4, <2>2, TotalsNat
  <2> QED
    BY <2>1, <2>3, <2>4
<1> QED
  BY <1>0, <1>2, <1>3, <1>4, <1>5, <1>6, <1>7

-----------------------------------------------------------------------------
(* agent-pay.ts: what the tables say of the grants.  The request, once past *)
(* the gate, waits for the host's key and its signature; the tables change  *)
(* only when it is recorded.                                                *)

Granting == {"host sealing", "host ready", "attesting"}

Reserving == {"recorded", "answered"}

RowsType ==
    /\ IsFiniteSet(tables.rows)
    /\ \A row \in tables.rows :
          /\ row.order \in Nat /\ row.order < Cardinality(tables.rows)
          /\ row.request \in Requests \cup {Unbound}
          /\ row.spends \in Spends

(* The usage row of a grant is within the limits of the one capability it  *)
(* was opened for.                                                         *)
Accounted(row) ==
    LET r == row.request
        used == tables.usage[row.grant]
    IN  /\ row.grant \in DOMAIN tables.usage
        /\ used.capability = r.capability
        /\ used.count <= r.count
        /\ \A a \in Assets : used.spent[a] <= r.total[a]
        /\ r.wallet \in DOMAIN tables.wallets
        /\ r.epoch <= tables.wallets[r.wallet].epoch

(* It counts the authorizations of the grant and sums up what they spend.  *)
UsageAgrees ==
    \A g \in DOMAIN tables.usage :
        /\ tables.usage[g].count = Cardinality(RowsOf(tables, g))
        /\ \A a \in Assets : tables.usage[g].spent[a] = SpentBy(RowsOf(tables, g))[a]

(* The rows up to an authorization spend what its capability allows.       *)
Covered(row) == \A a \in Assets : SpentBy(CountedWith(row))[a] <= row.request.total[a]

GrantInv ==
    /\ \A j \in Jobs : job[j].phase \in Granting => job[j].request \in Requests
    /\ \A j \in Jobs : job[j].phase \in Reserving => Reserves(j)
    /\ RowsType
    /\ UsageAgrees
    /\ \A w \in DOMAIN tables.wallets : tables.wallets[w].epoch \in Nat
    /\ \A row \in BoundRows : Accounted(row) /\ Admissible(row) /\ Covered(row)

(* What a step that records nothing may do to the requests. *)
Waits(k) ==
    /\ job'[k].phase \in Granting => job'[k].request \in Requests
    /\ job'[k].phase \in Reserving => job[k].phase \in Reserving

LEMMA NothingRecorded ==
    ASSUME GrantInv, tables' = tables, \A k \in Jobs : Waits(k)
    PROVE  GrantInv'
<1>1. \A k \in Jobs : job'[k].phase \in Reserving => Reserves(k)'
  BY DEF GrantInv, Waits, Reserves, BoundRows
<1>2. /\ \A row \in BoundRows' : Accounted(row)' /\ Admissible(row)'
      /\ RowsType' /\ UsageAgrees'
  BY DEF GrantInv, Accounted, Admissible, BoundRows, Before, CountedWith, RowsType, UsageAgrees,
         RowsOf
<1>3. \A row \in BoundRows' : Covered(row)'
  BY DEF GrantInv, BoundRows, Covered, CountedWith, Before
<1> QED
  BY <1>1, <1>2, <1>3 DEF GrantInv, Waits

(* The record of one request changes, to a phase in which it has asked for *)
(* nothing, or for what it already had.                                    *)
LEMMA OneWaits ==
    ASSUME IInv, GrantInv, NEW j \in Jobs, NEW r, job' = [job EXCEPT ![j] = r],
           tables' = tables, r.phase \in Granting => r.request \in Requests,
           r.phase \in Reserving => job[j].phase \in Reserving
    PROVE  GrantInv'
<1>1. \A k \in Jobs : job'[k] = IF k = j THEN r ELSE job[k]
  BY DEF IInv, StateType
<1>2. \A k \in Jobs : Waits(k)
  BY <1>1 DEF Waits, GrantInv
<1> QED
  BY <1>2, NothingRecorded

LEMMA KeyWaits ==
    ASSUME IInv, GrantInv, NEW j \in Jobs, NEW phase, NEW row, WithKey(j, phase, row),
           tables' = tables, phase \notin Reserving,
           phase \in Granting => job[j].request \in Requests
    PROVE  GrantInv'
<1> DEFINE r == [Idle EXCEPT !.phase = "failed"]
           s == [job[j] EXCEPT !.phase = phase, !.row = row, !.key = master[Home[j]]]
<1>1. job[j] \in Job
  BY DEF IInv, StateType
<1>2. r.phase = "failed" /\ s.phase = phase /\ s.request = job[j].request
  BY <1>1 DEF Job, Idle
<1>3. job' = [job EXCEPT ![j] = r] \/ job' = [job EXCEPT ![j] = s]
  BY DEF WithKey, End, IInv, StateType
<1> HIDE DEF r, s
<1> QED
  BY <1>2, <1>3, OneWaits DEF Granting, Reserving

LEMMA EndWaits ==
    ASSUME IInv, GrantInv, NEW j \in Jobs, NEW phase, End(j, phase), tables' = tables,
           phase \notin Granting, phase \in Reserving => job[j].phase \in Reserving
    PROVE  GrantInv'
<1> DEFINE r == [Idle EXCEPT !.phase = phase]
<1>1. r.phase = phase
  BY DEF Idle
<1>2. job' = [job EXCEPT ![j] = r]
  BY DEF End
<1> HIDE DEF r
<1> QED
  BY <1>1, <1>2, OneWaits

(* The vault and the node ask nothing of the tables. *)
LEMMA VaultGrants ==
    ASSUME IInv, GrantInv, NEW j \in Jobs, NEW passphrase \in Passphrases,
           \/ InitializeStart(j, passphrase) \/ UnlockStart(j, passphrase)
           \/ SaltStored(j) \/ VerifierStored(j) \/ Unlocked(j)
    PROVE  GrantInv'
<1>1. job[j] \in Job /\ tables' = tables
  BY DEF IInv, StateType, InitializeStart, UnlockStart, SaltStored, VerifierStored, Unlocked
<1>2. CASE InitializeStart(j, passphrase)
  <2> DEFINE r == [job[j] EXCEPT !.phase = "deriving", !.key = <<passphrase, j>>]
  <2>1. r.phase = "deriving"
    BY <1>1 DEF Job
  <2>2. job' = [job EXCEPT ![j] = r]
    BY <1>2 DEF InitializeStart, IInv, StateType
  <2> HIDE DEF r
  <2> QED
    BY <1>1, <2>1, <2>2, OneWaits DEF Granting, Reserving
<1>3. CASE UnlockStart(j, passphrase)
  <2> DEFINE r == [job[j] EXCEPT !.phase = "checking", !.key = <<passphrase, settings.salt>>,
                                 !.verifier = settings.verifier]
  <2>1. r.phase = "checking"
    BY <1>1 DEF Job
  <2>2. End(j, "failed") \/ job' = [job EXCEPT ![j] = r]
    BY <1>3 DEF UnlockStart, IInv, StateType
  <2> HIDE DEF r
  <2> QED
    BY <1>1, <2>1, <2>2, OneWaits, EndWaits DEF Granting, Reserving
<1>4. CASE SaltStored(j) \/ VerifierStored(j)
  <2>1. PICK phase \in {"salt stored", "initialized"} : Goto(j, phase)
    BY <1>4 DEF SaltStored, VerifierStored
  <2> DEFINE r == [job[j] EXCEPT !.phase = phase]
  <2>2. r.phase = phase
    BY <1>1 DEF Job
  <2>3. job' = [job EXCEPT ![j] = r]
    BY <2>1 DEF Goto, IInv, StateType
  <2> HIDE DEF r
  <2> QED
    BY <1>1, <2>2, <2>3, OneWaits DEF Granting, Reserving
<1>5. CASE Unlocked(j)
  <2>1. End(j, "done") \/ End(j, "failed")
    BY <1>5 DEF Unlocked
  <2> QED
    BY <1>1, <2>1, EndWaits DEF Granting, Reserving
<1> QED
  BY <1>2, <1>3, <1>4, <1>5

LEMMA KeyGrants ==
    ASSUME IInv, GrantInv, NEW j \in Jobs,
           \/ KeyStart(j) \/ KeySealed(j) \/ Signed(j)
           \/ \E row \in Labelled("user") : SignStart(j, row)
    PROVE  GrantInv'
<1>1. tables' = tables
  BY DEF KeyStart, KeySealed, Signed, SignStart
<1>2. CASE KeyStart(j)
  BY <1>1, <1>2, KeyWaits DEF KeyStart, Granting, Reserving
<1>3. CASE KeySealed(j)
  BY <1>1, <1>3, EndWaits DEF KeySealed, Granting, Reserving
<1>4. CASE Signed(j)
  <2>1. End(j, "done") \/ End(j, "failed")
    BY <1>4 DEF Signed
  <2> QED
    BY <1>1, <2>1, EndWaits DEF Granting, Reserving
<1>5. ASSUME NEW row \in Labelled("user"), SignStart(j, row) PROVE GrantInv'
  <2>1. WithKey(j, "signing", row.id)
    BY <1>5 DEF SignStart
  <2>2. "signing" \notin Granting /\ "signing" \notin Reserving
    BY DEF Granting, Reserving
  <2> QED
    BY <1>1, <2>1, <2>2, KeyWaits, Zenon
<1> QED
  BY <1>2, <1>3, <1>4, <1>5

LEMMA NodeGrants ==
    ASSUME IInv, GrantInv, NEW j \in Jobs,
           EnsureNode(j) \/ NodeSealed(j) \/ NodeSignStart(j) \/ NodeSigned(j)
    PROVE  GrantInv'
<1>1. job[j] \in Job /\ tables' = tables
  BY DEF IInv, StateType, EnsureNode, NodeSealed, NodeSignStart, NodeSigned
<1>2. CASE EnsureNode(j)
  <2>1. CASE WithKey(j, "node sealing", None)
    BY <1>1, <2>1, KeyWaits DEF Granting, Reserving
  <2>2. CASE Goto(j, "node waiting")
    <3> DEFINE r == [job[j] EXCEPT !.phase = "node waiting"]
    <3>1. r.phase = "node waiting"
      BY <1>1 DEF Job
    <3>2. job' = [job EXCEPT ![j] = r]
      BY <2>2 DEF Goto, IInv, StateType
    <3> HIDE DEF r
    <3> QED
      BY <1>1, <3>1, <3>2, OneWaits DEF Granting, Reserving
  <2>3. ASSUME NEW row, job' = [job EXCEPT ![j].phase = "node ready", ![j].row = row]
        PROVE  GrantInv'
    <3> DEFINE r == [job[j] EXCEPT !.phase = "node ready", !.row = row]
    <3>1. r.phase = "node ready"
      BY <1>1 DEF Job
    <3>2. job' = [job EXCEPT ![j] = r]
      BY <2>3 DEF IInv, StateType
    <3> HIDE DEF r
    <3> QED
      BY <1>1, <3>1, <3>2, OneWaits DEF Granting, Reserving
  <2>4. \/ WithKey(j, "node sealing", None)
        \/ Goto(j, "node waiting")
        \/ \E row : job' = [job EXCEPT ![j].phase = "node ready", ![j].row = row]
    BY <1>2 DEF EnsureNode
  <2> QED
    BY <2>1, <2>2, <2>3, <2>4
<1>3. CASE NodeSealed(j)
  <2>1. ASSUME NEW k \in Jobs PROVE job'[k] = job[k] \/ job'[k].phase = "node ready"
    <3>1. job[k] \in Job
      BY DEF IInv, StateType
    <3> QED
      BY <1>3, <3>1 DEF NodeSealed, Job
  <2>2. \A k \in Jobs : Waits(k)
    BY <2>1 DEF Waits, Granting, Reserving, GrantInv
  <2> QED
    BY <1>1, <2>2, NothingRecorded
<1>4. CASE NodeSignStart(j)
  <2>1. WithKey(j, "node signing", job[j].row)
    BY <1>4 DEF NodeSignStart
  <2>2. "node signing" \notin Granting /\ "node signing" \notin Reserving
    BY DEF Granting, Reserving
  <2> QED
    BY <1>1, <2>1, <2>2, KeyWaits, Zenon
<1>5. CASE NodeSigned(j)
  <2> DEFINE r == [job[j] EXCEPT !.phase = "node signed", !.key = None]
  <2>1. r.phase = "node signed"
    BY <1>1 DEF Job
  <2>2. End(j, "failed") \/ job' = [job EXCEPT ![j] = r]
    BY <1>5 DEF NodeSigned, IInv, StateType
  <2> HIDE DEF r
  <2> QED
    BY <1>1, <2>1, <2>2, OneWaits, EndWaits DEF Granting, Reserving
<1> QED
  BY <1>2, <1>3, <1>4, <1>5

(* A crash, a lock and the clock end requests and begin none. *)
LEMMA WorldGrants ==
    ASSUME IInv, GrantInv, (\E p \in Procs : Lock(p) \/ Crash(p)) \/ Tick
    PROVE  GrantInv'
<1>1. tables' = tables
  BY DEF Lock, Crash, Tick
<1>2. ASSUME NEW k \in Jobs PROVE job'[k] = job[k] \/ job'[k].phase = "failed"
  BY DEF Lock, Crash, Tick, Idle
<1>3. \A k \in Jobs : Waits(k)
  BY <1>2 DEF Waits, Granting, Reserving, GrantInv
<1> QED
  BY <1>1, <1>3, NothingRecorded

LEMMA AskingGrants ==
    ASSUME IInv, GrantInv, NEW j \in Jobs,
           \/ \E q \in Requests : AuthorizeStart(j, q)
           \/ HostSealed(j) \/ AttestStart(j) \/ Answered(j)
    PROVE  GrantInv'
<1>1. job[j] \in Job /\ tables' = tables
  BY DEF IInv, StateType, AuthorizeStart, HostSealed, AttestStart, Answered
<1>2. ASSUME NEW q \in Requests, AuthorizeStart(j, q) PROVE GrantInv'
  <2> DEFINE s == [Idle EXCEPT !.phase = "host sealing", !.key = master[Home[j]],
                               !.request = q, !.at = now]
             t == [Idle EXCEPT !.phase = "host ready", !.row = FirstOf("host"),
                               !.request = q, !.at = now]
  <2>1. /\ s.phase = "host sealing" /\ s.request = q
        /\ t.phase = "host ready" /\ t.request = q
    BY DEF Idle
  <2>2. job' = [job EXCEPT ![j] = s] \/ job' = [job EXCEPT ![j] = t]
    BY <1>2 DEF AuthorizeStart
  <2> HIDE DEF s, t
  <2> QED
    BY <1>1, <2>1, <2>2, OneWaits DEF Granting, Reserving
<1>3. CASE HostSealed(j)
  <2> DEFINE r == [job[j] EXCEPT !.phase = "host ready", !.row = j, !.key = None]
  <2>1. r.phase = "host ready" /\ r.request = job[j].request
    BY <1>1 DEF Job
  <2>2. job' = [job EXCEPT ![j] = r] /\ job[j].phase = "host sealing"
    BY <1>3 DEF HostSealed, At, IInv, StateType
  <2>3. job[j].request \in Requests
    BY <2>2 DEF GrantInv, Granting
  <2> HIDE DEF r
  <2> QED
    BY <1>1, <2>1, <2>2, <2>3, OneWaits DEF Reserving
<1>4. CASE AttestStart(j)
  <2>1. job[j].request \in Requests
    BY <1>4 DEF AttestStart, At, GrantInv, Granting
  <2>2. WithKey(j, "attesting", job[j].row)
    BY <1>4 DEF AttestStart
  <2>3. "attesting" \notin Reserving
    BY DEF Reserving
  <2> QED
    BY <1>1, <2>1, <2>2, <2>3, KeyWaits, Zenon
<1>5. CASE Answered(j)
  BY <1>1, <1>5, EndWaits DEF Answered, At, Granting, Reserving
<1> QED
  BY <1>2, <1>3, <1>4, <1>5

(* The usage a request is measured against. *)
LEMMA Measured ==
    ASSUME GrantInv, NEW r \in Requests, NEW at, Reservable(tables, r, at)
    PROVE  /\ UsageContext(tables, r).count = Cardinality(RowsOf(tables, r.grant))
           /\ Cardinality(RowsOf(tables, r.grant)) + 1 <= r.count
           /\ \A a \in Assets :
                 /\ UsageContext(tables, r).spent[a] = SpentBy(RowsOf(tables, r.grant))[a]
                 /\ UsageContext(tables, r).spent[a] + r.spends[a] <= r.total[a]
           /\ r.wallet \in DOMAIN tables.wallets => tables.wallets[r.wallet].epoch <= r.epoch
           /\ at < r.expires
           /\ r.grant \in DOMAIN tables.usage =>
                 tables.usage[r.grant].capability = r.capability
<1>1. WithinCapability(r, at, UsageContext(tables, r)) /\ Continuous(tables, r)
  BY DEF Reservable, Authorizable
<1>2. /\ UsageContext(tables, r).count = Cardinality(RowsOf(tables, r.grant))
      /\ \A a \in Assets :
            UsageContext(tables, r).spent[a] = SpentBy(RowsOf(tables, r.grant))[a]
  BY DEF UsageContext, GrantInv, UsageAgrees
<1>3. /\ at < r.expires /\ UsageContext(tables, r).count + 1 <= r.count
      /\ \A a \in Assets : UsageContext(tables, r).spent[a] + r.spends[a] <= r.total[a]
      /\ UsageContext(tables, r).epoch <= r.epoch
  BY <1>1 DEF WithinCapability
<1>4. r.wallet \in DOMAIN tables.wallets => tables.wallets[r.wallet].epoch <= r.epoch
  BY <1>3, RequestsAssumption DEF UsageContext, GrantInv
<1>5. r.grant \in DOMAIN tables.usage => tables.usage[r.grant].capability = r.capability
  BY <1>1 DEF Continuous
<1> QED
  BY <1>2, <1>3, <1>4, <1>5

(* The reservation: measured against tables no other call can change.      *)
LEMMA ReservedGrants ==
    ASSUME GrantInv, NEW j \in Jobs, NEW r \in Requests, NEW at, NEW host,
           Reservable(tables, r, at), tables' = Reserved(tables, r, at, host, j),
           \A k \in Jobs : k # j => job'[k] = job[k],
           job'[j].phase = "recorded"
    PROVE  GrantInv'
<1> PICK n : n = Cardinality(tables.rows)
  OBVIOUS
<1> PICK new : new = [id |-> j, intent |-> r.intent, grant |-> r.grant, spends |-> r.spends,
                      request |-> r, at |-> at, host |-> host, order |-> n]
  OBVIOUS
<1> DEFINE used == [wallet |-> r.wallet, capability |-> r.capability,
                    count |-> UsageContext(tables, r).count + 1,
                    spent |-> Plus(UsageContext(tables, r).spent, r.spends)]
<1>1. /\ tables'.rows = tables.rows \cup {new}
      /\ tables'.usage = Put(tables.usage, r.grant, used)
      /\ tables'.wallets = Put(tables.wallets, r.wallet, Advanced(tables, r))
  BY DEF Reserved
<1>2. /\ new.id = j /\ new.intent = r.intent /\ new.grant = r.grant /\ new.request = r
      /\ new.at = at /\ new.order = n /\ new.spends = r.spends
  OBVIOUS
<1>3. /\ used.capability = r.capability /\ used.count = UsageContext(tables, r).count + 1
      /\ \A a \in Assets : used.spent[a] = UsageContext(tables, r).spent[a] + r.spends[a]
  BY DEF Plus
<1> HIDE DEF used
<1>4. /\ n \in Nat /\ IsFiniteSet(tables.rows) /\ new \notin tables.rows /\ r # Unbound
      /\ \A row \in tables.rows : row.order \in Nat /\ row.order < n
      /\ r.spends \in Spends
  BY <1>2, FS_CardinalityType, RequestsAssumption DEF GrantInv, RowsType
<1>5. IsFiniteSet(tables'.rows) /\ Cardinality(tables'.rows) = n + 1
  <2>1. /\ IsFiniteSet(tables.rows \cup {new})
        /\ Cardinality(tables.rows \cup {new}) = Cardinality(tables.rows) + 1
    BY <1>4, FS_AddElement
  <2> QED
    BY <1>1, <2>1
<1>6. RowsType'
  <2>1. \A row \in tables.rows :
           row.request \in Requests \cup {Unbound} /\ row.spends \in Spends
    BY DEF GrantInv, RowsType
  <2>2. ASSUME NEW row \in tables'.rows
        PROVE  /\ row.order \in Nat /\ row.order < n + 1
               /\ row.request \in Requests \cup {Unbound} /\ row.spends \in Spends
    BY <1>1, <1>2, <1>4, <2>1
  <2> QED
    BY <1>5, <2>2 DEF RowsType
<1>7. BoundRows' = BoundRows \cup {new}
  BY <1>1, <1>2, <1>4 DEF BoundRows
<1>8. /\ Before(new)' = tables.rows
      /\ \A row \in tables.rows : Before(row)' = Before(row)
  BY <1>1, <1>2, <1>4 DEF Before
<1>9. /\ DOMAIN tables'.usage = DOMAIN tables.usage \cup {r.grant}
      /\ tables'.usage[r.grant] = used
      /\ \A g \in DOMAIN tables.usage : g # r.grant => tables'.usage[g] = tables.usage[g]
  BY <1>1 DEF Put
<1>10. /\ DOMAIN tables'.wallets = DOMAIN tables.wallets \cup {r.wallet}
       /\ \A w \in DOMAIN tables.wallets :
             w # r.wallet => tables'.wallets[w] = tables.wallets[w]
       /\ tables'.wallets[r.wallet] = Advanced(tables, r)
  BY <1>1 DEF Put
<1>11. Advanced(tables, r).epoch = r.epoch /\ r.epoch \in Nat
  BY Measured, RequestsAssumption DEF Advanced, GrantInv
<1>12. PICK old : /\ old = RowsOf(tables, r.grant) /\ IsFiniteSet(old) /\ new \notin old
                 /\ Cardinality(old \cup {new}) = Cardinality(old) + 1
                 /\ \A a \in Assets :
                       SpentBy(old \cup {new})[a] = SpentBy(old)[a] + r.spends[a]
  <2>1. PICK old : old = RowsOf(tables, r.grant)
    OBVIOUS
  <2>2. IsFiniteSet(old) /\ new \notin old /\ old \subseteq tables.rows
    BY <1>4, <2>1, FS_Subset DEF RowsOf
  <2>3. Cardinality(old \cup {new}) = Cardinality(old) + 1
    BY <2>2, FS_AddElement
  <2>4. ASSUME NEW a \in Assets
        PROVE  SpentBy(old \cup {new})[a] = SpentBy(old)[a] + new.spends[a]
    <3>1. \A row \in old \cup {new} : row.spends[a] \in Nat
      BY <1>2, <1>4, <2>2 DEF GrantInv, RowsType, Spends
    <3> QED
      BY <2>2, <3>1, SpentAdd
  <2> QED
    BY <1>2, <2>1, <2>2, <2>3, <2>4
<1>13. UsageAgrees'
  <2> SUFFICES ASSUME NEW g \in DOMAIN tables'.usage
               PROVE  /\ tables'.usage[g].count = Cardinality(RowsOf(tables', g))
                      /\ \A a \in Assets :
                            tables'.usage[g].spent[a] = SpentBy(RowsOf(tables', g))[a]
    BY DEF UsageAgrees
  <2>1. CASE g = r.grant
    <3>1. RowsOf(tables', g) = old \cup {new}
      BY <1>1, <1>2, <1>12, <2>1 DEF RowsOf
    <3>2. tables'.usage[g] = used
      BY <1>9, <2>1
    <3>3. used.count = Cardinality(old \cup {new})
      BY <1>3, <1>12, Measured
    <3>4. \A a \in Assets : used.spent[a] = SpentBy(old \cup {new})[a]
      BY <1>3, <1>12, Measured
    <3> QED
      BY <3>1, <3>2, <3>3, <3>4
  <2>2. CASE g # r.grant
    <3>1. RowsOf(tables', g) = RowsOf(tables, g)
      BY <1>1, <1>2, <2>2 DEF RowsOf
    <3>2. tables'.usage[g] = tables.usage[g] /\ g \in DOMAIN tables.usage
      BY <1>9, <2>2
    <3> QED
      BY <3>1, <3>2 DEF GrantInv, UsageAgrees
  <2> QED
    BY <2>1, <2>2
<1>14. ASSUME NEW row \in BoundRows PROVE Accounted(row)'
  <2>1. row.request \in Requests /\ Accounted(row)
    BY DEF GrantInv, RowsType, BoundRows
  <2>2. row.request.wallet = r.wallet => row.request.epoch <= r.epoch
    BY <2>1, Measured, RequestsAssumption DEF Accounted, GrantInv
  <2>3. /\ row.request.wallet \in DOMAIN tables'.wallets
        /\ row.request.epoch <= tables'.wallets[row.request.wallet].epoch
    BY <1>10, <1>11, <2>1, <2>2 DEF Accounted
  <2>4. CASE row.grant # r.grant
    BY <1>9, <2>1, <2>3, <2>4 DEF Accounted
  <2>5. CASE row.grant = r.grant
    <3>1. row.request.capability = r.capability
      BY <2>1, <2>5, Measured DEF Accounted
    <3>2. row.request.count = r.count /\ row.request.total = r.total
      BY <2>1, <3>1, RequestsAssumption
    <3>3. used.count <= r.count /\ \A a \in Assets : used.spent[a] <= r.total[a]
      BY <1>3, Measured
    <3> QED
      BY <1>3, <1>9, <2>3, <2>5, <3>1, <3>2, <3>3 DEF Accounted
  <2> QED
    BY <2>4, <2>5
<1>15. Accounted(new)'
  <2>1. used.count <= r.count /\ \A a \in Assets : used.spent[a] <= r.total[a]
    BY <1>3, Measured
  <2> QED
    BY <1>2, <1>3, <1>9, <1>10, <1>11, <2>1 DEF Accounted
<1>16. ASSUME NEW row \in BoundRows PROVE Admissible(row)' /\ Covered(row)'
  <2>1. row \in tables.rows /\ Admissible(row) /\ Covered(row)
    BY DEF GrantInv, BoundRows
  <2>2. Before(row)' = Before(row) /\ CountedWith(row)' = CountedWith(row)
    BY <1>8, <2>1 DEF CountedWith
  <2>3. Admissible(row)'
    BY <2>1, <2>2 DEF Admissible
  <2>4. Covered(row)'
    BY <2>1, <2>2 DEF Covered
  <2> QED
    BY <2>3, <2>4
<1>17. CountedWith(new)' = old \cup {new}
  BY <1>2, <1>8, <1>12 DEF CountedWith, RowsOf
<1>18. Covered(new)'
  <2>1. ASSUME NEW a \in Assets PROVE SpentBy(old \cup {new})[a] <= r.total[a]
    <3>1. SpentBy(old \cup {new})[a] = SpentBy(old)[a] + r.spends[a]
      BY <1>12
    <3>2. SpentBy(old)[a] + r.spends[a] <= r.total[a]
      BY <1>12, Measured
    <3> QED
      BY <3>1, <3>2
  <2> QED
    BY <1>2, <1>17, <2>1 DEF Covered
<1>19. Admissible(new)'
  <2>2. Cardinality(CountedWith(new)') <= r.count
    BY <1>12, <1>17, Measured
  <2>3. ~Replayed(tables, r) /\ at < r.expires
    BY Measured DEF Reservable
  <2>4. ASSUME NEW q \in tables.rows
        PROVE  /\ q.intent # r.intent
               /\ q.request # Unbound =>
                     /\ q.request.wallet = r.wallet => q.request.epoch <= r.epoch
                     /\ <<q.request.wallet, q.grant, q.request.source, q.request.nonce>>
                           # <<r.wallet, r.grant, r.source, r.nonce>>
    <3>1. q.request # Unbound =>
             <<q.request.wallet, q.grant, q.request.source, q.request.nonce>>
                 # <<r.wallet, r.grant, r.source, r.nonce>>
      BY <2>3 DEF Replayed
    <3>2. q.request # Unbound /\ q.request.wallet = r.wallet => q.request.epoch <= r.epoch
      BY Measured, RequestsAssumption DEF GrantInv, RowsType, BoundRows, Accounted
    <3> QED
      BY <2>3, <3>1, <3>2 DEF Replayed
  <2> QED
    BY <1>2, <1>8, <2>2, <2>3, <2>4 DEF Admissible
<1>20. \A k \in Jobs : job'[k].phase \in Reserving => Reserves(k)'
  BY <1>2, <1>7 DEF GrantInv, Reserves
<1>21. \A k \in Jobs : job'[k].phase \in Granting => job'[k].request \in Requests
  BY DEF GrantInv, Granting
<1>22. \A w \in DOMAIN tables'.wallets : tables'.wallets[w].epoch \in Nat
  BY <1>10, <1>11 DEF GrantInv
<1> QED
  BY <1>6, <1>7, <1>14, <1>15, <1>16, <1>19, <1>20, <1>21, <1>22, <1>13, <1>18 DEF GrantInv

LEMMA RecordedGrants ==
    ASSUME IInv, GrantInv, NEW j \in Jobs, Recorded(j)
    PROVE  GrantInv'
<1>1. job[j].request \in Requests
  BY DEF Recorded, At, GrantInv, Granting
<1>2. CASE Reservable(tables, job[j].request, job[j].at) /\ Opens(job[j].key, job[j].row)
  <2>1. /\ tables' = Reserved(tables, job[j].request, job[j].at, job[j].row, j)
        /\ End(j, "recorded")
    BY <1>2 DEF Recorded
  <2>2. job'[j].phase = "recorded" /\ \A k \in Jobs : k # j => job'[k] = job[k]
    BY <2>1 DEF End, Idle, IInv, StateType
  <2> QED
    BY <1>1, <1>2, <2>1, <2>2, ReservedGrants
<1>3. CASE ~(Reservable(tables, job[j].request, job[j].at) /\ Opens(job[j].key, job[j].row))
  <2>1. tables' = tables /\ End(j, "failed")
    BY <1>3 DEF Recorded
  <2> QED
    BY <2>1, EndWaits DEF Granting, Reserving
<1> QED
  BY <1>2, <1>3

LEMMA InitGrants == Init => GrantInv
<1> SUFFICES ASSUME Init PROVE GrantInv
  OBVIOUS
<1>1. tables.rows = Legacy /\ tables.usage = <<>> /\ tables.wallets = <<>>
  BY DEF Init, NoTables
<1>2. DOMAIN tables.usage = {} /\ DOMAIN tables.wallets = {}
  BY <1>1
<1>3. RowsType /\ BoundRows = {}
  BY <1>1, LegacyAssumption DEF RowsType, BoundRows
<1>4. \A j \in Jobs : job[j].phase = "idle"
  BY DEF Init, Idle
<1> QED
  BY <1>2, <1>3, <1>4 DEF GrantInv, UsageAgrees, Granting, Reserving

LEMMA NextGrants == IInv /\ GrantInv /\ [Next]_vars => GrantInv'
<1> SUFFICES ASSUME IInv, GrantInv, [Next]_vars PROVE GrantInv'
  OBVIOUS
<1>1. ASSUME NEW j \in Jobs, SaltStored(j) \/ VerifierStored(j) \/ Unlocked(j)
      PROVE  GrantInv'
  <2>1. job[j].phase \in Carrying
    BY <1>1 DEF SaltStored, VerifierStored, Unlocked, At, Carrying
  <2>2. job[j].key \in Passphrases \X Jobs
    BY <2>1 DEF IInv, Carries, Seals
  <2>3. job[j].key[1] \in Passphrases
    BY <2>2
  <2> QED
    BY <1>1, <2>3, VaultGrants
<1>2. CASE UNCHANGED vars
  <2>1. tables' = tables /\ job' = job
    BY <1>2 DEF vars
  <2> QED
    BY <2>1, NothingRecorded DEF Waits, GrantInv
<1> QED
  BY <1>1, <1>2, VaultGrants, KeyGrants, NodeGrants, WorldGrants, AskingGrants, RecordedGrants
     DEF Next

-----------------------------------------------------------------------------
(* The theorems. *)

LEMMA NextInv == IInv /\ [Next]_vars => IInv'
<1> SUFFICES ASSUME IInv, [Next]_vars PROVE IInv'
  OBVIOUS
<1>1. ASSUME NEW j \in Jobs, NEW passphrase \in Passphrases,
             InitializeStart(j, passphrase) \/ UnlockStart(j, passphrase)
      PROVE  IInv'
  BY <1>1, InitializeStartInv, UnlockStartInv
<1>2. ASSUME NEW j \in Jobs, SaltStored(j) \/ VerifierStored(j) \/ Unlocked(j) \/ KeySealed(j)
      PROVE  IInv'
  BY <1>2, SaltStoredInv, VerifierStoredInv, UnlockedInv, KeySealedInv
<1>3. ASSUME NEW j \in Jobs,
             EnsureNode(j) \/ NodeSealed(j) \/ NodeSignStart(j) \/ NodeSigned(j)
      PROVE  IInv'
  BY <1>3, EnsureNodeInv, NodeSealedInv, NodeSignStartInv, NodeSignedInv
<1>4. ASSUME NEW p \in Procs, Lock(p) \/ Crash(p) PROVE IInv'
  BY <1>4, LockInv, CrashInv
<1>5. CASE Tick
  BY <1>5, TickInv
<1>6. CASE UNCHANGED vars
  <2>1. UNCHANGED <<settings, keys, master, sessions, node, job, racing, now>>
    BY <1>6 DEF vars
  <2>2. StateType' /\ Raced' /\ \A j \in Jobs : Carries(j)'
    BY <2>1 DEF IInv, StateType, KeysType, Raced, Carries
  <2>3. (Clean => OneVerifier)'
    BY <2>1 DEF IInv, Clean, OneVerifier, Aligned
  <2>4. OneNodeAuthority'
    BY <2>1, SameNode DEF IInv, OneNodeAuthority
  <2> QED
    BY <2>2, <2>3, <2>4 DEF IInv
<1> QED
  BY <1>1, <1>2, <1>3, <1>4, <1>5, <1>6, KeyStepsInv, AgentStepsInv DEF Next

(* Every step of every request keeps what the requests carry in line with  *)
(* the database and the memory of their process.                           *)
THEOREM Invariance == Spec => []IInv
  BY InitInv, NextInv, PTL DEF Spec

LEMMA GrantsInvariance == Spec => []GrantInv
  BY InitGrants, NextGrants, Invariance, PTL DEF Spec

(* Type correctness of the vault, the authorities and the requests over    *)
(* them; and the promise in flight of node-authority.ts belongs to the one *)
(* request that is generating the key.                                     *)
THEOREM TypeCorrect == Spec => []TypeOK
<1>1. IInv => TypeOK
  BY DEF IInv, StateType, KeysType, TypeOK, Carries, Job
<1> QED
  BY <1>1, Invariance, PTL

(* vault.ts:88: however initializations, unlocks, locks and crashes of any *)
(* number of processes interleave, no sealed key is orphaned unless two    *)
(* initializations overlapped, and even then not before the second one     *)
(* stored its salt.                                                        *)
THEOREM NoKeyIsOrphaned == Spec => []KeysStayOpenable
<1>1. IInv => KeysStayOpenable
  BY DEF IInv, OneVerifier, KeysStayOpenable
<1> QED
  BY <1>1, Invariance, PTL

(* db.ts:115: any number of processes that activate at once end with one   *)
(* node key, and none of them ever signs or answers with another.          *)
THEOREM NodeKeyIsOne == Spec => []OneNodeAuthority
<1>1. IInv => OneNodeAuthority
  BY DEF IInv
<1> QED
  BY <1>1, Invariance, PTL

(* agent-pay.ts:421: whatever calls overlap while they wait for a          *)
(* signature, the rows of a grant up to an authorization are within the    *)
(* count and the spends of its capability; it is not expired, not revoked  *)
(* and no replay; and an agent holds an attestation only of one that is    *)
(* reserved.  The check and the reservation are one transaction over usage *)
(* rows that say what the authorizations sum up to (UsageAgrees).          *)
THEOREM LimitsAlwaysHold == Spec => []LimitsHold
<1>1. GrantInv => LimitsHold
  BY DEF GrantInv, Covered, LimitsHold, Reserving
<1> QED
  BY <1>1, GrantsInvariance, PTL

(* agent-pay.ts:421: the usage row of a grant counts its authorizations,   *)
(* sums up their spends asset by asset and never exceeds the one           *)
(* capability it was opened for, however many ask at once.                 *)
THEOREM GrantsAreKept ==
    Spec => [](UsageAgrees /\ \A row \in BoundRows : Accounted(row))
<1>1. GrantInv => UsageAgrees /\ \A row \in BoundRows : Accounted(row)
  BY DEF GrantInv
<1> QED
  BY <1>1, GrantsInvariance, PTL
=============================================================================
