--------------------------- MODULE RecordProofs ---------------------------
(***************************************************************************)
(* The record store and the pay-link exchange over it, for every set of    *)
(* handles, nodes and callers, all records and all limits.                 *)
(*                                                                         *)
(* The store admits only chains that verify, one successor per parent, and *)
(* a budget of remote records that is exact to the byte and within limits. *)
(* The exchange answers one offer with one signed intent, strands none but *)
(* for expiry, and hands out only replies their merchant can always read.  *)
(***************************************************************************)
EXTENDS RecordStore, PayLinkExchange, FiniteSetTheorems, WellFoundedInduction, TLAPS

(* What append() preserves of the table it reads and writes. *)
AllVerified(table) == \A x \in Stored(table) : Verified(x)

RowsUnique(table) == \A x, y \in table : x.record = y.record => x = y

Counted(table, used) ==
    /\ IsFiniteSet(table)
    /\ CountExact(table, used)
    /\ BytesExact(table, used)
    /\ used.count <= MaxRemoteCount
    /\ used.bytes <= MaxRemoteBytes
    /\ \A row \in table : row.record.bytes \in Nat

Sound(table, used) ==
    /\ AllVerified(table)
    /\ EdgesHold(table)
    /\ RowsUnique(table)
    /\ NoncesDistinct(Stored(table))
    /\ SuccessorsIn(table)
    /\ Counted(table, used)

CallsVerified ==
    \A h \in Handles : \A i \in DOMAIN call[h].todo : Verified(call[h].todo[i].record)

IInv ==
    /\ TypeOK
    /\ Sound(rows, usage)
    /\ Sound(draft.rows, draft.usage)
    /\ CallsVerified

-----------------------------------------------------------------------------
(* Sums over finite sets.  The module's recursive sum is unfolded to a      *)
(* function on subsets, and what holds of it is proved from a smallest      *)
(* counterexample.                                                          *)

(* A nonempty set of naturals has a least element. *)
LEMMA LeastOf ==
    ASSUME NEW S, S \subseteq Nat, S # {}
    PROVE  \E m \in S : \A e \in S : m <= e
<1>1. PICK m \in S : \A e \in S : ~(<<e, m>> \in OpToRel(<, Nat))
  BY WFMin, NatLessThanWellFounded, Zenon
<1>2. \A x, y \in Nat : (<<x, y>> \in OpToRel(<, Nat)) <=> x < y
  BY Zenon DEF OpToRel
<1>3. \A e \in S : ~(e < m)
  BY <1>1, <1>2, Zenon
<1> QED
  BY <1>3, SMT

Some(s) == CHOOSE x \in s : TRUE

(* f tells what the weights w of every subset of S sum up to. *)
Totals(f, S, w) ==
    f = [s \in SUBSET S |-> IF s = {} THEN 0 ELSE w[Some(s)] + f[s \ {Some(s)}]]

(* The element picked from a nonempty set is in it. *)
LEMMA SomeIn == ASSUME NEW s, s # {} PROVE Some(s) \in s
BY DEF Some

(* Of any subsets of a finite set one has the fewest elements: the   *)
(* induction that the lemmas below make.                              *)
LEMMA SmallestSubset ==
    ASSUME NEW S, IsFiniteSet(S), NEW B, B \subseteq SUBSET S, B # {}
    PROVE  \E s \in B : \A t \in B : Cardinality(s) <= Cardinality(t)
<1> DEFINE N == {Cardinality(s) : s \in B}
<1>1. N \subseteq Nat /\ N # {}
  BY FS_Subset, FS_CardinalityType
<1>2. PICK m \in N : \A e \in N : m <= e
  <2> HIDE DEF N
  <2> QED
    BY <1>1, LeastOf
<1> QED
  BY <1>2

(* Without one of its elements a finite set is smaller. *)
LEMMA SmallerSubset ==
    ASSUME NEW S, IsFiniteSet(S), NEW s \in SUBSET S, NEW x \in s
    PROVE  /\ s \ {x} \in SUBSET S
           /\ ~(Cardinality(s) <= Cardinality(s \ {x}))
BY FS_Subset, FS_RemoveElement, FS_CardinalityType

(* Such a function at one subset. *)
LEMMA TotalsAt ==
    ASSUME NEW S, NEW w, NEW f, Totals(f, S, w), NEW s \in SUBSET S
    PROVE  f[s] = IF s = {} THEN 0 ELSE w[Some(s)] + f[s \ {Some(s)}]
BY DEF Totals

(* Nothing weighs nothing. *)
LEMMA TotalsEmpty ==
    ASSUME NEW S, NEW w, NEW f, Totals(f, S, w)
    PROVE  f[{}] = 0
BY TotalsAt

(* One step of such a function. *)
LEMMA TotalsStep ==
    ASSUME NEW S, NEW w, NEW f, Totals(f, S, w), NEW s \in SUBSET S, s # {}
    PROVE  f[s] = w[Some(s)] + f[s \ {Some(s)}]
BY TotalsAt

(* Sums of naturals are naturals. *)
LEMMA TotalsNat ==
    ASSUME NEW S, IsFiniteSet(S), NEW w, \A x \in S : w[x] \in Nat,
           NEW f, Totals(f, S, w)
    PROVE  \A s \in SUBSET S : f[s] \in Nat
<1> DEFINE B == {s \in SUBSET S : f[s] \notin Nat}
<1> SUFFICES ASSUME B # {} PROVE FALSE
  OBVIOUS
<1>1. PICK s \in B : \A t \in B : Cardinality(s) <= Cardinality(t)
  <2>1. B \subseteq SUBSET S
    OBVIOUS
  <2> HIDE DEF B
  <2> QED
    BY <2>1, SmallestSubset
<1>0. f[s] \notin Nat
  OBVIOUS
<1>2. s # {}
  <2>1. s = {} => f[s] = 0
    BY TotalsAt
  <2> QED
    BY <1>0, <2>1
<1>3. Some(s) \in s
  BY <1>2, SomeIn
<1>4. s \ {Some(s)} \in SUBSET S /\ s \ {Some(s)} \notin B
  BY <1>1, <1>3, SmallerSubset
<1>5. f[s] = w[Some(s)] + f[s \ {Some(s)}]
  BY <1>2, TotalsAt
<1> QED
  BY <1>3, <1>4, <1>5

(* Two such functions agree where their weights do. *)
LEMMA TotalsAgree ==
    ASSUME NEW S, IsFiniteSet(S), NEW T, S \subseteq T,
           NEW v, NEW w, \A x \in S : v[x] = w[x],
           NEW f, Totals(f, S, v), NEW g, Totals(g, T, w)
    PROVE  \A s \in SUBSET S : f[s] = g[s]
<1> DEFINE B == {s \in SUBSET S : f[s] # g[s]}
<1> SUFFICES ASSUME B # {} PROVE FALSE
  OBVIOUS
<1>1. PICK s \in B : \A t \in B : Cardinality(s) <= Cardinality(t)
  <2>1. B \subseteq SUBSET S
    OBVIOUS
  <2> HIDE DEF B
  <2> QED
    BY <2>1, SmallestSubset
<1>0. s \in SUBSET T
  OBVIOUS
<1>2. s # {}
  BY <1>0, TotalsAt
<1>3. Some(s) \in s
  BY <1>2, SomeIn
<1>4. s \ {Some(s)} \in SUBSET S /\ s \ {Some(s)} \notin B
  BY <1>1, <1>3, SmallerSubset
<1>5. f[s] = v[Some(s)] + f[s \ {Some(s)}] /\ g[s] = w[Some(s)] + g[s \ {Some(s)}]
  BY <1>0, <1>2, TotalsAt
<1> QED
  BY <1>3, <1>4, <1>5

(* Any element may be added last. *)
LEMMA TotalsSplit ==
    ASSUME NEW S, IsFiniteSet(S), NEW w, \A x \in S : w[x] \in Nat,
           NEW f, Totals(f, S, w)
    PROVE  \A s \in SUBSET S : \A x \in s : f[s] = w[x] + f[s \ {x}]
<1> DEFINE B == {s \in SUBSET S : \E x \in s : f[s] # w[x] + f[s \ {x}]}
<1> SUFFICES ASSUME B # {} PROVE FALSE
  OBVIOUS
<1>1. PICK s \in B : \A t \in B : Cardinality(s) <= Cardinality(t)
  <2>1. B \subseteq SUBSET S
    OBVIOUS
  <2> HIDE DEF B
  <2> QED
    BY <2>1, SmallestSubset
<1>2. PICK x \in s : f[s] # w[x] + f[s \ {x}]
  OBVIOUS
<1>3. PICK c \in s : c = Some(s)
  BY SomeIn
<1>4. f[s] = w[c] + f[s \ {c}] /\ c # x
  BY <1>2, <1>3, TotalsAt
<1>5. /\ s \ {c} \in SUBSET S /\ s \ {c} \notin B /\ x \in s \ {c}
      /\ s \ {x} \in SUBSET S /\ s \ {x} \notin B /\ c \in s \ {x}
  BY <1>1, <1>4, SmallerSubset
<1>6. f[s \ {c}] = w[x] + f[(s \ {c}) \ {x}] /\ f[s \ {x}] = w[c] + f[(s \ {x}) \ {c}]
  BY <1>5
<1>7. (s \ {c}) \ {x} = (s \ {x}) \ {c} /\ (s \ {x}) \ {c} \in SUBSET S
  OBVIOUS
<1>8. f[(s \ {x}) \ {c}] \in Nat /\ w[x] \in Nat /\ w[c] \in Nat
  BY <1>7, TotalsNat
<1>9. PICK rest \in Nat : rest = f[(s \ {x}) \ {c}]
  BY <1>8
<1>10. f[s] = w[c] + (w[x] + rest) /\ f[s \ {x}] = w[c] + rest
  BY <1>4, <1>6, <1>7, <1>9
<1> QED
  BY <1>2, <1>8, <1>10

(* There is such a function: every proper subset of a smallest set without *)
(* one has one, and they agree.                                             *)
LEMMA TotalsExist ==
    ASSUME NEW S, IsFiniteSet(S), NEW w
    PROVE  \E f : Totals(f, S, w)
<1> DEFINE B == {s \in SUBSET S : ~ \E f : Totals(f, s, w)}
<1> SUFFICES ASSUME B # {} PROVE FALSE
  OBVIOUS
<1>1. PICK s \in B : \A t \in B : Cardinality(s) <= Cardinality(t)
  <2>1. B \subseteq SUBSET S
    OBVIOUS
  <2> HIDE DEF B
  <2> QED
    BY <2>1, SmallestSubset
<1>2. IsFiniteSet(s)
  BY FS_Subset
<1>3. PICK below : below = [t \in SUBSET s |-> CHOOSE f : Totals(f, t \ {Some(t)}, w)]
  OBVIOUS
<1>4. PICK F : F = [t \in SUBSET s |->
                    IF t = {} THEN 0 ELSE w[Some(t)] + below[t][t \ {Some(t)}]]
  OBVIOUS
<1>5. ASSUME NEW t \in SUBSET s, t # {}
      PROVE  Totals(below[t], t \ {Some(t)}, w)
  <2>1. Some(t) \in t
    BY <1>5, SomeIn
  <2>2. t \ {Some(t)} \in SUBSET S /\ t \ {Some(t)} \notin B
    <3>1. t \ {Some(t)} \subseteq s \ {Some(t)} /\ Some(t) \in s
      BY <2>1
    <3>2. IsFiniteSet(s \ {Some(t)}) /\ Cardinality(t \ {Some(t)}) <= Cardinality(s \ {Some(t)})
      BY <1>2, <3>1, FS_Subset
    <3>3. ~(Cardinality(s) <= Cardinality(s \ {Some(t)}))
      BY <3>1, SmallerSubset
    <3>4. /\ Cardinality(s) \in Nat /\ Cardinality(t \ {Some(t)}) \in Nat
          /\ Cardinality(s \ {Some(t)}) \in Nat
      BY <1>2, <3>2, FS_Subset, FS_CardinalityType
    <3> QED
      BY <1>1, <3>2, <3>3, <3>4
  <2>3. \E f : Totals(f, t \ {Some(t)}, w)
    BY <2>2
  <2>4. below[t] = CHOOSE f : Totals(f, t \ {Some(t)}, w)
    BY <1>3
  <2> QED
    BY <2>3, <2>4, Zenon
<1>6. /\ F[{}] = 0
      /\ \A t \in SUBSET s : t # {} => F[t] = w[Some(t)] + below[t][t \ {Some(t)}]
  BY <1>4
<1>7. ASSUME NEW t \in SUBSET s, t # {}
      PROVE  below[t][t \ {Some(t)}] = F[t \ {Some(t)}]
  <2>0. PICK u : u = t \ {Some(t)}
    OBVIOUS
  <2>1. Some(t) \in t /\ u \in SUBSET s /\ u \in SUBSET u
    BY <1>7, <2>0, SomeIn
  <2>2. Totals(below[t], u, w)
    BY <1>5, <1>7, <2>0
  <2>3. CASE u = {}
    <3>1. below[t][{}] = 0
      BY <2>1, <2>2, <2>3, TotalsEmpty, Zenon
    <3> QED
      BY <1>6, <2>0, <2>3, <3>1
  <2>4. CASE u # {}
    <3>0. PICK f, g : f = below[t] /\ g = below[u]
      OBVIOUS
    <3>1. Totals(f, u, w) /\ Totals(g, u \ {Some(u)}, w)
      BY <1>5, <2>1, <2>2, <2>4, <3>0
    <3>2. f[u] = w[Some(u)] + f[u \ {Some(u)}]
      <4>1. u \in SUBSET u
        OBVIOUS
      <4> QED
        BY <2>4, <3>1, <4>1, TotalsStep
    <3>3. IsFiniteSet(u \ {Some(u)}) /\ u \ {Some(u)} \subseteq u
      BY <1>2, <2>1, FS_Subset
    <3>4. \A x \in SUBSET (u \ {Some(u)}) : g[x] = f[x]
      <4>1. \A x \in u \ {Some(u)} : w[x] = w[x]
        OBVIOUS
      <4> QED
        BY <3>1, <3>3, <4>1, TotalsAgree
    <3>5. g[u \ {Some(u)}] = f[u \ {Some(u)}]
      BY <3>4
    <3> QED
      BY <1>6, <2>0, <2>1, <2>4, <3>0, <3>2, <3>5
  <2> QED
    BY <2>3, <2>4
<1>8. Totals(F, s, w)
  <2>1. \A t \in SUBSET s : F[t] = IF t = {} THEN 0 ELSE w[Some(t)] + F[t \ {Some(t)}]
    <3>1. ASSUME NEW t \in SUBSET s, t # {}
          PROVE  F[t] = w[Some(t)] + F[t \ {Some(t)}]
      BY <1>6, <1>7, <3>1, Zenon
    <3> QED
      BY <1>6, <3>1
  <2>2. F = [t \in SUBSET s |-> F[t]]
    BY <1>4
  <2>3. F = [t \in SUBSET s |-> IF t = {} THEN 0 ELSE w[Some(t)] + F[t \ {Some(t)}]]
    BY <2>1, <2>2
  <2> QED
    BY <2>3 DEF Totals
<1> QED
  BY <1>8

(* What the rows of a table weigh together. *)
BytesOf(S) == MapThenSumSet(LAMBDA row : row.record.bytes, S)

(* That sum is such a function's. *)
LEMMA BytesTotal ==
    ASSUME NEW S, IsFiniteSet(S), NEW w, \A row \in S : w[row] = row.record.bytes
    PROVE  \E f : Totals(f, S, w) /\ BytesOf(S) = f[S]
<1> DEFINE It(f) == f = [s \in SUBSET S |->
                             IF s = {} THEN 0
                             ELSE LET x == CHOOSE x \in s : TRUE
                                  IN  x.record.bytes + f[s \ {x}]]
<1>1. BytesOf(S) = (CHOOSE f : It(f))[S]
  BY DEF BytesOf, MapThenSumSet, MapThenFoldSet
<1>2. ASSUME NEW f PROVE It(f) <=> Totals(f, S, w)
  <2>1. \A s \in SUBSET S :
           (IF s = {} THEN 0
            ELSE LET x == CHOOSE x \in s : TRUE IN x.record.bytes + f[s \ {x}])
             = (IF s = {} THEN 0 ELSE w[Some(s)] + f[s \ {Some(s)}])
    BY SomeIn DEF Some
  <2> QED
    BY <2>1 DEF Totals
<1>3. PICK f : Totals(f, S, w)
  BY TotalsExist
<1>4. It(CHOOSE h : It(h))
  <2> HIDE DEF It
  <2> QED
    BY <1>2, <1>3, Zenon
<1> QED
  BY <1>1, <1>2, <1>4

(* No rows weigh nothing. *)
LEMMA BytesEmpty == BytesOf({}) = 0
<1>1. PICK f : Totals(f, {}, [row \in {} |-> row.record.bytes]) /\ BytesOf({}) = f[{}]
  <2>1. IsFiniteSet({})
    BY FS_EmptySet
  <2> QED
    BY <2>1, BytesTotal
<1> QED
  BY <1>1, TotalsEmpty

(* One more row adds its bytes. *)
LEMMA BytesAdd ==
    ASSUME NEW S, IsFiniteSet(S), NEW new, new \notin S,
           \A row \in S \cup {new} : row.record.bytes \in Nat
    PROVE  BytesOf(S) \in Nat /\ BytesOf(S \cup {new}) = BytesOf(S) + new.record.bytes
<1>0. PICK T : T = S \cup {new}
  OBVIOUS
<1>1. PICK w : w = [row \in T |-> row.record.bytes]
  OBVIOUS
<1>2. IsFiniteSet(T) /\ S \subseteq T /\ T \ {new} = S /\ new \in T
  BY <1>0, FS_AddElement
<1>3. \A row \in T : w[row] = row.record.bytes /\ w[row] \in Nat
  BY <1>0, <1>1
<1>4. PICK f : Totals(f, S, w) /\ BytesOf(S) = f[S]
  BY <1>2, <1>3, BytesTotal
<1>5. PICK g : Totals(g, T, w) /\ BytesOf(T) = g[T]
  BY <1>2, <1>3, BytesTotal
<1>6. g[T] = w[new] + g[S]
  <2>1. T \in SUBSET T
    OBVIOUS
  <2> QED
    BY <1>2, <1>3, <1>5, <2>1, TotalsSplit
<1>7. f[S] = g[S] /\ f[S] \in Nat
  <2>1. S \in SUBSET S
    OBVIOUS
  <2>2. \A row \in S : w[row] = w[row] /\ w[row] \in Nat
    BY <1>2, <1>3
  <2>3. \A s \in SUBSET S : f[s] = g[s]
    BY <1>2, <1>4, <1>5, <2>2, TotalsAgree
  <2>4. \A s \in SUBSET S : f[s] \in Nat
    BY <1>4, <2>2, TotalsNat
  <2> QED
    BY <2>1, <2>3, <2>4
<1> QED
  BY <1>0, <1>2, <1>3, <1>4, <1>5, <1>6, <1>7

(* The same for a set of records, as the exchange counts them. *)
LEMMA SizeTotal ==
    ASSUME NEW S, IsFiniteSet(S), NEW w, \A r \in S : w[r] = r.bytes
    PROVE  \E f : Totals(f, S, w) /\ SumOfBytes(S) = f[S]
<1> DEFINE It(f) == f = [s \in SUBSET S |->
                             IF s = {} THEN 0
                             ELSE LET x == CHOOSE x \in s : TRUE
                                  IN  x.bytes + f[s \ {x}]]
<1>1. SumOfBytes(S) = (CHOOSE f : It(f))[S]
  BY DEF SumOfBytes, MapThenSumSet, MapThenFoldSet
<1>2. ASSUME NEW f PROVE It(f) <=> Totals(f, S, w)
  <2>1. \A s \in SUBSET S :
           (IF s = {} THEN 0
            ELSE LET x == CHOOSE x \in s : TRUE IN x.bytes + f[s \ {x}])
             = (IF s = {} THEN 0 ELSE w[Some(s)] + f[s \ {Some(s)}])
    BY SomeIn DEF Some
  <2> QED
    BY <2>1 DEF Totals
<1>3. PICK f : Totals(f, S, w)
  BY TotalsExist
<1>4. It(CHOOSE h : It(h))
  <2> HIDE DEF It
  <2> QED
    BY <1>2, <1>3, Zenon
<1> QED
  BY <1>1, <1>2, <1>4

(* No records weigh nothing. *)
LEMMA SizeEmpty == SumOfBytes({}) = 0
<1>1. PICK f : Totals(f, {}, [r \in {} |-> r.bytes]) /\ SumOfBytes({}) = f[{}]
  <2>1. IsFiniteSet({})
    BY FS_EmptySet
  <2> QED
    BY <2>1, SizeTotal
<1> QED
  BY <1>1, TotalsEmpty

(* One more record adds its bytes. *)
LEMMA SizeAdd ==
    ASSUME NEW S, IsFiniteSet(S), NEW new, new \notin S,
           \A r \in S \cup {new} : r.bytes \in Nat
    PROVE  SumOfBytes(S) \in Nat /\ SumOfBytes(S \cup {new}) = SumOfBytes(S) + new.bytes
<1>0. PICK T : T = S \cup {new}
  OBVIOUS
<1>1. PICK w : w = [r \in T |-> r.bytes]
  OBVIOUS
<1>2. IsFiniteSet(T) /\ S \subseteq T /\ T \ {new} = S /\ new \in T
  BY <1>0, FS_AddElement
<1>3. \A r \in T : w[r] = r.bytes /\ w[r] \in Nat
  BY <1>0, <1>1
<1>4. PICK f : Totals(f, S, w) /\ SumOfBytes(S) = f[S]
  BY <1>2, <1>3, SizeTotal
<1>5. PICK g : Totals(g, T, w) /\ SumOfBytes(T) = g[T]
  BY <1>2, <1>3, SizeTotal
<1>6. g[T] = w[new] + g[S]
  <2>1. T \in SUBSET T
    OBVIOUS
  <2> QED
    BY <1>2, <1>3, <1>5, <2>1, TotalsSplit
<1>7. f[S] = g[S] /\ f[S] \in Nat
  <2>1. S \in SUBSET S
    OBVIOUS
  <2>2. \A r \in S : w[r] = w[r] /\ w[r] \in Nat
    BY <1>2, <1>3
  <2>3. \A s \in SUBSET S : f[s] = g[s]
    BY <1>2, <1>4, <1>5, <2>2, TotalsAgree
  <2>4. \A s \in SUBSET S : f[s] \in Nat
    BY <1>4, <2>2, TotalsNat
  <2> QED
    BY <2>1, <2>3, <2>4
<1> QED
  BY <1>0, <1>2, <1>3, <1>4, <1>5, <1>6, <1>7

-----------------------------------------------------------------------------
(* Verified records and their links. *)

(* A key certifies one identifier and an identifier one key. *)
LEMMA SameKey ==
    ASSUME NEW x, NEW y, Verified(x), Verified(y),
           x.authority.key_id = y.authority.key_id
    PROVE  SameAuthority(x.authority, y.authority)
BY DEF Verified, ValidCore, ValidCommon, SelfCertifying, KeyId, SameAuthority

(* Every record below the request names a parent. *)
LEMMA HasParent ==
    ASSUME NEW x, Verified(x), x.schema \notin RootSchemas
    PROVE  x.parent # NoRecord
<1>1. x.schema \in Schemas
  BY DEF Verified, ValidCore
<1>2. CASE x.schema = "payment_request"
  BY <1>2 DEF Verified, ValidCore, ValidPaymentRequest
<1>3. CASE x.schema = "payment_intent"
  BY <1>3 DEF Verified, ValidCore, ValidPaymentIntent, Targeted
<1>4. CASE x.schema = "execution_commitment"
  BY <1>4 DEF Verified, ValidCore, ValidExecutionCommitment, Targeted
<1>5. CASE x.schema = "submission_receipt"
  BY <1>5 DEF Verified, ValidCore, ValidSubmissionReceipt, Targeted
<1>6. CASE x.schema = "settlement_receipt"
  BY <1>6 DEF Verified, ValidCore, ValidSettlementReceipt, Targeted
<1> QED BY <1>1, <1>2, <1>3, <1>4, <1>5, <1>6 DEF Schemas, LeafSchemas, RootSchemas

(* A stored record below a root has its stored, verified parent. *)
LEMMA Parent ==
    ASSUME NEW table, AllVerified(table), EdgesHold(table),
           NEW x \in Stored(table), x.schema \notin RootSchemas
    PROVE  /\ x.parent \in Stored(table)
           /\ Verified(x.parent)
           /\ Linked(x, x.parent)
BY HasParent DEF AllVerified, EdgesHold

(* Six linked records of one table agree from end to end. *)
LEMMA ChainAgrees ==
    ASSUME NEW d, NEW r, NEW i, NEW c, NEW s, NEW t,
           \A x \in {d, r, i, c, s, t} : Verified(x),
           RequestLink(r, d), IntentLink(i, r), CommitmentLink(c, i),
           SubmissionLink(s, c), SettlementLink(t, s)
    PROVE  ChainAuthorities(d, r, i, c, s, t) /\ ChainTerms(r, i, c)
<1>1. SameAuthority(r.authority, d.authority)
  BY DEF RequestLink
<1>2. SameAuthority(c.authority, i.authority) /\ SameAuthority(s.authority, i.authority)
  BY DEF CommitmentLink, SubmissionLink, SameAuthority
<1>3. i.audience = d.authority.key_id
  BY DEF RequestLink, IntentLink, SameAuthority
<1>4. c.audience = d.authority.key_id /\ s.audience = d.authority.key_id
  BY <1>3 DEF CommitmentLink, SubmissionLink
<1>5. SameAuthority(t.authority, d.authority)
  BY <1>4, SameKey DEF SettlementLink
<1>6. t.audience = i.authority.key_id
  BY <1>2 DEF SettlementLink, SameAuthority
<1>7. r.audience \in {Public, i.authority.key_id}
  BY DEF IntentLink
<1>8. ChainTerms(r, i, c)
  BY DEF IntentLink, CommitmentLink, ChainTerms, SameTerms, SameSpending
<1> QED BY <1>1, <1>2, <1>3, <1>4, <1>5, <1>6, <1>7, <1>8 DEF ChainAuthorities

(* A sound table holds only chains that verify. *)
LEMMA SoundChains ==
    ASSUME NEW table, NEW used, Sound(table, used)
    PROVE  ChainsIn(table)
<1> SUFFICES ASSUME NEW t \in Stored(table), t.schema = "settlement_receipt"
             PROVE  ChainVerifies(t)
  BY DEF ChainsIn
<1> DEFINE s == t.parent
           c == s.parent
           i == c.parent
           r == i.parent
           d == r.parent
<1>0. AllVerified(table) /\ EdgesHold(table) /\ NoncesDistinct(Stored(table))
  BY DEF Sound
<1>1. s \in Stored(table) /\ Verified(s) /\ Linked(t, s)
  BY <1>0, Parent DEF RootSchemas
<1>2. SettlementLink(t, s) /\ s.schema = "submission_receipt"
  BY <1>1 DEF Linked, SettlementLink
<1>3. c \in Stored(table) /\ Verified(c) /\ Linked(s, c)
  BY <1>0, <1>1, <1>2, Parent DEF RootSchemas
<1>4. SubmissionLink(s, c) /\ c.schema = "execution_commitment"
  BY <1>2, <1>3 DEF Linked, SubmissionLink
<1>5. i \in Stored(table) /\ Verified(i) /\ Linked(c, i)
  BY <1>0, <1>3, <1>4, Parent DEF RootSchemas
<1>6. CommitmentLink(c, i) /\ i.schema = "payment_intent"
  BY <1>4, <1>5 DEF Linked, CommitmentLink
<1>7. r \in Stored(table) /\ Verified(r) /\ Linked(i, r)
  BY <1>0, <1>5, <1>6, Parent DEF RootSchemas
<1>8. IntentLink(i, r) /\ r.schema = "payment_request"
  BY <1>6, <1>7 DEF Linked, IntentLink
<1>9. d \in Stored(table) /\ Verified(d) /\ Linked(r, d)
  BY <1>0, <1>7, <1>8, Parent DEF RootSchemas
<1>10. RequestLink(r, d) /\ d.schema = "node_descriptor" /\ "merchant" \in d.roles
  BY <1>8, <1>9 DEF Linked, RequestLink
<1>11. Verified(t)
  BY <1>0 DEF AllVerified
<1>12. ChainAuthorities(d, r, i, c, s, t) /\ ChainTerms(r, i, c)
  BY <1>1, <1>2, <1>3, <1>4, <1>5, <1>6, <1>7, <1>8, <1>9, <1>10, <1>11, ChainAgrees
<1>13. NoncesDistinct({d, r, i, c, s, t})
  <2>1. {d, r, i, c, s, t} \subseteq Stored(table)
    BY <1>1, <1>3, <1>5, <1>7, <1>9
  <2> HIDE DEF d, r, i, c, s
  <2> QED
    BY <1>0, <2>1 DEF NoncesDistinct
<1>14. VerifiedChain(d, r, i, c, s, t)
  BY <1>1, <1>2, <1>3, <1>4, <1>5, <1>6, <1>7, <1>8, <1>9, <1>10, <1>11,
     <1>12, <1>13 DEF VerifiedChain
<1> QED BY <1>14 DEF ChainVerifies

(* What a peer may fetch it may fetch with its ancestry. *)
LEMMA SoundPublic ==
    ASSUME NEW table, NEW used, Sound(table, used)
    PROVE  PublicAncestryIn(table)
<1> SUFFICES ASSUME NEW row \in PublicRows(table), row.record.parent # NoRecord
             PROVE  \E p \in PublicRows(table) : p.record = row.record.parent
  BY DEF PublicAncestryIn
<1>1. row.record \in Stored(table) /\ row.record.disclosure = "public"
  BY DEF PublicRows, Stored
<1>2. row.record.parent \in Stored(table) /\ Linked(row.record, row.record.parent)
  BY <1>1 DEF Sound, EdgesHold
<1>3. row.record.parent.disclosure = "public"
  BY <1>1, <1>2 DEF Linked
<1> QED BY <1>2, <1>3 DEF Stored, PublicRows

(* Only a commitment can be the child of an intent. *)
LEMMA IntentChildren ==
    ASSUME NEW x, NEW y, Verified(y), Linked(y, x), x.schema = "payment_intent"
    PROVE  y.schema = "execution_commitment"
<1>1. y.schema \in Schemas
  BY DEF Verified, ValidCore
<1> QED
  BY <1>1 DEF Linked, Schemas, LeafSchemas, RootSchemas, RequestLink, IntentLink,
              SubmissionLink, SettlementLink

(* A lookup below an intent meets one row at most. *)
LEMMA SoundLookups ==
    ASSUME NEW table, NEW used, Sound(table, used), NoRecord \notin Stored(table)
    PROVE  LookupsIn(table)
<1> SUFFICES ASSUME NEW x \in table, x.record.schema = "payment_intent",
                    NEW y \in ChildRows(table, x.record),
                    NEW z \in ChildRows(table, x.record)
             PROVE  y = z
  BY DEF LookupsIn
<1>1. x.record # NoRecord
  BY DEF Stored
<1>2. /\ y \in table /\ y.record.parent = x.record /\ y.record \in Stored(table)
      /\ z \in table /\ z.record.parent = x.record /\ z.record \in Stored(table)
  BY DEF ChildRows, Stored
<1>3. /\ Verified(y.record) /\ Linked(y.record, x.record)
      /\ Verified(z.record) /\ Linked(z.record, x.record)
  BY <1>1, <1>2 DEF Sound, AllVerified, EdgesHold
<1>4. y.record.schema = "execution_commitment" /\ z.record.schema = "execution_commitment"
  BY <1>3, IntentChildren
<1>5. SuccessorsIn(table)
  BY DEF Sound
<1> QED BY <1>1, <1>2, <1>4, <1>5 DEF SuccessorsIn, LeafSchemas

-----------------------------------------------------------------------------
(* One append. *)

(* What a refusal of "none" says. *)
LEMMA NotRefused ==
    ASSUME NEW table, NEW used, NEW e, Refusal(table, used, e) = "none"
    PROVE  /\ ~NonceTaken(table, e.record)
           /\ ~ParentMissing(table, e.record)
           /\ ~BrokenLink(e.record)
           /\ ~Rival(table, e.record)
           /\ ~OverBudget(used, e)
BY DEF Refusal

(* Insert() stores the record of its entry and no other. *)
LEMMA StoredInsert ==
    ASSUME NEW table, NEW e
    PROVE  Stored(Insert(table, e)) = Stored(table) \cup {e.record}
<1> DEFINE row == [record |-> e.record, source |-> e.source, rank |-> Rank(table, e.record)]
<1>1. row.record = e.record /\ Insert(table, e) = table \cup {row}
  BY DEF Insert
<1>2. ASSUME NEW x \in Stored(Insert(table, e))
      PROVE  x \in Stored(table) \cup {e.record}
  BY <1>1 DEF Stored
<1>3. ASSUME NEW x \in Stored(table) \cup {e.record}
      PROVE  x \in Stored(Insert(table, e))
  <2>1. row \in Insert(table, e)
    BY <1>1
  <2> HIDE DEF row
  <2> QED BY <1>1, <2>1 DEF Stored
<1> QED BY <1>2, <1>3

(* The counters follow the rows. *)
LEMMA InsertCounted ==
    ASSUME NEW table, NEW used, NEW e, e \in Entries,
           Counted(table, used), ~Redelivered(table, e), ~OverBudget(used, e),
           used \in [count : Nat, bytes : Nat]
    PROVE  /\ Counted(Insert(table, e), Charge(used, e))
           /\ Charge(used, e) \in [count : Nat, bytes : Nat]
<1> PICK row : row = [record |-> e.record, source |-> e.source, rank |-> Rank(table, e.record)]
  OBVIOUS
<1> PICK remote : remote = RemoteRows(table)
  OBVIOUS
<1>1. e.source \in {"local", "remote"} /\ e.record.bytes \in Nat
      /\ MaxRemoteCount \in Nat /\ MaxRemoteBytes \in Nat
  BY StoreAssumption
<1>2. row \notin table /\ row.record = e.record /\ row.source = e.source
  BY DEF Redelivered, Stored
<1>3. Insert(table, e) = table \cup {row}
  BY DEF Insert
<1>4. IsFiniteSet(Insert(table, e)) /\ IsFiniteSet(remote) /\ remote \subseteq table
  BY <1>3, FS_AddElement, FS_Subset DEF Counted, RemoteRows
<1>5. \A x \in Insert(table, e) : x.record.bytes \in Nat
  BY <1>1, <1>2, <1>3 DEF Counted
<1>6. used.count = Cardinality(remote) /\ used.bytes = BytesOf(remote)
  BY DEF Counted, CountExact, BytesExact, BytesOf
<1>7. CASE e.source = "remote"
  <2>1. RemoteRows(Insert(table, e)) = remote \cup {row} /\ row \notin remote
    BY <1>2, <1>3, <1>4, <1>7 DEF RemoteRows
  <2>2. Cardinality(remote \cup {row}) = Cardinality(remote) + 1
    BY <1>4, <2>1, FS_AddElement
  <2>3. BytesOf(remote \cup {row}) = BytesOf(remote) + e.record.bytes
    <3>1. \A x \in remote \cup {row} : x.record.bytes \in Nat
      BY <1>3, <1>4, <1>5
    <3> QED
      BY <1>2, <1>4, <2>1, <3>1, BytesAdd
  <2>4. PICK charged : charged = Charge(used, e)
    OBVIOUS
  <2>5. /\ charged.count = used.count + 1 /\ charged.bytes = used.bytes + e.record.bytes
        /\ charged \in [count : Nat, bytes : Nat]
    BY <1>1, <1>7, <2>4 DEF Charge
  <2>6. charged.count <= MaxRemoteCount /\ charged.bytes <= MaxRemoteBytes
    BY <1>1, <1>7, <2>5 DEF OverBudget
  <2>7. CountExact(Insert(table, e), charged)
    BY <1>6, <2>1, <2>2, <2>5 DEF CountExact
  <2>8. BytesExact(Insert(table, e), charged)
    <3>1. charged.bytes = BytesOf(RemoteRows(Insert(table, e)))
      BY <1>6, <2>1, <2>3, <2>5
    <3> QED
      BY <3>1 DEF BytesExact, BytesOf
  <2> QED
    BY <1>4, <1>5, <2>4, <2>5, <2>6, <2>7, <2>8 DEF Counted
<1>8. CASE e.source = "local"
  <2>1. RemoteRows(Insert(table, e)) = RemoteRows(table)
    BY <1>2, <1>3, <1>8 DEF RemoteRows
  <2>2. Charge(used, e) = used
    BY <1>8 DEF Charge
  <2>3. CountExact(Insert(table, e), used) /\ BytesExact(Insert(table, e), used)
    BY <2>1 DEF Counted, CountExact, BytesExact
  <2> QED
    BY <1>4, <1>5, <2>2, <2>3 DEF Counted
<1> QED
  BY <1>1, <1>7, <1>8

(* An admitted record leaves the table sound. *)
LEMMA InsertSound ==
    ASSUME NEW table, NEW used, NEW e, e \in Entries, Sound(table, used),
           Verified(e.record), ~Redelivered(table, e),
           Refusal(table, used, e) = "none",
           used \in [count : Nat, bytes : Nat]
    PROVE  /\ Sound(Insert(table, e), Charge(used, e))
           /\ Charge(used, e) \in [count : Nat, bytes : Nat]
<1> DEFINE next == Insert(table, e)
           r == e.record
           row == [record |-> e.record, source |-> e.source, rank |-> Rank(table, e.record)]
<1>1. Stored(next) = Stored(table) \cup {r}
  BY StoredInsert
<1>2. /\ ~NonceTaken(table, r) /\ ~ParentMissing(table, r) /\ ~BrokenLink(r)
      /\ ~Rival(table, r) /\ ~OverBudget(used, e)
  BY NotRefused
<1>3. AllVerified(next)
  BY <1>1 DEF Sound, AllVerified
<1>4. EdgesHold(next)
  BY <1>1, <1>2 DEF Sound, EdgesHold, ParentMissing, BrokenLink
<1>5. RowsUnique(next)
  <2>1. \A x \in table : x.record # row.record
    BY DEF Redelivered, Stored
  <2> QED BY <2>1 DEF Sound, RowsUnique, Insert
<1>6. NoncesDistinct(Stored(next))
  BY <1>1, <1>2 DEF Sound, NoncesDistinct, NonceTaken
<1>7. SuccessorsIn(next)
  <2>1. SuccessorsIn(table)
    BY DEF Sound
  <2>2. next = table \cup {row}
    BY DEF Insert
  <2>3. \A x \in table :
          /\ x.record.parent = r.parent
          /\ r.parent # NoRecord
          /\ x.record.schema = r.schema
          => /\ r.schema \notin LeafSchemas
             /\ \/ r.schema # "payment_intent"
                \/ x.record.authority.key_id # r.authority.key_id
    <3>1. \A x \in table : x.record \in Stored(table)
      BY DEF Stored
    <3> QED BY <1>2, <3>1 DEF Rival
  <2>4. row.record = r
    OBVIOUS
  <2>5. SUFFICES ASSUME NEW x \in next, NEW y \in next,
                        x.record.parent = y.record.parent,
                        x.record.parent # NoRecord,
                        x.record.schema = y.record.schema,
                        \/ x.record.schema \in LeafSchemas
                        \/ /\ x.record.schema = "payment_intent"
                           /\ x.record.authority.key_id = y.record.authority.key_id
                 PROVE  x = y
    BY DEF SuccessorsIn
  <2>6. CASE x \in table /\ y \in table
    BY <2>1, <2>5, <2>6 DEF SuccessorsIn
  <2>7. CASE x \in table /\ y = row
    BY <2>3, <2>4, <2>5, <2>7
  <2>8. CASE x = row /\ y \in table
    BY <2>3, <2>4, <2>5, <2>8
  <2> QED BY <2>2, <2>6, <2>7, <2>8
<1>8. /\ Counted(next, Charge(used, e))
      /\ Charge(used, e) \in [count : Nat, bytes : Nat]
  BY <1>2, InsertCounted DEF Sound
<1> QED BY <1>3, <1>4, <1>5, <1>6, <1>7, <1>8 DEF Sound

-----------------------------------------------------------------------------
(* The invariant. *)

(* A store with no row is sound under any budget. *)
LEMMA EmptySound == Sound({}, [count |-> 0, bytes |-> 0])
<1>1. IsFiniteSet({}) /\ Cardinality({}) = 0
  BY FS_EmptySet
<1>2. Stored({}) = {} /\ RemoteRows({}) = {}
  BY DEF Stored, RemoteRows
<1>3. Counted({}, [count |-> 0, bytes |-> 0])
  <2> DEFINE zero == [count |-> 0, bytes |-> 0]
  <2>1. zero.count = 0 /\ zero.bytes = 0
    OBVIOUS
  <2>2. 0 <= MaxRemoteCount /\ 0 <= MaxRemoteBytes
    BY StoreAssumption
  <2>3. CountExact({}, zero)
    BY <1>1, <1>2, <2>1 DEF CountExact
  <2>4. BytesExact({}, zero)
    BY <1>2, <2>1, BytesEmpty DEF BytesExact, BytesOf
  <2>5. Counted({}, zero)
    <3> HIDE DEF zero
    <3> QED BY <1>1, <2>1, <2>2, <2>3, <2>4 DEF Counted
  <2> QED BY <2>5
<1> QED
  BY <1>2, <1>3 DEF Sound, AllVerified, EdgesHold, RowsUnique, NoncesDistinct, SuccessorsIn

(* The store opens empty. *)
LEMMA InitInv == Init => IInv
<1> SUFFICES ASSUME Init PROVE IInv
  OBVIOUS
<1>1. TypeOK
  BY StoreAssumption DEF Init, TypeOK, NoCall, Codes, Tables
<1>2. Sound(rows, usage) /\ Sound(draft.rows, draft.usage)
  BY EmptySound DEF Init
<1>3. CallsVerified
  BY DEF Init, CallsVerified, NoCall
<1> QED BY <1>1, <1>2, <1>3 DEF IInv

(* The first of the entries left, and the rest. *)
LEMMA HeadEntry ==
    ASSUME TypeOK, CallsVerified, NEW h \in Handles, Writing(h)
    PROVE  /\ Head(call[h].todo) \in Entries
           /\ Verified(Head(call[h].todo).record)
           /\ Advanced(h) \in [phase : {"idle", "ready", "writing"}, entries : Seq(Entries),
                               todo : Seq(Entries), answer : Codes]
           /\ \A i \in DOMAIN Advanced(h).todo : Verified(Advanced(h).todo[i].record)
<1> DEFINE todo == call[h].todo
<1>1. todo \in Seq(Entries) /\ todo # <<>> /\ call[h].entries \in Seq(Entries)
  BY DEF TypeOK, Writing
<1>2. Head(todo) = todo[1] /\ 1 \in DOMAIN todo /\ Head(todo) \in Entries
  BY <1>1
<1>3. Tail(todo) \in Seq(Entries) /\ \A i \in DOMAIN Tail(todo) :
          i + 1 \in DOMAIN todo /\ Tail(todo)[i] = todo[i + 1]
  BY <1>1
<1>4. \A i \in DOMAIN todo : Verified(todo[i].record)
  BY DEF CallsVerified
<1> QED BY <1>1, <1>2, <1>3, <1>4 DEF Advanced, Codes

(* A step that leaves the tables as they are, or rolls the draft back. *)
LEMMA QuietStep ==
    ASSUME IInv, TypeOK', CallsVerified', rows' = rows, usage' = usage,
           \/ draft' = draft
           \/ draft' = [rows |-> rows, usage |-> usage]
    PROVE  IInv'
<1>1. Sound(rows, usage)'
  BY DEF IInv
<1>2. Sound(draft.rows, draft.usage)'
  <2>1. CASE draft' = draft
    BY <2>1 DEF IInv
  <2>2. CASE draft' = [rows |-> rows, usage |-> usage]
    <3>1. draft'.rows = rows /\ draft'.usage = usage
      BY <2>2
    <3> QED BY <3>1 DEF IInv
  <2> QED BY <2>1, <2>2
<1> QED BY <1>1, <1>2 DEF IInv

(* A call that ends or begins another phase with verified entries. *)
LEMMA CallStep ==
    ASSUME IInv, NEW h \in Handles, NEW c, call' = [call EXCEPT ![h] = c],
           \A i \in DOMAIN c.todo : Verified(c.todo[i].record)
    PROVE  CallsVerified'
BY DEF IInv, TypeOK, CallsVerified

(* A handle without a call has nothing unverified to append. *)
LEMMA CallEnds ==
    ASSUME IInv, NEW h \in Handles, NEW a, call' = [call EXCEPT ![h] = NoCall(a)]
    PROVE  CallsVerified'
<1>1. \A i \in DOMAIN NoCall(a).todo : Verified(NoCall(a).todo[i].record)
  <2>1. NoCall(a).todo = <<>>
    BY DEF NoCall
  <2>2. DOMAIN NoCall(a).todo = {}
    BY <2>1
  <2> QED BY <2>2
<1> HIDE DEF NoCall
<1> QED BY <1>1, CallStep

(* Every step of the store keeps the invariant. *)
LEMMA NextInv == IInv /\ [Next]_vars => IInv'
<1> SUFFICES ASSUME IInv, [Next]_vars PROVE IInv'
  OBVIOUS
<1>0. TypeOK /\ CallsVerified
  BY DEF IInv
<1> USE StoreAssumption
<1>1. ASSUME NEW h \in Handles, NEW b \in Offers[h], Submit(h, b)
      PROVE  IInv'
  <2>1. b \in Batches /\ b \in Seq(Entries)
    BY <1>1 DEF Batches
  <2> DEFINE ready == [phase |-> "ready", entries |-> b, todo |-> b, answer |-> "none"]
  <2>2. CASE \A i \in DOMAIN b : Verified(b[i].record)
    <3>1. call' = [call EXCEPT ![h] = ready] /\ UNCHANGED <<rows, usage, draft, writer>>
      BY <1>1, <2>2 DEF Submit
    <3>2. TypeOK'
      BY <1>0, <1>1, <2>1, <3>1 DEF TypeOK, Submit, Codes
    <3>3. CallsVerified'
      BY <2>2, <3>1, CallStep
    <3> QED BY <3>1, <3>2, <3>3, QuietStep
  <2>3. CASE ~ \A i \in DOMAIN b : Verified(b[i].record)
    <3>1. call' = [call EXCEPT ![h] = NoCall("INVALID")]
          /\ UNCHANGED <<rows, usage, draft, writer>>
      BY <1>1, <2>3 DEF Submit
    <3>2. TypeOK'
      BY <1>0, <1>1, <3>1 DEF TypeOK, Submit, Codes, NoCall
    <3>3. CallsVerified'
      BY <3>1, CallEnds
    <3> QED BY <3>1, <3>2, <3>3, QuietStep
  <2> QED BY <2>2, <2>3
<1>2. ASSUME NEW h \in Handles, Begin(h) PROVE IInv'
  <2> DEFINE c == [phase |-> "writing", entries |-> call[h].entries,
                   todo |-> call[h].todo, answer |-> "none"]
  <2>1. call' = [call EXCEPT ![h] = c]
    BY <1>0, <1>2 DEF Begin, TypeOK
  <2>2. TypeOK'
    BY <1>0, <1>2, <2>1 DEF TypeOK, Begin, Codes
  <2>3. CallsVerified'
    <3>1. \A i \in DOMAIN c.todo : Verified(c.todo[i].record)
      BY <1>0 DEF CallsVerified
    <3> QED BY <2>1, <3>1, CallStep
  <2> QED BY <1>2, <2>2, <2>3, QuietStep DEF Begin
<1>3. ASSUME NEW h \in Handles, Busy(h) PROVE IInv'
  <2>1. TypeOK'
    BY <1>0, <1>3 DEF TypeOK, Busy, NoCall, Codes
  <2>2. CallsVerified'
    BY <1>3, CallEnds DEF Busy
  <2> QED BY <1>3, <2>1, <2>2, QuietStep DEF Busy
<1>4. ASSUME NEW h \in Handles, Replay(h) PROVE IInv'
  <2>0. Writing(h) /\ call' = [call EXCEPT ![h] = Advanced(h)]
        /\ UNCHANGED <<rows, usage, draft, writer>>
    BY <1>4 DEF Replay
  <2>1. TypeOK'
    BY <1>0, <2>0, HeadEntry DEF TypeOK, Writing, Advanced
  <2>2. CallsVerified'
    BY <1>0, <2>0, HeadEntry, CallStep
  <2> QED BY <2>0, <2>1, <2>2, QuietStep
<1>5. ASSUME NEW h \in Handles, Admit(h) PROVE IInv'
  <2> DEFINE e == Head(call[h].todo)
             table == Insert(draft.rows, e)
             used == Charge(draft.usage, e)
  <2>0. /\ Writing(h) /\ call' = [call EXCEPT ![h] = Advanced(h)]
        /\ UNCHANGED <<rows, usage, writer>>
        /\ draft' = [rows |-> table, usage |-> used]
        /\ ~Redelivered(draft.rows, e)
        /\ Refusal(draft.rows, draft.usage, e) = "none"
    BY <1>5 DEF Admit
  <2>1. e \in Entries /\ Verified(e.record) /\ CallsVerified'
    BY <1>0, <2>0, HeadEntry, CallStep
  <2>2. Sound(table, used) /\ used \in [count : Nat, bytes : Nat]
    <3>1. Sound(draft.rows, draft.usage) /\ draft.usage \in [count : Nat, bytes : Nat]
      BY <1>0 DEF IInv, TypeOK
    <3> QED BY <2>0, <2>1, <3>1, InsertSound
  <2>3. table \in Tables
    <3>1. Rank(draft.rows, e.record) \in Nat
      <4>1. IsFiniteSet(draft.rows)
        BY DEF IInv, Sound, Counted
      <4>2. Cardinality({row \in draft.rows : row.record.schema = "node_descriptor"}) \in Nat
        BY <4>1, FS_Subset, FS_CardinalityType
      <4> QED BY <4>2 DEF Rank
    <3>2. draft.rows \in Tables
      BY <1>0 DEF TypeOK
    <3>3. e.record \in {x.record : x \in Entries} /\ e.source \in Sources
      BY <2>1 DEF Sources
    <3> QED BY <3>1, <3>2, <3>3 DEF Tables, Insert
  <2>4. draft'.rows = table /\ draft'.usage = used
    BY <2>0
  <2>5. TypeOK'
    <3>1. draft' \in [rows : Tables, usage : [count : Nat, bytes : Nat]]
      BY <2>0, <2>2, <2>3
    <3>2. call' \in [Handles -> [phase : {"idle", "ready", "writing"},
                                 entries : Seq(Entries), todo : Seq(Entries),
                                 answer : Codes]]
      BY <1>0, <2>0, HeadEntry DEF TypeOK
    <3>3. \A k \in Handles : call'[k].phase = call[k].phase
      BY <1>0, <2>0 DEF TypeOK, Writing, Advanced
    <3>4. writer # NoHandle
      BY <1>0, <2>0 DEF TypeOK, Writing
    <3> QED BY <1>0, <2>0, <3>1, <3>2, <3>3, <3>4 DEF TypeOK
  <2>6. Sound(draft.rows, draft.usage)'
    BY <2>2, <2>4
  <2>7. Sound(rows, usage)'
    BY <2>0 DEF IInv
  <2> QED BY <2>1, <2>5, <2>6, <2>7 DEF IInv
<1>6. ASSUME NEW h \in Handles, Refuse(h) PROVE IInv'
  <2>0. PICK code : /\ code = Refusal(draft.rows, draft.usage, Head(call[h].todo))
                    /\ call' = [call EXCEPT ![h] = NoCall(code)]
    BY <1>6 DEF Refuse
  <2>1. code \in Codes
    BY <2>0 DEF Refusal, Codes
  <2>2. TypeOK'
    BY <1>0, <1>6, <2>0, <2>1 DEF TypeOK, Refuse, Writing, NoCall
  <2>3. CallsVerified'
    BY <2>0, CallEnds
  <2> QED BY <1>6, <2>2, <2>3, QuietStep DEF Refuse
<1>7. ASSUME NEW h \in Handles, Commit(h) PROVE IInv'
  <2>1. TypeOK'
    <3>1. draft' = [rows |-> rows', usage |-> usage']
      BY <1>0, <1>7 DEF Commit, TypeOK
    <3> QED BY <1>0, <1>7, <3>1 DEF TypeOK, Commit, NoCall, Codes
  <2>2. CallsVerified'
    BY <1>7, CallEnds DEF Commit
  <2>3. Sound(rows, usage)' /\ Sound(draft.rows, draft.usage)'
    BY <1>7 DEF Commit, IInv
  <2> QED BY <2>1, <2>2, <2>3 DEF IInv
<1>8. ASSUME NEW h \in Handles, Crash(h) PROVE IInv'
  <2>1. TypeOK'
    BY <1>0, <1>8 DEF TypeOK, Crash, NoCall, Codes
  <2>2. CallsVerified'
    BY <1>8, CallEnds DEF Crash
  <2>3. draft' = draft \/ draft' = [rows |-> rows, usage |-> usage]
    BY <1>8 DEF Crash
  <2> QED BY <1>8, <2>1, <2>2, <2>3, QuietStep DEF Crash
<1>9. CASE UNCHANGED vars
  <2>1. TypeOK' /\ CallsVerified'
    BY <1>0, <1>9 DEF vars, TypeOK, CallsVerified
  <2> QED BY <1>9, <2>1, QuietStep DEF vars
<1> QED
  BY <1>1, <1>2, <1>3, <1>4, <1>5, <1>6, <1>7, <1>8, <1>9 DEF Next

(* Every table and every open transaction of the store is sound. *)
THEOREM Invariance == Spec => []IInv
BY InitInv, NextInv, PTL DEF Spec

(* Every variable keeps its shape, and a transaction has one owner. *)
THEOREM TypeCorrect == Spec => []TypeOK
<1>1. IInv => TypeOK
  BY DEF IInv
<1> QED BY <1>1, Invariance, PTL

(* Every stored record has its parent stored and linked to it, an admitted  *)
(* settlement ends a chain the whole-chain verifier accepts, and public     *)
(* records have public ancestry, whatever the wires and handles.            *)
THEOREM AncestryAlwaysHolds == Spec => []AncestryHolds
<1>1. IInv => AncestryHolds
  <2> SUFFICES ASSUME IInv PROVE AncestryHolds
    OBVIOUS
  <2>1. Sound(rows, usage)
    BY DEF IInv
  <2>2. EdgesHold(rows)
    BY <2>1 DEF Sound
  <2>3. ChainsIn(rows) /\ PublicAncestryIn(rows)
    BY <2>1, SoundChains, SoundPublic
  <2> QED BY <2>2, <2>3 DEF AncestryHolds
<1> QED BY <1>1, Invariance, PTL

(* One intent per request and payer, one successor per later record, no   *)
(* lookup that meets two rows, and no two records of one issuer under one *)
(* nonce, whichever handle appended.                                      *)
THEOREM RivalsAreRefused == Spec => []NoRivals
<1>1. IInv => NoRivals
  <2> SUFFICES ASSUME IInv PROVE NoRivals
    OBVIOUS
  <2>1. NoRecord \notin Stored(rows)
    <3>1. rows \in Tables
      BY DEF IInv, TypeOK
    <3>2. \A row \in rows : \E e \in Entries : row.record = e.record
      BY <3>1 DEF Tables
    <3> QED BY <3>2, StoreAssumption DEF Stored
  <2>2. Sound(rows, usage)
    BY DEF IInv
  <2>3. SuccessorsIn(rows) /\ NoncesDistinct(Stored(rows))
    BY <2>2 DEF Sound
  <2>4. LookupsIn(rows)
    BY <2>1, <2>2, SoundLookups
  <2> QED BY <2>3, <2>4 DEF NoRivals
<1> QED BY <1>1, Invariance, PTL

(* record-store.ts: whatever is redelivered, refused, rolled back or killed *)
(* between two writers, the budget row says exactly how many remote records *)
(* the table holds and what they weigh together, within both limits.        *)
THEOREM BudgetHolds == Spec => []BudgetExact
<1>1. IInv => BudgetExact
  BY DEF IInv, Sound, Counted, WithinBudget, BudgetExact
<1> QED BY <1>1, Invariance, PTL

-----------------------------------------------------------------------------
(* A batch is one step. *)

RecordsOf(entries) == {entries[i].record : i \in DOMAIN entries}

(* What the draft already holds and what is left make up the whole call. *)
DraftInv ==
    /\ \A h \in Handles : call[h].phase = "ready" => call[h].todo = call[h].entries
    /\ \A h \in Handles : writer = h =>
           /\ rows \subseteq draft.rows
           /\ Stored(draft.rows) \cup RecordsOf(call[h].todo)
                = Stored(rows) \cup RecordsOf(call[h].entries)

(* The records of a call are its next one and the rest. *)
LEMMA HeadAndTail ==
    ASSUME NEW S, NEW todo \in Seq(S), todo # <<>>
    PROVE  RecordsOf(todo) = {Head(todo).record} \cup RecordsOf(Tail(todo))
<1>1. /\ DOMAIN todo = 1..Len(todo) /\ Len(todo) \in Nat /\ Len(todo) >= 1
      /\ DOMAIN Tail(todo) = 1..(Len(todo) - 1)
      /\ Head(todo) = todo[1]
  OBVIOUS
<1>2. \A i \in DOMAIN Tail(todo) : Tail(todo)[i] = todo[i + 1]
  OBVIOUS
<1>3. ASSUME NEW x \in RecordsOf(todo)
      PROVE  x \in {Head(todo).record} \cup RecordsOf(Tail(todo))
  <2>1. PICK i \in DOMAIN todo : x = todo[i].record
    BY <1>3 DEF RecordsOf
  <2>2. CASE i = 1
    BY <1>1, <2>1, <2>2
  <2>3. CASE i # 1
    <3>1. i - 1 \in DOMAIN Tail(todo) /\ Tail(todo)[i - 1] = todo[i]
      BY <1>1, <1>2, <2>1, <2>3
    <3> QED BY <2>1, <3>1 DEF RecordsOf
  <2> QED BY <2>2, <2>3
<1>4. ASSUME NEW x \in {Head(todo).record} \cup RecordsOf(Tail(todo))
      PROVE  x \in RecordsOf(todo)
  <2>1. CASE x = Head(todo).record
    BY <1>1, <2>1 DEF RecordsOf
  <2>2. CASE x \in RecordsOf(Tail(todo))
    <3>1. PICK i \in DOMAIN Tail(todo) : x = Tail(todo)[i].record
      BY <2>2 DEF RecordsOf
    <3>2. i + 1 \in DOMAIN todo /\ x = todo[i + 1].record
      BY <1>1, <1>2, <3>1
    <3> QED BY <3>2 DEF RecordsOf
  <2> QED BY <2>1, <2>2, <1>4
<1> QED BY <1>3, <1>4

(* What the open transaction has written and has still to write is the *)
(* call it was opened for, at every step.                              *)
LEMMA DraftStep == IInv /\ DraftInv /\ [Next]_vars => DraftInv'
<1> SUFFICES ASSUME IInv, DraftInv, [Next]_vars PROVE DraftInv'
  OBVIOUS
<1>0. TypeOK
  BY DEF IInv
<1> USE StoreAssumption
<1>1. ASSUME NEW h \in Handles, NEW b \in Offers[h], Submit(h, b)
      PROVE  DraftInv'
  <2>1. UNCHANGED <<rows, draft, writer>> /\ writer # h
    BY <1>0, <1>1 DEF Submit, TypeOK
  <2>2. \A k \in Handles \ {h} : call'[k] = call[k]
    BY <1>0, <1>1 DEF Submit, TypeOK
  <2>3. call'[h].phase = "ready" => call'[h].todo = call'[h].entries
    BY <1>0, <1>1 DEF Submit, TypeOK, NoCall
  <2> QED BY <2>1, <2>2, <2>3 DEF DraftInv
<1>2. ASSUME NEW h \in Handles, Begin(h) PROVE DraftInv'
  <2>1. draft'.rows = rows /\ rows' = rows /\ writer' = h
    BY <1>2 DEF Begin
  <2>2. call'[h].todo = call[h].todo /\ call'[h].entries = call[h].entries
        /\ call[h].todo = call[h].entries
    BY <1>0, <1>2 DEF Begin, TypeOK, DraftInv
  <2>3. Stored(draft.rows)' = Stored(rows) /\ Stored(rows)' = Stored(rows)
    BY <2>1 DEF Stored
  <2>4. /\ rows' \subseteq draft'.rows
        /\ (Stored(draft.rows) \cup RecordsOf(call[h].todo))'
             = (Stored(rows) \cup RecordsOf(call[h].entries))'
    BY <2>1, <2>2, <2>3 DEF RecordsOf
  <2>5. \A k \in Handles : call'[k].phase = "ready" => call'[k].todo = call'[k].entries
    BY <1>0, <1>2 DEF Begin, TypeOK, DraftInv
  <2> QED BY <2>1, <2>4, <2>5 DEF DraftInv
<1>3. ASSUME NEW h \in Handles, Busy(h) PROVE DraftInv'
  BY <1>0, <1>3 DEF DraftInv, Busy, NoCall, TypeOK
<1>4. ASSUME NEW h \in Handles, Replay(h) PROVE DraftInv'
  <2>1. /\ call[h].todo \in Seq(Entries) /\ call[h].todo # <<>> /\ writer = h
        /\ Head(call[h].todo).record \in Stored(draft.rows)
        /\ UNCHANGED <<rows, draft, writer>>
    BY <1>0, <1>4 DEF Replay, Writing, TypeOK, Redelivered
  <2>2. /\ call'[h].todo = Tail(call[h].todo) /\ call'[h].entries = call[h].entries
        /\ call'[h].phase = "writing" /\ \A k \in Handles \ {h} : call'[k] = call[k]
    BY <1>0, <1>4 DEF Replay, Advanced, TypeOK
  <2>3. Stored(draft.rows) \cup RecordsOf(Tail(call[h].todo))
          = Stored(rows) \cup RecordsOf(call[h].entries)
    BY <2>1, HeadAndTail DEF DraftInv
  <2>4. \A k \in Handles : call'[k].phase = "ready" => call'[k].todo = call'[k].entries
    BY <2>2 DEF DraftInv
  <2> QED BY <2>1, <2>2, <2>3, <2>4 DEF DraftInv
<1>5. ASSUME NEW h \in Handles, Admit(h) PROVE DraftInv'
  <2> DEFINE e == Head(call[h].todo)
  <2>1. /\ call[h].todo \in Seq(Entries) /\ call[h].todo # <<>> /\ writer = h
        /\ draft'.rows = Insert(draft.rows, e)
        /\ UNCHANGED <<rows, writer>>
    BY <1>0, <1>5 DEF Admit, Writing, TypeOK
  <2>2. /\ call'[h].todo = Tail(call[h].todo) /\ call'[h].entries = call[h].entries
        /\ call'[h].phase = "writing" /\ \A k \in Handles \ {h} : call'[k] = call[k]
    BY <1>0, <1>5 DEF Admit, Advanced, TypeOK
  <2>3. Stored(Insert(draft.rows, e)) = Stored(draft.rows) \cup {e.record}
    BY StoredInsert
  <2>4. RecordsOf(call[h].todo) = {e.record} \cup RecordsOf(Tail(call[h].todo))
    BY <2>1, HeadAndTail
  <2>5. /\ rows \subseteq draft.rows
        /\ Stored(draft.rows) \cup RecordsOf(call[h].todo)
             = Stored(rows) \cup RecordsOf(call[h].entries)
    BY <2>1 DEF DraftInv
  <2>6. Stored(Insert(draft.rows, e)) \cup RecordsOf(Tail(call[h].todo))
          = Stored(rows) \cup RecordsOf(call[h].entries)
    BY <2>3, <2>4, <2>5
  <2>7. rows \subseteq Insert(draft.rows, e)
    BY <2>5 DEF Insert
  <2>8. \A k \in Handles : call'[k].phase = "ready" => call'[k].todo = call'[k].entries
    BY <2>2 DEF DraftInv
  <2> HIDE DEF e
  <2> QED BY <2>1, <2>2, <2>6, <2>7, <2>8 DEF DraftInv
<1>6. ASSUME NEW h \in Handles, Refuse(h) PROVE DraftInv'
  BY <1>0, <1>6 DEF DraftInv, Refuse, NoCall, TypeOK
<1>7. ASSUME NEW h \in Handles, Commit(h) PROVE DraftInv'
  BY <1>0, <1>7 DEF DraftInv, Commit, NoCall, TypeOK
<1>8. ASSUME NEW h \in Handles, Crash(h) PROVE DraftInv'
  BY <1>0, <1>8 DEF DraftInv, Crash, NoCall, TypeOK
<1>9. CASE UNCHANGED vars
  BY <1>9 DEF vars, DraftInv
<1> QED
  BY <1>1, <1>2, <1>3, <1>4, <1>5, <1>6, <1>7, <1>8, <1>9 DEF Next

(* Whatever is refused, raced or killed in between, a call that changes the *)
(* table adds all of its records and nothing else, in one step.             *)
THEOREM BatchesAreAtomic == Spec => BatchAtomic
<1>1. Init => DraftInv
  BY StoreAssumption DEF Init, DraftInv, NoCall
<1>2. IInv /\ DraftInv /\ [Next]_vars =>
        [rows' # rows =>
           /\ rows \subseteq rows'
           /\ \E h \in Handles :
                 Stored(rows') = Stored(rows)
                   \cup {call[h].entries[i].record : i \in DOMAIN call[h].entries}]_vars
  <2> SUFFICES ASSUME IInv, DraftInv, Next, rows' # rows
               PROVE  /\ rows \subseteq rows'
                      /\ \E h \in Handles :
                            Stored(rows') = Stored(rows)
                              \cup {call[h].entries[i].record : i \in DOMAIN call[h].entries}
    BY DEF vars
  <2>1. PICK h \in Handles : Commit(h)
    BY DEF Next, Submit, Begin, Busy, Replay, Admit, Refuse, Crash
  <2>2. writer = h /\ call[h].todo = <<>> /\ rows' = draft.rows
    BY <2>1 DEF Commit, IInv, TypeOK
  <2>3. RecordsOf(call[h].todo) = {}
    BY <2>2 DEF RecordsOf
  <2>4. /\ rows \subseteq draft.rows
        /\ Stored(draft.rows) = Stored(rows) \cup RecordsOf(call[h].entries)
    BY <2>2, <2>3 DEF DraftInv
  <2>5. Stored(rows') = Stored(rows) \cup RecordsOf(call[h].entries)
    BY <2>2, <2>4
  <2> QED BY <2>2, <2>4, <2>5 DEF RecordsOf
<1> QED BY <1>1, <1>2, DraftStep, Invariance, PTL DEF Spec, BatchAtomic

-----------------------------------------------------------------------------
(* The decision every pay link is subject to. *)

(* Each rule of a policy lets "unknown" through and leaves it to the rule *)
(* about unknowns; under the built-in policy nothing is left open: what   *)
(* it accepts has disclosed everything, and disclosed it favourably.      *)
THEOREM FailClosedLeavesNothingOpen ==
    ASSUME NEW m, Accepted(m, FailClosed)
    PROVE  /\ Undisclosed(m) = {}
           /\ \A c \in IssuerControls : m.issuer_controls[c] = "false"
           /\ m.provider_required = "false" /\ m.single_sequencer = "false"
           /\ m.self_hostable_read = "true" /\ m.self_hostable_broadcast = "true"
           /\ m.bridge = "none" /\ m.identity = "none"
           /\ m.custody = "self-custody-capable"
           /\ "unknown" \notin m.egress /\ m.egress \subseteq FailClosed.egress
<1>1. ValidManifest(m) /\ Findings(m, FailClosed) = {}
  BY DEF Accepted
<1>2. /\ "unknown" \in FailClosed.rejects /\ "provider" \in FailClosed.rejects
      /\ "single_sequencer" \in FailClosed.rejects /\ "identity" \in FailClosed.rejects
      /\ "unhostable_read" \in FailClosed.rejects
      /\ "unhostable_broadcast" \in FailClosed.rejects
      /\ FailClosed.denied_controls = IssuerControls
      /\ FailClosed.bridges = {"none"} /\ FailClosed.custody = {"self-custody-capable"}
  BY DEF FailClosed
<1>3. Undisclosed(m) = {}
  BY <1>1, <1>2 DEF Findings
<1>4. /\ m.single_sequencer # "true" /\ m.provider_required # "true"
      /\ m.self_hostable_read # "false" /\ m.self_hostable_broadcast # "false"
      /\ m.identity \in {"none", "unknown"}
  BY <1>1, <1>2 DEF Findings
<1>5. /\ m.bridge \in {"none", "unknown"}
      /\ m.custody \in {"self-custody-capable", "unknown"}
      /\ m.egress \ (FailClosed.egress \cup {"unknown"}) = {}
      /\ \A c \in IssuerControls : m.issuer_controls[c] # "true"
  BY <1>1, <1>2 DEF Findings
<1>6. /\ m.single_sequencer # "unknown" /\ m.provider_required # "unknown"
      /\ m.self_hostable_read # "unknown" /\ m.self_hostable_broadcast # "unknown"
      /\ m.identity # "unknown" /\ m.bridge # "unknown" /\ m.custody # "unknown"
      /\ \A c \in IssuerControls : m.issuer_controls[c] # "unknown"
      /\ "unknown" \notin m.egress
  BY <1>3 DEF Undisclosed
<1>7. /\ {m.single_sequencer, m.provider_required, m.self_hostable_read,
            m.self_hostable_broadcast} \subseteq {"true", "false", "unknown"}
      /\ \A c \in IssuerControls : m.issuer_controls[c] \in {"true", "false", "unknown"}
  BY <1>1 DEF ValidManifest, Disclosed
<1> QED BY <1>3, <1>4, <1>5, <1>6, <1>7

-----------------------------------------------------------------------------
(* The exchange.  Every node's own records carry distinct nonces and one   *)
(* intent per request; every row is a record some node signed and stored;  *)
(* a link is sealed as its merchant made it, a reply verifies for good;    *)
(* and what a call carries across an await was true when it was read and   *)
(* can only have grown since.                                              *)

(* The authority under which a node signs, and what it has signed: a node  *)
(* stores its own records before it shows them.                            *)
Auth(n) == [key_id |-> KeyId(n), public_key |-> n]

Signed(n) == {row.record : row \in OwnRecords(n)}

Authentic(r) == \E m \in Nodes : r.authority = Auth(m) /\ r \in Signed(m)

(* A link binds what it carries: whoever has its request has all of it.    *)
Sealed(link) ==
    /\ link.request.purpose_hash = PurposeHash(link.purpose)
    /\ link.request.parent = link.descriptor
    /\ link.request.asset_trust.manifest_record = link.manifest

(* A signed intent that an acceptance can carry, unless its offer ran out. *)
Answerable(intent) ==
    \E link \in links :
        /\ link.request = intent.parent
        /\ \/ Presentable(intent, link)
           \/ intent.issued_at >= link.descriptor.expires_at
           \/ intent.issued_at >= link.manifest.expires_at

(* A record a node signed. *)
Own(n, r) ==
    /\ r.authority = Auth(n)
    /\ r.nonce \in 1..Cardinality(OwnRecords(n))
    /\ r.schema \in Schemas
    /\ r.issued_at \in Nat /\ r.issued_at <= now
    /\ r.expires_at \in Nat
    /\ r.bytes = 1
    /\ r.schema = "node_descriptor" => r.disclosure = "public"
    /\ r.schema = "payment_intent" =>
          /\ r.payment_asset_trust.manifest_record \in Signed(n)
          /\ Answerable(r)

OwnInv(n) ==
    /\ \A r \in Signed(n) : Own(n, r)
    /\ NoncesDistinct(Signed(n))
    /\ \A x, y \in Signed(n) :
          /\ x.schema = "payment_intent" /\ y.schema = "payment_intent"
          /\ x.parent = y.parent
          => x = y

RowsInv(n) ==
    /\ IsFiniteSet(tables[n])
    /\ RowsUnique(tables[n])
    /\ \A row \in tables[n] :
          /\ row = [record |-> row.record, source |-> row.source, rank |-> row.rank]
          /\ Authentic(row.record)
          /\ row.rank \in Nat
          /\ row.source \in {"local", "remote"}
          /\ row.source = "local" <=> row.record.authority = Auth(n)

LinkInv(link) ==
    /\ \E purpose, d, m, r :
          link = [purpose |-> purpose, descriptor |-> d, manifest |-> m, request |-> r]
    /\ \E t, to : link.purpose = [note |-> t, reply_to |-> to]
    /\ Authentic(link.descriptor) /\ Authentic(link.manifest) /\ Authentic(link.request)
    /\ Sealed(link)
    /\ BitcoinOffer(link)

ReplyInv(reply) ==
    /\ reply = AcceptanceOf(reply.link, reply.intent)
    /\ reply.link \in links
    /\ Authentic(reply.intent) /\ Authentic(reply.manifest)
    /\ VerifiedReply(reply, now, reply.link.request.authority.key_id)

(* The offer a call answers was verified when the call came.               *)
AcceptForm(form) ==
    /\ form.link \in links
    /\ form.source \in SourceAccounts /\ ValidAddress(form.source)
    /\ ValidMaxFee(form.max_fee)
    /\ form.accepted_at \in Nat
    /\ VerifiedLink(form.link, form.accepted_at, NoRecord)

(* What createPaymentIntent asked of the request and of its own manifest.  *)
IntentReady(x) ==
    LET request == x.form.link.request IN
    /\ VerifiedAt(request, x.at)
    /\ BindingHoldsAt(BindingTo(x.manifest), x.manifest, request.asset_id, request.rail, x.at)

(* What a call carries across its await.                                   *)
Carries(n, x) ==
    /\ x.phase \in Phases \ {"idle"}
    /\ x.op \in {"activate", "create", "accept"}
    /\ x.at \in Nat /\ x.at <= now
    /\ x.phase = "activating" => x.seen = NoRecord \/ x.seen \in Signed(n)
    /\ x.phase # "activating" => x.op \in {"create", "accept"}
    /\ x.op = "accept" => AcceptForm(x.form) /\ x.form.accepted_at <= x.at
    /\ x.phase # "activating" /\ x.op = "create" => x.descriptor \in Signed(n)
    /\ x.phase \in {"checking", "signing"} => x.manifest \in Signed(n)
    /\ x.phase \in {"checking", "signing"} /\ x.op = "accept" =>
          /\ x.manifest.disclosure = "private"
          /\ x.manifest.audience = x.form.link.request.authority.key_id
    /\ x.phase = "signing" /\ x.op = "accept" => IntentReady(x)

WorkInv(c) == workflow[c] = Idle \/ Carries(Home[c], workflow[c])

ExchangeInv ==
    /\ tables = [n \in Nodes |-> tables[n]]
    /\ workflow = [c \in Callers |-> workflow[c]]
    /\ now \in Nat /\ now <= MaxTime
    /\ \A n \in Nodes : OwnInv(n) /\ RowsInv(n)
    /\ \A link \in links : LinkInv(link)
    /\ \A reply \in replies : ReplyInv(reply)
    /\ \A c \in Callers : WorkInv(c)

-----------------------------------------------------------------------------
(* Nothing that was signed, handed out or past is ever taken back.         *)
Onward ==
    /\ \A m \in Nodes :
          /\ Signed(m) \subseteq Signed(m)'
          /\ Cardinality(OwnRecords(m)) \in Nat /\ Cardinality(OwnRecords(m)') \in Nat
          /\ Cardinality(OwnRecords(m)) <= Cardinality(OwnRecords(m)')
    /\ links \subseteq links'
    /\ now' \in Nat /\ now <= now'

(* A key id names one key. *)
LEMMA OneNode ==
    ASSUME NEW m, NEW n, KeyId(m) = KeyId(n)
    PROVE  m = n
BY DEF KeyId

(* The fields of an authority. *)
LEMMA AuthKey ==
    ASSUME NEW n
    PROVE  Auth(n).key_id = KeyId(n) /\ Auth(n).public_key = n
BY DEF Auth

(* A record under a node's key id is one this node signed. *)
LEMMA AuthOf ==
    ASSUME NEW n \in Nodes, NEW r, Authentic(r), r.authority.key_id = KeyId(n)
    PROVE  r.authority = Auth(n) /\ r \in Signed(n)
BY OneNode, AuthKey DEF Authentic

(* Whatever travels, one key and nonce name one record. *)
LEMMA OneRecord ==
    ASSUME \A n \in Nodes : OwnInv(n), NEW x, NEW y, Authentic(x), Authentic(y),
           x.authority.key_id = y.authority.key_id, x.nonce = y.nonce
    PROVE  x = y
<1>1. PICK m \in Nodes : x.authority = Auth(m) /\ x \in Signed(m)
  BY DEF Authentic
<1>2. y \in Signed(m)
  BY <1>1, AuthKey, AuthOf
<1>3. NoncesDistinct(Signed(m))
  BY DEF OwnInv
<1> QED
  BY <1>1, <1>2, <1>3 DEF NoncesDistinct

(* What a node signed is no null and of a known schema. *)
LEMMA IsARecord ==
    ASSUME \A n \in Nodes : OwnInv(n), NEW r, Authentic(r)
    PROVE  r # NoRecord /\ r.schema \in Schemas /\ r.bytes = 1
BY RecordsAssumption DEF Authentic, OwnInv, Own

(* What was signed once stays signed. *)
LEMMA AuthenticStays ==
    ASSUME Onward, NEW r, Authentic(r)
    PROVE  Authentic(r)'
BY DEF Onward, Authentic, Auth

(* A verdict as of an issuance stays as time goes on. *)
LEMMA VerdictStays ==
    ASSUME Onward, ExchangeInv, NEW reply, NEW key, VerifiedReply(reply, now, key),
           reply.intent.issued_at \in Int
    PROVE  VerifiedReply(reply, now, key)'
<1>1. now' >= reply.intent.issued_at
  BY DEF VerifiedReply, Onward, ExchangeInv
<1> QED
  BY <1>1 DEF VerifiedReply

(* A node's own record stays well made, and an intent stays answerable. *)
LEMMA OwnStays ==
    ASSUME Onward, ExchangeInv, NEW n \in Nodes, NEW r, Own(n, r)
    PROVE  Own(n, r)'
<1>1. r.nonce \in 1..Cardinality(OwnRecords(n)')
  BY DEF Own, Onward
<1>2. r.issued_at <= now'
  BY DEF Own, Onward, ExchangeInv
<1>3. ASSUME NEW link \in links, Presentable(r, link)
      PROVE  Presentable(r, link)'
  <2>1. AcceptanceOf(link, r).intent = r
    BY DEF AcceptanceOf
  <2>2. VerifiedReply(AcceptanceOf(link, r), now, link.request.authority.key_id)'
    BY <1>3, <2>1, VerdictStays DEF Presentable, Own
  <2> QED
    BY <2>2 DEF Presentable
<1>4. Answerable(r) => Answerable(r)'
  BY <1>3 DEF Answerable, Onward
<1> QED
  BY <1>1, <1>2, <1>4 DEF Own, Onward, Auth

(* A link that was handed out stays a sealed offer. *)
LEMMA LinkStays ==
    ASSUME Onward, NEW link, LinkInv(link)
    PROVE  LinkInv(link)'
BY AuthenticStays DEF LinkInv, Sealed

(* A reply that was handed out still verifies at any later time. *)
LEMMA ReplyStays ==
    ASSUME Onward, ExchangeInv, NEW reply, ReplyInv(reply)
    PROVE  ReplyInv(reply)'
<1>1. reply.intent.issued_at \in Int
  BY DEF ReplyInv, Authentic, ExchangeInv, OwnInv, Own
<1>2. VerifiedReply(reply, now, reply.link.request.authority.key_id)'
  BY <1>1, VerdictStays DEF ReplyInv
<1> QED
  BY <1>2, AuthenticStays DEF ReplyInv, Onward

(* What a call carries across an await stays true while others step. *)
LEMMA WorkStays ==
    ASSUME Onward, ExchangeInv, NEW c \in Callers, workflow'[c] = workflow[c]
    PROVE  WorkInv(c)'
<1>1. Home[c] \in Nodes /\ WorkInv(c)
  BY ExchangeAssumption DEF ExchangeInv
<1>2. ASSUME NEW x, Carries(Home[c], x) PROVE Carries(Home[c], x)'
  BY <1>1, <1>2 DEF Carries, Onward, ExchangeInv, AcceptForm, IntentReady
<1> QED
  BY <1>1, <1>2 DEF WorkInv, Idle

(* A step that leaves the tables alone. *)
LEMMA TablesStay ==
    ASSUME ExchangeInv, tables' = tables, links \subseteq links', now' \in Nat, now <= now'
    PROVE  /\ Onward
           /\ tables' = [n \in Nodes |-> tables'[n]]
           /\ \A n \in Nodes : OwnInv(n)' /\ RowsInv(n)'
<1>1. \A n \in Nodes : Signed(n)' = Signed(n) /\ OwnRecords(n)' = OwnRecords(n)
  BY DEF Signed, OwnRecords
<1>2. \A n \in Nodes : Cardinality(OwnRecords(n)) \in Nat
  BY FS_Subset, FS_CardinalityType DEF ExchangeInv, RowsInv, OwnRecords
<1>3. Onward
  BY <1>1, <1>2 DEF Onward
<1>4. ASSUME NEW n \in Nodes PROVE OwnInv(n)'
  BY <1>1, <1>3, OwnStays DEF OwnInv, ExchangeInv
<1>5. ASSUME NEW n \in Nodes PROVE RowsInv(n)'
  BY <1>3, AuthenticStays DEF RowsInv, ExchangeInv, Auth
<1> QED
  BY <1>3, <1>4, <1>5 DEF ExchangeInv

-----------------------------------------------------------------------------
(* append() of one record.                                                 *)

(* The operators of the record tables, as a node of this module has them.  *)
LEMMA SameCardinality ==
    ASSUME NEW n, NEW S
    PROVE  Store(n)!Cardinality(S) = Cardinality(S)
BY DEF Store!Cardinality, Cardinality

(* The link rules do not depend on the node that applies them. *)
LEMMA SameLinked ==
    ASSUME NEW n, NEW x, NEW y
    PROVE  Store(n)!Linked(x, y) <=> Linked(x, y)
BY DEF Store!Linked, Store!RequestLink, Store!IntentLink, Store!CommitmentLink,
       Store!SubmissionLink, Store!SettlementLink, Store!ParentOf, Store!LateParentOf,
       Store!SameAuthority, Store!SameTerms, Store!SameSpending, Store!RootSchemas,
       Linked, RequestLink, IntentLink, CommitmentLink, SubmissionLink, SettlementLink,
       ParentOf, LateParentOf, SameAuthority, SameTerms, SameSpending, RootSchemas

(* append() adds one row at most, and none for a redelivery. *)
LEMMA InsertIs ==
    ASSUME NEW n, NEW table, IsFiniteSet(table), NEW r, NEW source
    PROVE  /\ r \in {row.record : row \in table} => Appended(n, table, r, source) = table
           /\ r \notin {row.record : row \in table} =>
                 \E rank \in Nat :
                    Appended(n, table, r, source) =
                        table \cup {[record |-> r, source |-> source, rank |-> rank]}
<1>a. PICK D : D = {row \in table : row.record.schema = "node_descriptor"}
  OBVIOUS
<1>b. PICK rank : rank = IF r.schema = "node_descriptor" THEN Cardinality(D) + 1 ELSE 0
  OBVIOUS
<1>c. PICK e : e = [record |-> r, source |-> source]
  OBVIOUS
<1>1. rank \in Nat
  BY <1>a, <1>b, FS_Subset, FS_CardinalityType
<1>2. e.record = r /\ e.source = source
  BY <1>c
<1>3. Store(n)!Rank(table, r) = rank
  BY <1>a, <1>b, SameCardinality DEF Store!Rank
<1>4. Store(n)!Insert(table, e) = table \cup {[record |-> r, source |-> source, rank |-> rank]}
  BY <1>2, <1>3 DEF Store!Insert
<1>5. Store(n)!Redelivered(table, e) <=> r \in {row.record : row \in table}
  BY <1>2 DEF Store!Redelivered, Store!Stored
<1>6. Appended(n, table, r, source) =
          IF Store(n)!Redelivered(table, e) THEN table ELSE Store(n)!Insert(table, e)
  BY <1>c DEF Appended
<1> QED
  BY <1>1, <1>4, <1>5, <1>6, Zenon

(* A node has finitely many own records, so the next nonce is a number. *)
LEMMA OwnRecordsFinite ==
    ASSUME ExchangeInv, NEW n \in Nodes
    PROVE  IsFiniteSet(OwnRecords(n)) /\ Cardinality(OwnRecords(n)) \in Nat
BY FS_Subset, FS_CardinalityType DEF ExchangeInv, RowsInv, OwnRecords

(* A node signs with the next nonce and stores what it signed. *)
LEMMA Signs ==
    ASSUME ExchangeInv, NEW n \in Nodes, NEW r,
           r.authority = Auth(n), r.nonce = Cardinality(OwnRecords(n)) + 1,
           tables' = [tables EXCEPT ![n] = Appended(n, tables[n], r, "local")],
           links \subseteq links', now' = now
    PROVE  /\ Onward
           /\ tables' = [m \in Nodes |-> tables'[m]]
           /\ r \notin Signed(n)
           /\ Signed(n)' = Signed(n) \cup {r}
           /\ Cardinality(OwnRecords(n)') = Cardinality(OwnRecords(n)) + 1
           /\ \A m \in Nodes : RowsInv(m)'
<1>1. IsFiniteSet(tables[n]) /\ IsFiniteSet(OwnRecords(n)) /\ Cardinality(OwnRecords(n)) \in Nat
  BY OwnRecordsFinite DEF ExchangeInv, RowsInv
<1>2. r \notin Signed(n)
  BY <1>1 DEF ExchangeInv, OwnInv, Own
<1>3. \A row \in tables[n] : row.record # r
  BY <1>2 DEF ExchangeInv, RowsInv, Signed, OwnRecords
<1>a. PICK held : held = tables[n]
  OBVIOUS
<1>b. IsFiniteSet(held) /\ r \notin {row.record : row \in held}
  BY <1>1, <1>3, <1>a
<1>4. PICK rank \in Nat :
          Appended(n, held, r, "local") =
              held \cup {[record |-> r, source |-> "local", rank |-> rank]}
  <2>1. r \notin {row.record : row \in held} =>
           \E k \in Nat : Appended(n, held, r, "local") =
                 held \cup {[record |-> r, source |-> "local", rank |-> k]}
    BY <1>b, InsertIs
  <2> QED
    BY <1>b, <2>1, Zenon
<1>5. PICK new : new = [record |-> r, source |-> "local", rank |-> rank]
  OBVIOUS
<1>6. /\ new.record = r /\ new.source = "local" /\ new.rank \in Nat /\ new \notin tables[n]
      /\ new = [record |-> new.record, source |-> new.source, rank |-> new.rank]
  BY <1>3, <1>5
<1>7. tables' = [m \in Nodes |-> IF m = n THEN tables[n] \cup {new} ELSE tables[m]]
  <2>1. Appended(n, tables[n], r, "local") = tables[n] \cup {new}
    BY <1>4, <1>5, <1>a
  <2>2. tables = [m \in Nodes |-> tables[m]]
    BY DEF ExchangeInv
  <2> QED
    BY <2>1, <2>2
<1>8. /\ tables'[n] = tables[n] \cup {new}
      /\ \A m \in Nodes : m # n => tables'[m] = tables[m]
  BY <1>7
<1>9. OwnRecords(n)' = OwnRecords(n) \cup {new}
  BY <1>6, <1>8 DEF OwnRecords
<1>10. \A m \in Nodes : m # n => OwnRecords(m)' = OwnRecords(m)
  BY <1>8 DEF OwnRecords
<1>11. Cardinality(OwnRecords(n)') = Cardinality(OwnRecords(n)) + 1
  <2>1. new \notin OwnRecords(n)
    BY <1>6 DEF OwnRecords
  <2>2. Cardinality(OwnRecords(n) \cup {new}) = Cardinality(OwnRecords(n)) + 1
    BY <1>1, <2>1, FS_AddElement
  <2> QED
    BY <1>9, <2>2
<1>12. Signed(n)' = Signed(n) \cup {r}
  BY <1>6, <1>9 DEF Signed
<1>13. Onward
  <2>1. \A m \in Nodes : m # n => Signed(m)' = Signed(m)
    BY <1>10 DEF Signed
  <2>2. now' \in Nat /\ now <= now'
    BY DEF ExchangeInv
  <2> QED
    BY <1>1, <1>10, <1>11, <1>12, <2>1, <2>2, OwnRecordsFinite DEF Onward
<1>14. \A x : Authentic(x) => Authentic(x)'
  BY <1>13, AuthenticStays
<1>15. ASSUME NEW m \in Nodes, m # n PROVE RowsInv(m)'
  BY <1>8, <1>14, <1>15 DEF ExchangeInv, RowsInv, Auth
<1>16. RowsInv(n)'
  <2>1. IsFiniteSet(tables[n] \cup {new})
    BY <1>1, FS_AddElement
  <2>2. RowsUnique(tables[n] \cup {new})
    BY <1>3, <1>6 DEF ExchangeInv, RowsInv, RowsUnique
  <2>3. Authentic(new.record)'
    BY <1>6, <1>12 DEF Authentic, Auth
  <2>4. ASSUME NEW row \in tables[n] \cup {new}
        PROVE  /\ row = [record |-> row.record, source |-> row.source, rank |-> row.rank]
               /\ Authentic(row.record)'
               /\ row.rank \in Nat
               /\ row.source \in {"local", "remote"}
               /\ row.source = "local" <=> row.record.authority = Auth(n)
    BY <1>6, <1>14, <2>3 DEF ExchangeInv, RowsInv
  <2> QED
    BY <1>8, <2>1, <2>2, <2>4 DEF RowsInv, Auth
<1>17. tables' = [m \in Nodes |-> tables'[m]]
  BY <1>7
<1> QED
  BY <1>2, <1>11, <1>12, <1>13, <1>15, <1>16, <1>17

(* Of what it signed before it keeps the account.                          *)
LEMMA SignsOwn ==
    ASSUME ExchangeInv, NEW n \in Nodes, NEW r,
           r.authority = Auth(n), r.nonce = Cardinality(OwnRecords(n)) + 1,
           tables' = [tables EXCEPT ![n] = Appended(n, tables[n], r, "local")],
           links \subseteq links', now' = now,
           Own(n, r)',
           r.schema = "payment_intent" =>
               \A x \in Signed(n) : x.schema = "payment_intent" => x.parent # r.parent
    PROVE  \A m \in Nodes : OwnInv(m)'
<1>1. /\ Onward
      /\ Signed(n)' = Signed(n) \cup {r}
      /\ Cardinality(OwnRecords(n)') = Cardinality(OwnRecords(n)) + 1
  BY Signs
<1>2. \A m \in Nodes : m # n => Signed(m)' = Signed(m)
  BY DEF Signed, OwnRecords, ExchangeInv
<1>3. \A m \in Nodes : \A x \in Signed(m) : Own(m, x)'
  BY <1>1, OwnStays DEF ExchangeInv, OwnInv
<1>4. ASSUME NEW m \in Nodes, m # n PROVE OwnInv(m)'
  BY <1>2, <1>3, <1>4 DEF ExchangeInv, OwnInv
<1>5. NoncesDistinct(Signed(n) \cup {r})
  <2>1. \A x \in Signed(n) : x.nonce # r.nonce
    BY OwnRecordsFinite DEF ExchangeInv, OwnInv, Own
  <2> QED
    BY <2>1 DEF ExchangeInv, OwnInv, NoncesDistinct
<1>6. OwnInv(n)'
  BY <1>1, <1>3, <1>5 DEF ExchangeInv, OwnInv
<1> QED
  BY <1>4, <1>6

-----------------------------------------------------------------------------
(* appendBatch() of records that came over the wire.                       *)

(* The rows of every prefix of a batch exist: a shortest prefix without    *)
(* them would have those of the one before it, and then its own.           *)
LEMMA BatchRowsExist ==
    ASSUME NEW n, NEW records, NEW source, Len(records) \in Nat
    PROVE  /\ BatchRows(n, records, source)[0] = tables[n]
           /\ \A i \in 1..Len(records) :
                 BatchRows(n, records, source)[i] =
                     Appended(n, BatchRows(n, records, source)[i - 1], records[i], source)
<1>a. PICK held : held = tables[n]
  OBVIOUS
<1>b. PICK k \in Nat : k = Len(records)
  OBVIOUS
<1> DEFINE It(f, m) == f = [i \in 0..m |-> IF i = 0 THEN held
                                           ELSE Appended(n, f[i - 1], records[i], source)]
<1> DEFINE B == {m \in Nat : ~ \E f : It(f, m)}
<1>1. \E f : It(f, k)
  <2> SUFFICES ASSUME k \in B PROVE FALSE
    OBVIOUS
  <2>1. PICK m \in B : \A e \in B : m <= e
    <3>1. B \subseteq Nat /\ B # {}
      OBVIOUS
    <3> HIDE DEF B
    <3> QED
      BY <3>1, LeastOf
  <2>2. m # 0
    <3>1. PICK f : f = [i \in 0..0 |-> held]
      OBVIOUS
    <3>2. \A i \in 0..0 : i = 0
      OBVIOUS
    <3>3. It(f, 0)
      BY <3>1, <3>2
    <3> QED
      BY <3>3
  <2>3. PICK g : It(g, m - 1)
    <3>1. m - 1 \in Nat /\ ~(m <= m - 1)
      BY <2>2
    <3>2. m - 1 \notin B
      BY <2>1, <3>1
    <3>3. \E f : It(f, m - 1)
      <4> HIDE DEF It
      <4> QED
        BY <3>1, <3>2
    <3> QED
      BY <3>3
  <2>4. PICK f : f = [i \in 0..m |-> IF i = m THEN Appended(n, g[m - 1], records[m], source)
                                     ELSE g[i]]
    OBVIOUS
  <2>5. \A i \in 0..m : f[i] = IF i = 0 THEN held
                               ELSE Appended(n, f[i - 1], records[i], source)
    <3>1. \A i \in 0..(m - 1) : f[i] = g[i]
      BY <2>4
    <3>2. f[m] = Appended(n, f[m - 1], records[m], source)
      BY <2>2, <2>4
    <3>3. \A i \in 0..(m - 1) : g[i] = IF i = 0 THEN held
                                       ELSE Appended(n, g[i - 1], records[i], source)
      BY <2>3
    <3>4. ASSUME NEW i \in 0..m, i # m
          PROVE  f[i] = IF i = 0 THEN held ELSE Appended(n, f[i - 1], records[i], source)
      <4>1. i \in 0..(m - 1) /\ (i # 0 => i - 1 \in 0..(m - 1))
        BY <3>4
      <4> QED
        BY <3>1, <3>3, <4>1
    <3> QED
      BY <2>2, <3>2, <3>4
  <2>6. It(f, m)
    BY <2>4, <2>5
  <2> QED
    BY <2>1, <2>6
<1>2. It(BatchRows(n, records, source), k)
  <2>1. BatchRows(n, records, source) = CHOOSE f : It(f, k)
    BY <1>a, <1>b DEF BatchRows
  <2> HIDE DEF It
  <2> QED
    BY <1>1, <2>1, Zenon
<1>3. PICK after : after = BatchRows(n, records, source)
  OBVIOUS
<1>4. \A i \in 0..k : after[i] = IF i = 0 THEN held
                                 ELSE Appended(n, after[i - 1], records[i], source)
  BY <1>2, <1>3
<1>5. after[0] = held
  BY <1>4
<1>6. \A i \in 1..k : after[i] = Appended(n, after[i - 1], records[i], source)
  BY <1>4
<1> QED
  BY <1>a, <1>b, <1>3, <1>5, <1>6, Zenon

(* A table with records of others added to it. *)
Grown(n, table) ==
    /\ tables[n] \subseteq table
    /\ IsFiniteSet(table)
    /\ RowsUnique(table)
    /\ \A row \in table :
          \/ row \in tables[n]
          \/ /\ row = [record |-> row.record, source |-> row.source, rank |-> row.rank]
             /\ Authentic(row.record) /\ row.record.authority # Auth(n)
             /\ row.rank \in Nat
             /\ row.source = "remote"

(* One append from outside leaves a table with records of others added. *)
LEMMA GrownStep ==
    ASSUME ExchangeInv, NEW n \in Nodes, NEW table, Grown(n, table), NEW r, Authentic(r)
    PROVE  /\ Grown(n, Appended(n, table, r, "remote"))
           /\ {row.record : row \in Appended(n, table, r, "remote")} =
                  {row.record : row \in table} \cup {r}
<1>1. IsFiniteSet(table)
  BY DEF Grown
<1>2. CASE r \in {row.record : row \in table}
  <2>1. Appended(n, table, r, "remote") = table
    BY <1>1, <1>2, InsertIs
  <2> QED
    BY <1>2, <2>1
<1>3. CASE r \notin {row.record : row \in table}
  <2>1. \E k \in Nat : Appended(n, table, r, "remote") =
              table \cup {[record |-> r, source |-> "remote", rank |-> k]}
    BY <1>1, <1>3, InsertIs
  <2>2. PICK k \in Nat : Appended(n, table, r, "remote") =
              table \cup {[record |-> r, source |-> "remote", rank |-> k]}
    BY <2>1, Zenon
  <2>3. PICK new : new = [record |-> r, source |-> "remote", rank |-> k]
    OBVIOUS
  <2>4. /\ new.record = r /\ new.source = "remote" /\ new.rank \in Nat
        /\ new = [record |-> new.record, source |-> new.source, rank |-> new.rank]
    BY <2>3
  <2>5. r.authority # Auth(n)
    <3>1. r \notin Signed(n)
      BY <1>3 DEF Grown, Signed, OwnRecords
    <3> QED
      BY <3>1, AuthKey, AuthOf
  <2>6. Appended(n, table, r, "remote") = table \cup {new}
    BY <2>2, <2>3
  <2>7. IsFiniteSet(table \cup {new})
    BY <1>1, FS_AddElement
  <2>8. RowsUnique(table \cup {new})
    BY <1>3, <2>4 DEF Grown, RowsUnique
  <2>9. Grown(n, table \cup {new})
    BY <2>4, <2>5, <2>7, <2>8 DEF Grown
  <2>10. {row.record : row \in table \cup {new}} = {row.record : row \in table} \cup {r}
    BY <2>4
  <2> QED
    BY <2>6, <2>9, <2>10
<1> QED
  BY <1>2, <1>3

(* Every prefix of a batch leaves such a table, with the prefix stored.    *)
LEMMA BatchGrows ==
    ASSUME ExchangeInv, NEW n \in Nodes, NEW records, Len(records) \in Nat,
           \A i \in 1..Len(records) : Authentic(records[i])
    PROVE  \A i \in 0..Len(records) :
              /\ Grown(n, BatchRows(n, records, "remote")[i])
              /\ \A j \in 1..i :
                    records[j] \in {row.record : row \in BatchRows(n, records, "remote")[i]}
              /\ \A row \in BatchRows(n, records, "remote")[i] :
                    \/ row \in tables[n]
                    \/ \E j \in 1..i : row.record = records[j]
<1>a. PICK after : after = BatchRows(n, records, "remote")
  OBVIOUS
<1>b. PICK k \in Nat : k = Len(records)
  OBVIOUS
<1>1. /\ after[0] = tables[n]
      /\ \A i \in 1..k : after[i] = Appended(n, after[i - 1], records[i], "remote")
  BY <1>a, <1>b, BatchRowsExist
<1> DEFINE Good(i) ==
              /\ Grown(n, after[i])
              /\ \A j \in 1..i : records[j] \in {row.record : row \in after[i]}
              /\ \A row \in after[i] :
                    \/ row \in tables[n]
                    \/ \E j \in 1..i : row.record = records[j]
<1> DEFINE B == {i \in 0..k : ~Good(i)}
<1>2. Good(0)
  BY <1>1 DEF ExchangeInv, RowsInv, Grown
<1>3. ASSUME NEW i \in 1..k, Good(i - 1)
      PROVE  Good(i)
  <2>1. i - 1 \in 0..k /\ 1..i = 1..(i - 1) \cup {i}
    OBVIOUS
  <2>2. Authentic(records[i])
    BY <1>b
  <2>3. PICK table : table = after[i - 1]
    OBVIOUS
  <2>a. PICK r : r = records[i]
    OBVIOUS
  <2>b. PICK next : next = after[i]
    OBVIOUS
  <2>4. next = Appended(n, table, r, "remote")
    BY <1>1, <2>3, <2>a, <2>b
  <2>5. Grown(n, table)
    BY <1>3, <2>3
  <2>c. Authentic(r)
    BY <2>2, <2>a
  <2>d. /\ Grown(n, next)
        /\ {row.record : row \in next} = {row.record : row \in table} \cup {r}
    BY <2>4, <2>5, <2>c, GrownStep
  <2>6. /\ Grown(n, after[i])
        /\ {row.record : row \in after[i]} = {row.record : row \in table} \cup {records[i]}
    BY <2>a, <2>b, <2>d
  <2>7. \A j \in 1..(i - 1) : records[j] \in {row.record : row \in table}
    BY <1>3, <2>3
  <2>8. \A j \in 1..i : records[j] \in {row.record : row \in after[i]}
    BY <2>1, <2>6, <2>7
  <2>9. \A row \in table : row \in tables[n] \/ \E j \in 1..(i - 1) : row.record = records[j]
    BY <1>3, <2>3
  <2>10. ASSUME NEW row \in after[i]
         PROVE  row \in tables[n] \/ \E j \in 1..i : row.record = records[j]
    <3>1. CASE row.record = records[i]
      BY <2>1, <3>1
    <3>2. CASE row.record # records[i]
      <4>1. row.record \in {w.record : w \in table}
        BY <2>6, <3>2
      <4>2. PICK w \in table : w.record = row.record
        BY <4>1
      <4>3. CASE w \in tables[n]
        BY <2>6, <4>2, <4>3 DEF Grown, RowsUnique
      <4>4. CASE \E j \in 1..(i - 1) : w.record = records[j]
        BY <2>1, <4>2, <4>4
      <4> QED
        BY <2>9, <4>3, <4>4
    <3> QED
      BY <3>1, <3>2
  <2> QED
    BY <2>6, <2>8, <2>10
<1>4. B = {}
  <2> SUFFICES ASSUME B # {} PROVE FALSE
    OBVIOUS
  <2>1. PICK i \in B : \A e \in B : i <= e
    <3>1. B \subseteq Nat
      OBVIOUS
    <3> HIDE DEF B
    <3> QED
      BY <3>1, LeastOf
  <2>2. i \in 0..k /\ ~Good(i)
    OBVIOUS
  <2>3. i # 0
    BY <1>2, <2>2
  <2>4. i \in 1..k /\ i - 1 \in 0..k /\ ~(i <= i - 1)
    BY <2>2, <2>3
  <2>5. i - 1 \notin B
    BY <2>1, <2>4
  <2>6. Good(i - 1)
    BY <2>4, <2>5
  <2> HIDE DEF Good
  <2> QED
    BY <1>3, <2>2, <2>4, <2>6
<1>5. \A i \in 0..k : Good(i)
  BY <1>4
<1> QED
  BY <1>a, <1>b, <1>5

(* A batch of others' records leaves what the node signed, and its account. *)
LEMMA Imports ==
    ASSUME ExchangeInv, NEW n \in Nodes, NEW records, Len(records) \in Nat,
           \A i \in 1..Len(records) : Authentic(records[i]),
           tables' = [tables EXCEPT ![n] = BatchStored(n, records, "remote")],
           links' = links, now' = now
    PROVE  /\ Onward
           /\ tables' = [m \in Nodes |-> tables'[m]]
           /\ \A m \in Nodes : OwnInv(m)' /\ RowsInv(m)'
           /\ \A m \in Nodes : Signed(m)' = Signed(m)
<1>1. PICK table : table = BatchStored(n, records, "remote")
  OBVIOUS
<1>2. Grown(n, table)
  BY <1>1, BatchGrows DEF BatchStored
<1>3. tables' = [m \in Nodes |-> IF m = n THEN table ELSE tables[m]]
  <2>1. tables = [m \in Nodes |-> tables[m]]
    BY DEF ExchangeInv
  <2> QED
    BY <1>1, <2>1
<1>4. tables'[n] = table /\ \A m \in Nodes : m # n => tables'[m] = tables[m]
  BY <1>3
<1>5. \A m \in Nodes : OwnRecords(m)' = OwnRecords(m)
  BY <1>2, <1>4 DEF OwnRecords, Grown
<1>6. \A m \in Nodes : Signed(m)' = Signed(m)
  BY <1>5 DEF Signed
<1>7. Onward
  BY <1>5, <1>6, OwnRecordsFinite DEF Onward, ExchangeInv
<1>8. \A x : Authentic(x) => Authentic(x)'
  BY <1>7, AuthenticStays
<1>9. ASSUME NEW m \in Nodes PROVE OwnInv(m)'
  BY <1>6, <1>7, OwnStays DEF OwnInv, ExchangeInv
<1>10. ASSUME NEW m \in Nodes, m # n PROVE RowsInv(m)'
  BY <1>4, <1>8, <1>10 DEF ExchangeInv, RowsInv, Auth
<1>11. RowsInv(n)'
  <2>1. IsFiniteSet(table) /\ RowsUnique(table)
    BY <1>2 DEF Grown
  <2>2. ASSUME NEW row \in table
        PROVE  /\ row = [record |-> row.record, source |-> row.source, rank |-> row.rank]
               /\ Authentic(row.record)'
               /\ row.rank \in Nat
               /\ row.source \in {"local", "remote"}
               /\ row.source = "local" <=> row.record.authority = Auth(n)
    BY <1>2, <1>8 DEF ExchangeInv, RowsInv, Grown
  <2> QED
    BY <1>4, <2>1, <2>2 DEF RowsInv, Auth
<1>12. tables' = [m \in Nodes |-> tables'[m]]
  BY <1>3
<1> QED
  BY <1>6, <1>7, <1>9, <1>10, <1>11, <1>12

-----------------------------------------------------------------------------
(* What a node reads.                                                      *)

(* Of finitely many rows one is the newest.                                *)
Newer(a, b) ==
    \/ b.record.issued_at < a.record.issued_at
    \/ /\ b.record.issued_at = a.record.issued_at
       /\ b.rank <= a.rank

(* Of finitely many descriptors one is the newest. *)
LEMMA NewestExists ==
    ASSUME NEW S, IsFiniteSet(S), S # {},
           \A row \in S : row.record.issued_at \in Nat /\ row.rank \in Nat
    PROVE  \E row \in S : \A other \in S : Newer(row, other)
<1> DEFINE B == {s \in SUBSET S : s # {} /\ ~ \E row \in s : \A other \in s : Newer(row, other)}
<1> SUFFICES ASSUME B # {} PROVE FALSE
  <2>1. S \in SUBSET S
    OBVIOUS
  <2> QED
    BY <2>1
<1>1. PICK s \in B : \A t \in B : Cardinality(s) <= Cardinality(t)
  <2>1. B \subseteq SUBSET S
    OBVIOUS
  <2> HIDE DEF B
  <2> QED
    BY <2>1, SmallestSubset
<1>2. s \in SUBSET S /\ s # {} /\ ~ \E row \in s : \A other \in s : Newer(row, other)
  OBVIOUS
<1>3. PICK x \in s : TRUE
  BY <1>2
<1>4. s \ {x} \in SUBSET S /\ s \ {x} \notin B
  <2> HIDE DEF B
  <2> QED
    BY <1>1, <1>2, SmallerSubset
<1>5. Newer(x, x)
  BY <1>2 DEF Newer
<1>6. s \ {x} # {}
  BY <1>2, <1>5
<1>7. PICK y \in s \ {x} : \A other \in s \ {x} : Newer(y, other)
  BY <1>4, <1>6
<1>8. CASE Newer(y, x)
  <2>1. \A other \in s : Newer(y, other)
    BY <1>7, <1>8
  <2> QED
    BY <1>2, <2>1
<1>9. CASE ~Newer(y, x)
  <2>1. ASSUME NEW other \in s \ {x} PROVE Newer(x, other)
    <3>1. Newer(y, other)
      BY <1>7
    <3>2. /\ x.record.issued_at \in Nat /\ x.rank \in Nat
          /\ y.record.issued_at \in Nat /\ y.rank \in Nat
          /\ other.record.issued_at \in Nat /\ other.rank \in Nat
      BY <1>2
    <3>a. PICK i, j, k \in Nat : i = x.record.issued_at /\ j = y.record.issued_at
                                 /\ k = other.record.issued_at
      BY <3>2
    <3>b. PICK p, q, r \in Nat : p = x.rank /\ q = y.rank /\ r = other.rank
      BY <3>2
    <3>3. k < j \/ (k = j /\ r <= q)
      BY <3>1, <3>a, <3>b DEF Newer
    <3>4. ~(i < j \/ (i = j /\ p <= q))
      BY <1>9, <3>a, <3>b DEF Newer
    <3>5. k < i \/ (k = i /\ r <= p)
      BY <3>3, <3>4
    <3> QED
      BY <3>5, <3>a, <3>b DEF Newer
  <2> QED
    BY <1>2, <1>5, <2>1
<1> QED
  BY <1>8, <1>9

(* A node's public root is sought among all descriptors it signed itself. *)
LEMMA LocalDescriptorsAre ==
    ASSUME ExchangeInv, NEW n \in Nodes
    PROVE  Store(n)!LocalDescriptors(tables[n]) =
               {row \in OwnRecords(n) : row.record.schema = "node_descriptor"}
<1>1. \A row \in OwnRecords(n) : row.record \in Signed(n)
  BY DEF Signed
<1>2. \A row \in OwnRecords(n) :
         row.record.schema = "node_descriptor" => row.record.disclosure = "public"
  BY <1>1 DEF ExchangeInv, OwnInv, Own
<1>3. \A row \in OwnRecords(n) : row.record.authority.key_id = KeyId(n)
  BY <1>1, AuthKey DEF ExchangeInv, OwnInv, Own
<1> QED
  BY <1>2, <1>3 DEF Store!LocalDescriptors, Store!PublicRows, OwnRecords

(* latestPublicNodeDescriptor is one of the node's own, if it has any.     *)
LEMMA LatestIs ==
    ASSUME ExchangeInv, NEW n \in Nodes
    PROVE  /\ Latest(n) # NoRecord => Latest(n) \in Signed(n)
           /\ (\E r \in Signed(n) : r.schema = "node_descriptor") => Latest(n) # NoRecord
<1>a. PICK S : S = {row \in OwnRecords(n) : row.record.schema = "node_descriptor"}
  OBVIOUS
<1>1. Store(n)!LocalDescriptors(tables[n]) = S
  BY <1>a, LocalDescriptorsAre
<1>2. IsFiniteSet(S)
  <2>1. S \subseteq OwnRecords(n)
    BY <1>a
  <2> QED
    BY <2>1, OwnRecordsFinite, FS_Subset
<1>3. \A row \in S : row.record \in Signed(n)
  BY <1>a DEF Signed
<1>4. \A row \in S : row.record.issued_at \in Nat /\ row.rank \in Nat
  <2>1. \A row \in S : row.record.issued_at \in Nat
    BY <1>3 DEF ExchangeInv, OwnInv, Own
  <2>2. \A row \in S : row.rank \in Nat
    BY <1>a DEF ExchangeInv, RowsInv, OwnRecords
  <2> QED
    BY <2>1, <2>2
<1>5. Store(n)!LatestDescriptor(tables[n]) =
          CHOOSE row \in S : \A other \in S : Newer(row, other)
  BY <1>1 DEF Store!LatestDescriptor, Newer
<1>6. S # {} => Store(n)!LatestDescriptor(tables[n]) \in S
  <2>1. S # {} => \E row \in S : \A other \in S : Newer(row, other)
    BY <1>2, <1>4, NewestExists
  <2> QED
    BY <1>5, <2>1
<1>7. S # {} => Latest(n) \in Signed(n) /\ Latest(n) # NoRecord
  <2>1. S # {} => Latest(n) \in Signed(n)
    BY <1>1, <1>3, <1>6 DEF Latest
  <2>2. \A r \in Signed(n) : r # NoRecord
    BY RecordsAssumption DEF ExchangeInv, OwnInv, Own
  <2> QED
    BY <2>1, <2>2
<1>8. S = {} => Latest(n) = NoRecord
  BY <1>1 DEF Latest
<1>9. (\E r \in Signed(n) : r.schema = "node_descriptor") => S # {}
  BY <1>a DEF Signed
<1> QED
  BY <1>7, <1>8, <1>9

(* localPaymentIntentFor finds intents this node signed, with the manifest *)
(* they name.                                                              *)
LEMMA IntentsOnAre ==
    ASSUME ExchangeInv, NEW n \in Nodes, NEW request, NEW i \in IntentsOn(n, request)
    PROVE  /\ i \in Signed(n) /\ i.schema = "payment_intent" /\ i.parent = request
           /\ Authentic(i)
           /\ Authentic(i.payment_asset_trust.manifest_record)
<1>1. i \in Signed(n) /\ i.schema = "payment_intent" /\ i.parent = request
  BY DEF IntentsOn, Store!LocalIntents, Signed, OwnRecords
<1>2. \A r \in Signed(n) : Authentic(r)
  BY DEF ExchangeInv, OwnInv, Own, Authentic
<1>3. i.payment_asset_trust.manifest_record \in Signed(n)
  BY <1>1 DEF ExchangeInv, OwnInv, Own
<1> QED
  BY <1>1, <1>2, <1>3

Renoted(a, s) == [a EXCEPT !.purpose.note = s]

Rebound(a, s) == [a EXCEPT !.manifest = s]

(* A carrier that was altered on its way does not verify: the purpose hash *)
(* and the binding of the request give away another note or manifest.      *)
LEMMA DeliveredIsLink ==
    ASSUME ExchangeInv, NEW file \in Delivered, NEW t, VerifiedLink(file.carrier, t, NoRecord)
    PROVE  file.carrier \in links
<1>2. ASSUME NEW a \in links, NEW s, file = File("canonical", Renoted(a, s))
      PROVE  file.carrier \in links
  <2>1. PICK purpose, d, m, r :
            a = [purpose |-> purpose, descriptor |-> d, manifest |-> m, request |-> r]
    BY DEF ExchangeInv, LinkInv
  <2>2. PICK other : other = [a.purpose EXCEPT !.note = s]
    OBVIOUS
  <2>3. file.carrier = [purpose |-> other, descriptor |-> d, manifest |-> m, request |-> r]
    BY <1>2, <2>1, <2>2 DEF File, Renoted
  <2>4. r.purpose_hash = PurposeHash(purpose)
    BY <2>1 DEF ExchangeInv, LinkInv, Sealed
  <2>5. r.purpose_hash = PurposeHash(other)
    BY <2>3 DEF VerifiedLink
  <2>6. other = purpose
    BY <2>4, <2>5 DEF PurposeHash
  <2> QED
    BY <2>1, <2>3, <2>6
<1>3. ASSUME NEW a \in links, NEW s, file = File("canonical", Rebound(a, s))
      PROVE  file.carrier \in links
  <2>1. PICK purpose, d, m, r :
            a = [purpose |-> purpose, descriptor |-> d, manifest |-> m, request |-> r]
    BY DEF ExchangeInv, LinkInv
  <2>3. file.carrier = [purpose |-> purpose, descriptor |-> d, manifest |-> s, request |-> r]
    BY <1>3, <2>1 DEF File, Rebound
  <2>4. r.asset_trust.manifest_record = m
    BY <2>1 DEF ExchangeInv, LinkInv, Sealed
  <2>5. r.asset_trust.manifest_record = s
    BY <2>3 DEF VerifiedLink, BindingHoldsAt, BindingHolds
  <2> QED
    BY <2>1, <2>3, <2>4, <2>5
<1>4. Delivered =
        {File(text, a) : text \in {"canonical", "other"}, a \in links}
          \cup {File("canonical", Renoted(a, s)) : a \in links, s \in Notes \cup {NoNote}}
          \cup UNION {{File("canonical", Rebound(a, row.record)) :
                          row \in {x \in tables[n] : /\ x.record.schema = "asset_trust_manifest"
                                                     /\ x.record.disclosure = "public"}} :
                        a \in links, n \in Nodes}
  BY DEF Delivered, Renoted, Rebound
<1>5. \/ \E text : \E a \in links : file = File(text, a)
      \/ \E s : \E a \in links : file = File("canonical", Renoted(a, s))
      \/ \E s : \E a \in links : file = File("canonical", Rebound(a, s))
  BY <1>4
<1> QED
  BY <1>2, <1>3, <1>5 DEF File

-----------------------------------------------------------------------------
(* What a step owes the invariant. *)
LEMMA Keeps ==
    ASSUME ExchangeInv, Onward,
           tables' = [n \in Nodes |-> tables'[n]],
           \A n \in Nodes : OwnInv(n)' /\ RowsInv(n)',
           workflow' = [c \in Callers |-> workflow'[c]],
           \A c \in Callers : workflow'[c] \in {workflow[c], Idle} \/ WorkInv(c)',
           \A link \in links' : link \in links \/ LinkInv(link)',
           \A reply \in replies' : reply \in replies \/ ReplyInv(reply)',
           now' <= MaxTime
    PROVE  ExchangeInv'
<1>1. \A link \in links' : LinkInv(link)'
  BY LinkStays DEF ExchangeInv
<1>2. \A reply \in replies' : ReplyInv(reply)'
  BY ReplyStays DEF ExchangeInv
<1>3. ASSUME NEW c \in Callers PROVE WorkInv(c)'
  <2>1. CASE workflow'[c] = workflow[c]
    BY <2>1, WorkStays
  <2>2. CASE workflow'[c] = Idle
    BY <2>2 DEF WorkInv, Idle
  <2> QED
    BY <2>1, <2>2
<1>4. now' \in Nat
  BY DEF Onward
<1> QED
  BY <1>1, <1>2, <1>3, <1>4 DEF ExchangeInv

(* Empty tables and idle callers satisfy the invariant. *)
LEMMA InitHolds == ExchangeInit => ExchangeInv
<1> SUFFICES ASSUME ExchangeInit PROVE ExchangeInv
  OBVIOUS
<1>1. \A n \in Nodes : tables[n] = {}
  BY DEF ExchangeInit
<1>2. \A n \in Nodes : OwnRecords(n) = {} /\ Signed(n) = {}
  BY <1>1 DEF OwnRecords, Signed
<1>3. \A n \in Nodes : OwnInv(n)
  BY <1>2 DEF OwnInv, NoncesDistinct
<1>4. \A n \in Nodes : RowsInv(n)
  BY <1>1, FS_EmptySet DEF RowsInv, RowsUnique
<1>5. \A c \in Callers : WorkInv(c)
  BY DEF ExchangeInit, WorkInv
<1>6. now \in Nat /\ now <= MaxTime
  BY ExchangeAssumption DEF ExchangeInit
<1> QED
  BY <1>3, <1>4, <1>5, <1>6 DEF ExchangeInit, ExchangeInv

-----------------------------------------------------------------------------
(* The records a node signs, field by field.                               *)

(* r is composed of the common fields of a new record of n and of a body.  *)
Composed(r, n, schema, kind, to, shown, at, parent, body) ==
    r = With(Common(n, schema, kind, to, shown, at, parent), body)

(* The common fields of a record a node signs. *)
LEMMA CommonIs ==
    ASSUME NEW n, NEW schema, NEW kind, NEW to, NEW shown, NEW at, NEW parent, NEW r, NEW body,
           Composed(r, n, schema, kind, to, shown, at, parent, body)
    PROVE  /\ r.schema = schema /\ r.authority = Auth(n) /\ r.audience = to
           /\ r.disclosure = shown /\ r.nonce = Cardinality(OwnRecords(n)) + 1
           /\ r.issued_at = at /\ r.expires_at = at + Lifetime[kind] /\ r.parent = parent
           /\ r.signed_by = n /\ r.named_id = "own" /\ r.bytes = 1
<1>1. PICK common : common = Common(n, schema, kind, to, shown, at, parent)
  OBVIOUS
<1>2. DOMAIN common = CommonFields
  BY <1>1 DEF Common, CommonFields
<1>3. /\ common.schema = schema /\ common.authority = Auth(n) /\ common.audience = to
      /\ common.disclosure = shown /\ common.nonce = Cardinality(OwnRecords(n)) + 1
      /\ common.issued_at = at /\ common.expires_at = at + Lifetime[kind]
      /\ common.parent = parent
      /\ common.signed_by = n /\ common.named_id = "own" /\ common.bytes = 1
  BY <1>1 DEF Common, Auth
<1>4. r = [f \in CommonFields \cup DOMAIN body |->
              IF f \in CommonFields THEN common[f] ELSE body[f]]
  BY <1>1, <1>2 DEF With, Composed
<1>5. \A f \in CommonFields : r[f] = common[f]
  BY <1>4
<1>8. /\ r.schema = schema /\ r.authority = Auth(n) /\ r.audience = to
      /\ r.disclosure = shown /\ r.nonce = Cardinality(OwnRecords(n)) + 1
      /\ r.issued_at = at /\ r.expires_at = at + Lifetime[kind] /\ r.parent = parent
      /\ r.signed_by = n /\ r.named_id = "own" /\ r.bytes = 1
  BY <1>3, <1>5 DEF CommonFields
<1> QED
  BY <1>8

(* Whatever a node signs is valid for a while. *)
LEMMA LifetimesAre ==
    \A kind \in {"node", "asset", "request", "intent"} : Lifetime[kind] \in Nat \ {0}
BY RecordsAssumption

(* A record other than an intent, once it is stored. *)
LEMMA SignsPlain ==
    ASSUME ExchangeInv, NEW n \in Nodes, NEW r,
           r.authority = Auth(n), r.nonce = Cardinality(OwnRecords(n)) + 1,
           r.schema \in Schemas, r.schema # "payment_intent",
           r.schema = "node_descriptor" => r.disclosure = "public",
           r.issued_at \in Nat, r.issued_at <= now, r.expires_at \in Nat, r.bytes = 1,
           tables' = [tables EXCEPT ![n] = Appended(n, tables[n], r, "local")],
           links \subseteq links', now' = now
    PROVE  /\ Onward
           /\ tables' = [m \in Nodes |-> tables'[m]]
           /\ \A m \in Nodes : OwnInv(m)' /\ RowsInv(m)'
           /\ r \in Signed(n)'
<1>2. /\ Onward
      /\ tables' = [m \in Nodes |-> tables'[m]]
      /\ Signed(n)' = Signed(n) \cup {r}
      /\ Cardinality(OwnRecords(n)') = Cardinality(OwnRecords(n)) + 1
      /\ \A m \in Nodes : RowsInv(m)'
  BY Signs
<1>3. Own(n, r)'
  <2>1. Cardinality(OwnRecords(n)) \in Nat
    BY OwnRecordsFinite
  <2>2. r.nonce \in 1..Cardinality(OwnRecords(n)')
    BY <1>2, <2>1
  <2> QED
    BY <2>2 DEF Own, Auth
<1>4. \A m \in Nodes : OwnInv(m)'
  BY <1>3, SignsOwn
<1> QED
  BY <1>2, <1>4

-----------------------------------------------------------------------------
(* The steps that sign nothing.                                            *)

(* A call that moves on, or ends, takes nothing from the calls of the others. *)
LEMMA Moves ==
    ASSUME ExchangeInv, NEW c \in Callers, NEW w, workflow' = [workflow EXCEPT ![c] = w],
           w = Idle \/ Carries(Home[c], w)'
    PROVE  /\ workflow' = [d \in Callers |-> workflow'[d]]
           /\ \A d \in Callers : workflow'[d] \in {workflow[d], Idle} \/ WorkInv(d)'
<1>1. workflow' = [d \in Callers |-> IF d = c THEN w ELSE workflow[d]]
  BY DEF ExchangeInv
<1>2. workflow'[c] = w /\ \A d \in Callers : d # c => workflow'[d] = workflow[d]
  BY <1>1
<1>3. workflow' = [d \in Callers |-> workflow'[d]]
  BY <1>1
<1>4. w # Idle => WorkInv(c)'
  BY <1>2 DEF WorkInv
<1> QED
  BY <1>2, <1>3, <1>4

(* A call that changes neither the table nor what was handed out. *)
LEMMA MovesOnly ==
    ASSUME ExchangeInv, NEW c \in Callers, NEW w, workflow' = [workflow EXCEPT ![c] = w],
           Onward => w = Idle \/ Carries(Home[c], w)',
           tables' = tables, links' = links, replies' = replies, now' = now
    PROVE  ExchangeInv'
<1>1. /\ Onward
      /\ tables' = [n \in Nodes |-> tables'[n]]
      /\ \A n \in Nodes : OwnInv(n)' /\ RowsInv(n)'
  BY TablesStay DEF ExchangeInv
<1>2. /\ workflow' = [d \in Callers |-> workflow'[d]]
      /\ \A d \in Callers : workflow'[d] \in {workflow[d], Idle} \/ WorkInv(d)'
  BY <1>1, Moves
<1>3. now' <= MaxTime
  BY DEF ExchangeInv
<1> QED
  BY <1>1, <1>2, <1>3, Keeps

(* What a call carries when its activation starts. *)
LEMMA ActivatingCarries ==
    ASSUME ExchangeInv, Onward, NEW c \in Callers, NEW op \in {"activate", "create", "accept"},
           NEW roles, NEW form, NEW w, w = Activating(c, op, roles, form),
           op = "accept" => AcceptForm(form) /\ form.accepted_at <= now
    PROVE  Carries(Home[c], w)'
<1>1. Home[c] \in Nodes
  BY ExchangeAssumption
<1>2. PICK n \in Nodes : n = Home[c]
  BY <1>1
<1>3. PICK seen : seen = Latest(n)
  OBVIOUS
<1>4. seen = NoRecord \/ seen \in Signed(n)
  BY <1>3, LatestIs
<1>5. PICK t : t = now
  OBVIOUS
<1>6. t \in Nat /\ t <= now'
  BY <1>5 DEF ExchangeInv, Onward
<1>7. w = [phase |-> "activating", op |-> op, roles |-> roles, form |-> form,
           at |-> t, seen |-> seen]
  BY <1>2, <1>3, <1>5 DEF Activating
<1>8. /\ w.phase = "activating" /\ w.op = op /\ w.form = form /\ w.at = t /\ w.seen = seen
  BY <1>7
<1>9. seen = NoRecord \/ seen \in Signed(n)'
  BY <1>4 DEF Onward
<1>10. op = "accept" => AcceptForm(form)' /\ form.accepted_at <= t
  BY <1>5 DEF AcceptForm, Onward
<1> QED
  BY <1>2, <1>6, <1>8, <1>9, <1>10 DEF Carries, Phases

(* POST /v2/local/activate starts a call. *)
LEMMA ActivateNodeKeeps ==
    ASSUME ExchangeInv, NEW c \in Callers, NEW roles, ActivateNode(c, roles)
    PROVE  ExchangeInv'
<1>1. PICK w : w = Activating(c, "activate", roles, <<>>)
  OBVIOUS
<1>2. Onward => Carries(Home[c], w)'
  BY <1>1, ActivatingCarries
<1> QED
  BY <1>1, <1>2, MovesOnly DEF ActivateNode

(* createBitcoinPayLink starts a call. *)
LEMMA CreateBitcoinPayLinkKeeps ==
    ASSUME ExchangeInv, NEW c \in Callers, NEW form, CreateBitcoinPayLink(c, form)
    PROVE  ExchangeInv'
<1>1. PICK w : w = Activating(c, "create", DefaultRoles, form)
  OBVIOUS
<1>2. Onward => Carries(Home[c], w)'
  BY <1>1, ActivatingCarries
<1> QED
  BY <1>1, <1>2, MovesOnly DEF CreateBitcoinPayLink

(* The records of a link, as appendBatch takes them. *)
LEMMA OfferIs ==
    ASSUME NEW link
    PROVE  /\ Len(OfferOf(link)) = 3
           /\ OfferOf(link)[1] = link.descriptor
           /\ OfferOf(link)[2] = link.manifest
           /\ OfferOf(link)[3] = link.request
BY DEF OfferOf

(* Importing an offer adds authentic records of others, and signs nothing. *)
LEMMA OfferImports ==
    ASSUME ExchangeInv, NEW n \in Nodes, NEW link \in links,
           tables' = [tables EXCEPT ![n] = BatchStored(n, OfferOf(link), "remote")],
           links' = links, now' = now
    PROVE  /\ Onward
           /\ tables' = [m \in Nodes |-> tables'[m]]
           /\ \A m \in Nodes : OwnInv(m)' /\ RowsInv(m)'
           /\ \A m \in Nodes : Signed(m)' = Signed(m)
<1>1. PICK records : records = OfferOf(link)
  OBVIOUS
<1>2. Len(records) = 3
  BY <1>1, OfferIs
<1>3. \A i \in 1..3 : Authentic(records[i])
  <2>1. Authentic(records[1]) /\ Authentic(records[2]) /\ Authentic(records[3])
    BY <1>1, OfferIs DEF ExchangeInv, LinkInv
  <2> QED
    BY <2>1
<1>4. Len(records) \in Nat /\ \A i \in 1..Len(records) : Authentic(records[i])
  BY <1>2, <1>3
<1>5. tables' = [tables EXCEPT ![n] = BatchStored(n, records, "remote")]
  BY <1>1
<1> QED
  BY <1>4, <1>5, Imports

(* importPayLink stores what the link carries. *)
LEMMA ImportPayLinkKeeps ==
    ASSUME ExchangeInv, NEW n \in Nodes, NEW file \in Delivered, ImportPayLink(n, file)
    PROVE  ExchangeInv'
<1>1. PICK link : link = file.carrier
  OBVIOUS
<1>2. link \in links
  BY <1>1, DeliveredIsLink DEF ImportPayLink, Offered
<1>3. /\ Onward
      /\ tables' = [m \in Nodes |-> tables'[m]]
      /\ \A m \in Nodes : OwnInv(m)' /\ RowsInv(m)'
  BY <1>1, <1>2, OfferImports DEF ImportPayLink
<1> QED
  BY <1>3, Keeps DEF ImportPayLink, ExchangeInv

(* acceptBitcoinPayLink verifies and imports the offer, then starts to *)
(* answer it.                                                          *)
LEMMA AcceptBitcoinPayLinkKeeps ==
    ASSUME ExchangeInv, NEW c \in Callers, NEW file \in Delivered,
           NEW form, form.source \in SourceAccounts,
           AcceptBitcoinPayLink(c, file, form)
    PROVE  ExchangeInv'
<1>1. PICK link : link = file.carrier
  OBVIOUS
<1>2. link \in links
  BY <1>1, DeliveredIsLink DEF AcceptBitcoinPayLink, Offered
<1>3. PICK n \in Nodes : n = Home[c]
  BY ExchangeAssumption
<1>4. tables' = [tables EXCEPT ![n] = BatchStored(n, OfferOf(link), "remote")]
  BY <1>1, <1>3 DEF AcceptBitcoinPayLink
<1>5. /\ Onward
      /\ tables' = [m \in Nodes |-> tables'[m]]
      /\ \A m \in Nodes : OwnInv(m)' /\ RowsInv(m)'
  BY <1>2, <1>4, OfferImports DEF AcceptBitcoinPayLink
<1>6. PICK answer : answer = [link |-> link, source |-> form.source,
                              max_fee |-> form.max_fee, accepted_at |-> now]
  OBVIOUS
<1>7. PICK w : w = Activating(c, "accept", DefaultRoles, answer)
  OBVIOUS
<1>8. AcceptForm(answer) /\ answer.accepted_at <= now
  BY <1>1, <1>2, <1>6 DEF AcceptForm, AcceptBitcoinPayLink, Offered, ExchangeInv
<1>9. Carries(Home[c], w)'
  BY <1>5, <1>7, <1>8, ActivatingCarries
<1>10. workflow' = [workflow EXCEPT ![c] = w]
  BY <1>1, <1>6, <1>7 DEF AcceptBitcoinPayLink
<1>11. /\ workflow' = [d \in Callers |-> workflow'[d]]
       /\ \A d \in Callers : workflow'[d] \in {workflow[d], Idle} \/ WorkInv(d)'
  BY <1>9, <1>10, Moves
<1> QED
  BY <1>5, <1>11, Keeps DEF AcceptBitcoinPayLink, ExchangeInv

(* The five records of a reply, in the order they are appended. *)
LEMMA AcceptanceRecordsAre ==
    ASSUME NEW reply
    PROVE  /\ Len(AcceptanceRecords(reply)) = 5
           /\ AcceptanceRecords(reply)[1] = reply.link.descriptor
           /\ AcceptanceRecords(reply)[2] = reply.link.manifest
           /\ AcceptanceRecords(reply)[3] = reply.link.request
           /\ AcceptanceRecords(reply)[4] = reply.manifest
           /\ AcceptanceRecords(reply)[5] = reply.intent
BY DEF AcceptanceRecords

(* importPayLinkAcceptance stores what the reply carries. *)
LEMMA ImportPayLinkAcceptanceKeeps ==
    ASSUME ExchangeInv, NEW n \in Nodes, NEW reply \in replies, ImportPayLinkAcceptance(n, reply)
    PROVE  ExchangeInv'
<1>1. PICK records : records = AcceptanceRecords(reply)
  OBVIOUS
<1>2. Len(records) = 5
  BY <1>1, AcceptanceRecordsAre
<1>3. \A i \in 1..5 : Authentic(records[i])
  <2>1. Authentic(records[1]) /\ Authentic(records[2]) /\ Authentic(records[3])
    BY <1>1, AcceptanceRecordsAre DEF ExchangeInv, LinkInv, ReplyInv
  <2>2. Authentic(records[4]) /\ Authentic(records[5])
    BY <1>1, AcceptanceRecordsAre DEF ExchangeInv, ReplyInv
  <2>3. \A i \in 1..5 : i \in {1, 2, 3, 4, 5}
    OBVIOUS
  <2> QED
    BY <2>1, <2>2, <2>3
<1>4. Len(records) \in Nat /\ \A i \in 1..Len(records) : Authentic(records[i])
  BY <1>2, <1>3
<1>5. tables' = [tables EXCEPT ![n] = BatchStored(n, records, "remote")]
  BY <1>1 DEF ImportPayLinkAcceptance
<1>6. /\ Onward
      /\ tables' = [m \in Nodes |-> tables'[m]]
      /\ \A m \in Nodes : OwnInv(m)' /\ RowsInv(m)'
  BY <1>4, <1>5, Imports DEF ImportPayLinkAcceptance
<1> QED
  BY <1>6, Keeps DEF ImportPayLinkAcceptance, ExchangeInv

(* A crash ends calls and takes nothing back. *)
LEMMA NodeCrashKeeps ==
    ASSUME ExchangeInv, NEW n \in Nodes, NodeCrash(n)
    PROVE  ExchangeInv'
<1>1. /\ Onward
      /\ tables' = [m \in Nodes |-> tables'[m]]
      /\ \A m \in Nodes : OwnInv(m)' /\ RowsInv(m)'
  BY TablesStay DEF ExchangeInv, NodeCrash
<1>2. /\ workflow' = [d \in Callers |-> workflow'[d]]
      /\ \A d \in Callers : workflow'[d] \in {workflow[d], Idle}
  BY DEF NodeCrash
<1> QED
  BY <1>1, <1>2, Keeps DEF NodeCrash, ExchangeInv

(* Time passes: only what a call or an intent says of the present is at *)
(* stake.                                                               *)
LEMMA TickKeeps ==
    ASSUME ExchangeInv, Tick
    PROVE  ExchangeInv'
<1>1. now' \in Nat /\ now <= now' /\ now' <= MaxTime
  BY ExchangeAssumption DEF ExchangeInv, Tick
<1>2. /\ Onward
      /\ tables' = [m \in Nodes |-> tables'[m]]
      /\ \A m \in Nodes : OwnInv(m)' /\ RowsInv(m)'
  BY <1>1, TablesStay DEF Tick
<1> QED
  BY <1>1, <1>2, Keeps DEF Tick, ExchangeInv

-----------------------------------------------------------------------------
(* The steps that sign a descriptor, a manifest or a request.              *)

(* What a call under way carries. *)
LEMMA BusyCarries ==
    ASSUME ExchangeInv, NEW c \in Callers, NEW x, x = workflow[c], x.phase # "idle"
    PROVE  Home[c] \in Nodes /\ Carries(Home[c], x)
BY ExchangeAssumption DEF ExchangeInv, WorkInv, Idle

(* A node's own records are authentic. *)
LEMMA SignedIsAuthentic ==
    ASSUME NEW n \in Nodes, OwnInv(n), NEW r \in Signed(n)
    PROVE  Authentic(r)
BY DEF OwnInv, Own, Authentic

(* What a node signed before is not stored again. *)
LEMMA Repeats ==
    ASSUME ExchangeInv, NEW n \in Nodes, NEW r \in Signed(n),
           tables' = [tables EXCEPT ![n] = Appended(n, tables[n], r, "local")]
    PROVE  tables' = tables
<1>1. PICK held : held = tables[n]
  OBVIOUS
<1>2. r \in {row.record : row \in held} /\ IsFiniteSet(held)
  BY <1>1 DEF Signed, OwnRecords, ExchangeInv, RowsInv
<1>3. Appended(n, held, r, "local") = held
  BY <1>2, InsertIs
<1> QED
  BY <1>1, <1>3 DEF ExchangeInv

(* What is handed out as the answer to an offer verifies for its merchant. *)
LEMMA AnsweredIs ==
    ASSUME NEW n, NEW form, NEW i, NEW reply \in Answered(n, form, i),
           now' = now, form.link \in links', Authentic(i)',
           Authentic(i.payment_asset_trust.manifest_record)'
    PROVE  ReplyInv(reply)'
<1>1. PICK m : m = i.payment_asset_trust.manifest_record
  OBVIOUS
<1>2. /\ reply = AcceptanceOf(form.link, i)
      /\ VerifiedReply(reply, now, form.link.request.authority.key_id)
  BY DEF Answered
<1>3. reply = [link |-> form.link, intent |-> i, manifest |-> m]
  BY <1>1, <1>2 DEF AcceptanceOf
<1>4. reply.link = form.link /\ reply.intent = i /\ reply.manifest = m
  BY <1>3
<1>5. reply = AcceptanceOf(reply.link, reply.intent)
  BY <1>2, <1>4
<1>6. Authentic(reply.intent)' /\ Authentic(reply.manifest)'
  BY <1>1, <1>4
<1>7. VerifiedReply(reply, now', reply.link.request.authority.key_id)
  BY <1>2, <1>4
<1> QED
  BY <1>4, <1>5, <1>6, <1>7 DEF ReplyInv

(* So does the answer made from an intent signed earlier. *)
LEMMA IntentsAnswered ==
    ASSUME ExchangeInv, Onward, now' = now, NEW n \in Nodes, NEW form, form.link \in links,
           NEW i \in IntentsOn(n, form.link.request), NEW reply \in Answered(n, form, i)
    PROVE  ReplyInv(reply)'
<1>1. PICK m : m = i.payment_asset_trust.manifest_record
  OBVIOUS
<1>2. Authentic(i) /\ Authentic(m)
  BY <1>1, IntentsOnAre
<1>3. Authentic(i)' /\ Authentic(m)'
  BY <1>2, AuthenticStays
<1>4. form.link \in links'
  BY DEF Onward
<1> QED
  BY <1>1, <1>3, <1>4, AnsweredIs

(* The activation of a call returns: a descriptor is signed or reused. *)
LEMMA ActivatedKeeps ==
    ASSUME ExchangeInv, NEW c \in Callers, Activated(c)
    PROVE  ExchangeInv'
<1>1. PICK x : x = workflow[c]
  OBVIOUS
<1>2. x.phase = "activating"
  BY <1>1 DEF Activated
<1>3. PICK n \in Nodes : n = Home[c]
  BY ExchangeAssumption
<1>4. Carries(n, x)
  BY <1>1, <1>2, <1>3, BusyCarries
<1>5. PICK d : d = IF ReusesSeen(n, x) THEN x.seen ELSE NewDescriptor(n, x.roles, x.at)
  OBVIOUS
<1>6. PICK before : before = IF x.op = "accept" THEN IntentsOn(n, x.form.link.request) ELSE {}
  OBVIOUS
<1>7. /\ tables' = [tables EXCEPT ![n] = Appended(n, tables[n], d, "local")]
      /\ replies' = replies \cup UNION {Answered(n, x.form, i) : i \in before}
      /\ links' = links /\ now' = now
  BY <1>1, <1>3, <1>5, <1>6 DEF Activated
<1>8. PICK w : w = IF x.op = "activate" \/ before # {} THEN Idle
                   ELSE [phase |-> "manifest", op |-> x.op, form |-> x.form,
                         at |-> now, descriptor |-> d]
  OBVIOUS
<1>9. workflow' = [workflow EXCEPT ![c] = w]
  BY <1>1, <1>3, <1>5, <1>6, <1>8 DEF Activated
<1>10. /\ Onward
       /\ tables' = [m \in Nodes |-> tables'[m]]
       /\ \A m \in Nodes : OwnInv(m)' /\ RowsInv(m)'
       /\ d \in Signed(n)'
  <2>1. CASE ReusesSeen(n, x)
    <3>1. d \in Signed(n)
      BY <1>2, <1>4, <1>5, <2>1 DEF ReusesSeen, Carries
    <3>2. tables' = tables
      BY <1>7, <3>1, Repeats
    <3>3. /\ Onward
          /\ tables' = [m \in Nodes |-> tables'[m]]
          /\ \A m \in Nodes : OwnInv(m)' /\ RowsInv(m)'
      BY <1>7, <3>2, TablesStay DEF ExchangeInv
    <3> QED
      BY <3>1, <3>3 DEF Onward
  <2>2. CASE ~ReusesSeen(n, x)
    <3>1. PICK body : body = [roles |-> x.roles,
                 endpoints |-> {[rel |-> rel, path |-> "canonical"] : rel \in EndpointRels}]
      OBVIOUS
    <3>2. Composed(d, n, "node_descriptor", "node", Public, "public", x.at, NoRecord, body)
      BY <1>5, <2>2, <3>1 DEF Composed, NewDescriptor
    <3>3. x.at \in Nat /\ x.at <= now
      BY <1>4 DEF Carries
    <3>4. "node_descriptor" \in Schemas
      BY DEF Schemas, RootSchemas
    <3>5. /\ d.schema = "node_descriptor" /\ d.authority = Auth(n) /\ d.disclosure = "public"
          /\ d.nonce = Cardinality(OwnRecords(n)) + 1
          /\ d.issued_at = x.at /\ d.expires_at = x.at + Lifetime["node"] /\ d.bytes = 1
      BY <3>2, CommonIs
    <3>6. d.expires_at \in Nat
      BY <3>3, <3>5, LifetimesAre
    <3> QED
      BY <1>7, <3>3, <3>4, <3>5, <3>6, SignsPlain
  <2> QED
    BY <2>1, <2>2
<1>11. w = Idle \/ Carries(n, w)'
  <2> SUFFICES ASSUME w # Idle PROVE Carries(n, w)'
    OBVIOUS
  <2>1. PICK t : t = now
    OBVIOUS
  <2>2. /\ w = [phase |-> "manifest", op |-> x.op, form |-> x.form, at |-> t, descriptor |-> d]
        /\ x.op # "activate"
    BY <1>8, <2>1
  <2>3. /\ w.phase = "manifest" /\ w.op = x.op /\ w.form = x.form
        /\ w.at = t /\ w.descriptor = d
    BY <2>2
  <2>4. x.op = "accept" => AcceptForm(x.form)' /\ x.form.accepted_at <= t
    BY <1>4, <1>7, <2>1 DEF Carries, AcceptForm, ExchangeInv
  <2>5. t \in Nat /\ t <= now'
    BY <1>7, <2>1 DEF ExchangeInv
  <2> QED
    BY <1>4, <1>10, <2>2, <2>3, <2>4, <2>5 DEF Carries, Phases
<1>12. /\ workflow' = [e \in Callers |-> workflow'[e]]
       /\ \A e \in Callers : workflow'[e] \in {workflow[e], Idle} \/ WorkInv(e)'
  BY <1>3, <1>9, <1>11, Moves
<1>13. ASSUME NEW reply \in replies', reply \notin replies PROVE ReplyInv(reply)'
  <2>1. PICK i \in before : reply \in Answered(n, x.form, i)
    BY <1>7, <1>13
  <2>2. PICK form : form = x.form
    OBVIOUS
  <2>3. form.link \in links /\ i \in IntentsOn(n, form.link.request)
    BY <1>4, <1>6, <2>2 DEF Carries, AcceptForm
  <2> QED
    BY <1>7, <1>10, <2>1, <2>2, <2>3, IntentsAnswered
<1> QED
  BY <1>7, <1>10, <1>12, <1>13, Keeps DEF ExchangeInv

(* A call signs the asset manifest its records will name. *)
LEMMA ManifestAppendedKeeps ==
    ASSUME ExchangeInv, NEW c \in Callers, ManifestAppended(c)
    PROVE  ExchangeInv'
<1>1. PICK x : x = workflow[c]
  OBVIOUS
<1>2. x.phase = "manifest"
  BY <1>1 DEF ManifestAppended
<1>3. PICK n \in Nodes : n = Home[c]
  BY ExchangeAssumption
<1>4. Carries(n, x)
  BY <1>1, <1>2, <1>3, BusyCarries
<1>5. PICK to, shown, assessed :
          /\ to = IF x.op = "create" THEN Public ELSE x.form.link.request.authority.key_id
          /\ shown = IF x.op = "create" THEN "public" ELSE "private"
          /\ assessed = IF x.op = "create" THEN x.at ELSE x.form.accepted_at
  OBVIOUS
<1>6. PICK m : m = NewManifest(n, to, shown, assessed, x.at)
  OBVIOUS
<1>7. PICK t : t = now
  OBVIOUS
<1>8. PICK w : w = [phase |-> "checking", op |-> x.op, form |-> x.form, at |-> t,
                    descriptor |-> x.descriptor, manifest |-> m]
  OBVIOUS
<1>9. m = IF x.op = "create" THEN NewManifest(n, Public, "public", x.at, x.at)
          ELSE NewManifest(n, x.form.link.request.authority.key_id, "private",
                           x.form.accepted_at, x.at)
  BY <1>5, <1>6
<1>10. /\ tables' = [tables EXCEPT ![n] = Appended(n, tables[n], m, "local")]
       /\ workflow' = [workflow EXCEPT ![c] = w]
       /\ replies' = replies /\ links' = links /\ now' = now
  BY <1>1, <1>3, <1>7, <1>8, <1>9 DEF ManifestAppended
<1>11. PICK body : body = [manifest |-> BitcoinManifest(assessed)]
  OBVIOUS
<1>12. Composed(m, n, "asset_trust_manifest", "asset", to, shown, x.at, NoRecord, body)
  BY <1>6, <1>11 DEF Composed, NewManifest
<1>13. /\ Onward
       /\ tables' = [k \in Nodes |-> tables'[k]]
       /\ \A k \in Nodes : OwnInv(k)' /\ RowsInv(k)'
       /\ m \in Signed(n)'
  <2>1. x.at \in Nat /\ x.at <= now
    BY <1>4 DEF Carries
  <2>2. "asset_trust_manifest" \in Schemas
    BY DEF Schemas, RootSchemas
  <2>3. /\ m.schema = "asset_trust_manifest" /\ m.authority = Auth(n)
        /\ m.nonce = Cardinality(OwnRecords(n)) + 1
        /\ m.issued_at = x.at /\ m.expires_at = x.at + Lifetime["asset"] /\ m.bytes = 1
    BY <1>12, CommonIs
  <2>4. m.expires_at \in Nat
    BY <2>1, <2>3, LifetimesAre
  <2> QED
    BY <1>10, <2>1, <2>2, <2>3, <2>4, SignsPlain
<1>14. m.audience = to /\ m.disclosure = shown
  BY <1>12, CommonIs
<1>15. Carries(n, w)'
  <2>1. /\ w.phase = "checking" /\ w.op = x.op /\ w.form = x.form
        /\ w.at = t /\ w.descriptor = x.descriptor /\ w.manifest = m
    BY <1>8
  <2>2. x.op = "accept" => AcceptForm(x.form)' /\ x.form.accepted_at <= t
    BY <1>4, <1>7, <1>10 DEF Carries, AcceptForm, ExchangeInv
  <2>3. t \in Nat /\ t <= now'
    BY <1>7, <1>10 DEF ExchangeInv
  <2>4. x.op \in {"create", "accept"} /\ (x.op = "create" => x.descriptor \in Signed(n)')
    BY <1>2, <1>4, <1>13 DEF Carries, Onward
  <2>5. x.op = "accept" => /\ m.disclosure = "private"
                           /\ m.audience = x.form.link.request.authority.key_id
    BY <1>5, <1>14
  <2> QED
    BY <1>13, <2>1, <2>2, <2>3, <2>4, <2>5 DEF Carries, Phases
<1>16. /\ workflow' = [e \in Callers |-> workflow'[e]]
       /\ \A e \in Callers : workflow'[e] \in {workflow[e], Idle} \/ WorkInv(e)'
  BY <1>3, <1>10, <1>15, Moves
<1> QED
  BY <1>10, <1>13, <1>16, Keeps DEF ExchangeInv

(* createPaymentRequest verifies the manifest it is to name. *)
LEMMA RequestCheckedKeeps ==
    ASSUME ExchangeInv, NEW c \in Callers, RequestChecked(c)
    PROVE  ExchangeInv'
<1>1. PICK x : x = workflow[c]
  OBVIOUS
<1>2. x.phase = "checking" /\ x.op = "create"
  BY <1>1 DEF RequestChecked
<1>3. PICK n \in Nodes : n = Home[c]
  BY ExchangeAssumption
<1>4. Carries(n, x)
  BY <1>1, <1>2, <1>3, BusyCarries
<1>5. PICK latest : latest = Latest(n)
  OBVIOUS
<1>6. PICK v : v = [phase |-> "signing", op |-> "create", form |-> x.form, at |-> x.at,
                    descriptor |-> x.descriptor, manifest |-> x.manifest, parent |-> latest]
  OBVIOUS
<1>7. workflow' = [workflow EXCEPT ![c] = v] \/ workflow' = [workflow EXCEPT ![c] = Idle]
  BY <1>1, <1>3, <1>5, <1>6 DEF RequestChecked
<1>8. ASSUME Onward PROVE Carries(n, v)'
  <2>1. /\ v.phase = "signing" /\ v.op = "create" /\ v.form = x.form
        /\ v.at = x.at /\ v.descriptor = x.descriptor /\ v.manifest = x.manifest
    BY <1>6
  <2>2. x.at \in Nat /\ x.at <= now'
    BY <1>4, <1>8 DEF Carries, Onward, ExchangeInv
  <2>3. x.descriptor \in Signed(n)' /\ x.manifest \in Signed(n)'
    BY <1>2, <1>4, <1>8 DEF Carries, Onward
  <2> QED
    BY <2>1, <2>2, <2>3 DEF Carries, Phases
<1>9. tables' = tables /\ links' = links /\ replies' = replies /\ now' = now
  BY DEF RequestChecked
<1>10. CASE workflow' = [workflow EXCEPT ![c] = v]
  BY <1>3, <1>8, <1>9, <1>10, MovesOnly
<1>11. CASE workflow' = [workflow EXCEPT ![c] = Idle]
  BY <1>9, <1>11, MovesOnly
<1> QED
  BY <1>7, <1>10, <1>11

(* createPaymentIntent verifies the request and its manifest, or finds the *)
(* answer signed earlier.                                                  *)
LEMMA IntentCheckedKeeps ==
    ASSUME ExchangeInv, NEW c \in Callers, IntentChecked(c)
    PROVE  ExchangeInv'
<1>1. PICK x : x = workflow[c]
  OBVIOUS
<1>2. x.phase = "checking" /\ x.op = "accept"
  BY <1>1 DEF IntentChecked
<1>3. PICK n \in Nodes : n = Home[c]
  BY ExchangeAssumption
<1>4. Carries(n, x)
  BY <1>1, <1>2, <1>3, BusyCarries
<1>5. PICK v : v = [phase |-> "signing", op |-> "accept", form |-> x.form,
                    at |-> x.at, manifest |-> x.manifest]
  OBVIOUS
<1>6. /\ v.phase = "signing" /\ v.op = "accept" /\ v.form = x.form
      /\ v.at = x.at /\ v.manifest = x.manifest
  BY <1>5
<1>7. \/ workflow' = [workflow EXCEPT ![c] = v] /\ IntentReady(v)
      \/ workflow' = [workflow EXCEPT ![c] = Idle]
  <2>1. PICK request : request = x.form.link.request
    OBVIOUS
  <2>2. \/ /\ workflow' = [workflow EXCEPT ![c] = v]
           /\ VerifiedAt(request, x.at)
           /\ Trusts(n, x.manifest, request.asset_id, request.rail, x.at)
        \/ workflow' = [workflow EXCEPT ![c] = Idle]
    BY <1>1, <1>3, <1>5, <2>1 DEF IntentChecked
  <2> QED
    BY <1>6, <2>1, <2>2 DEF IntentReady, Trusts
<1>8. ASSUME Onward, IntentReady(v) PROVE Carries(n, v)'
  <2>1. x.at \in Nat /\ x.at <= now'
    BY <1>4, <1>8 DEF Carries, Onward, ExchangeInv
  <2>2. x.manifest \in Signed(n)'
    BY <1>2, <1>4, <1>8 DEF Carries, Onward
  <2>3. AcceptForm(x.form)' /\ x.form.accepted_at <= x.at
    BY <1>2, <1>4, <1>8 DEF Carries, Onward, AcceptForm
  <2>4. /\ x.manifest.disclosure = "private"
        /\ x.manifest.audience = x.form.link.request.authority.key_id
    BY <1>2, <1>4 DEF Carries
  <2>5. IntentReady(v)'
    BY <1>8 DEF IntentReady
  <2> QED
    BY <1>6, <2>1, <2>2, <2>3, <2>4, <2>5 DEF Carries, Phases
<1>9. tables' = tables /\ links' = links /\ replies' = replies /\ now' = now
  BY DEF IntentChecked
<1>10. CASE workflow' = [workflow EXCEPT ![c] = v] /\ IntentReady(v)
  BY <1>3, <1>8, <1>9, <1>10, MovesOnly
<1>11. CASE workflow' = [workflow EXCEPT ![c] = Idle]
  BY <1>9, <1>11, MovesOnly
<1> QED
  BY <1>7, <1>10, <1>11

(* What verifies as a pay link is bound together by its request. *)
LEMMA VerifiedIsSealed ==
    ASSUME NEW link, NEW t, NEW pin, VerifiedLink(link, t, pin)
    PROVE  /\ Sealed(link)
           /\ SameAuthority(link.request.authority, link.descriptor.authority)
<1>1. link.request.purpose_hash = PurposeHash(link.purpose)
  BY DEF VerifiedLink
<1>2. RequestLink(link.request, link.descriptor)
  BY DEF VerifiedLink, Linked
<1>3. link.request.asset_trust.manifest_record = link.manifest
  BY DEF VerifiedLink, BindingHoldsAt, BindingHolds
<1> QED
  BY <1>1, <1>2, <1>3 DEF Sealed, RequestLink, ParentOf

(* The request is signed and its link handed out, or refused. *)
LEMMA RequestAppendedKeeps ==
    ASSUME ExchangeInv, NEW c \in Callers, RequestAppended(c)
    PROVE  ExchangeInv'
<1>1. PICK x : x = workflow[c]
  OBVIOUS
<1>2. x.phase = "signing" /\ x.op = "create"
  BY <1>1 DEF RequestAppended
<1>3. PICK n \in Nodes : n = Home[c]
  BY ExchangeAssumption
<1>4. Carries(n, x)
  BY <1>1, <1>2, <1>3, BusyCarries
<1>5. PICK r : r = NewRequest(n, x.form, x.parent, x.manifest, x.at)
  OBVIOUS
<1>6. PICK purpose : purpose = [note |-> x.form.note, reply_to |-> "offline"]
  OBVIOUS
<1>7. PICK link : link = [purpose |-> purpose, descriptor |-> x.descriptor,
                          manifest |-> x.manifest, request |-> r]
  OBVIOUS
<1>8. /\ \/ /\ tables' = [tables EXCEPT ![n] = Appended(n, tables[n], r, "local")]
            /\ \/ links' = links
               \/ /\ links' = links \cup {link}
                  /\ VerifiedLink(link, now, NoRecord) /\ BitcoinOffer(link)
         \/ tables' = tables /\ links' = links
      /\ workflow' = [workflow EXCEPT ![c] = Idle]
      /\ replies' = replies /\ now' = now
  BY <1>1, <1>3, <1>5, <1>6, <1>7 DEF RequestAppended
<1>9. /\ workflow' = [e \in Callers |-> workflow'[e]]
      /\ \A e \in Callers : workflow'[e] \in {workflow[e], Idle} \/ WorkInv(e)'
  BY <1>8, Moves
<1>10. CASE tables' = tables /\ links' = links
  <2>1. /\ Onward
        /\ tables' = [m \in Nodes |-> tables'[m]]
        /\ \A m \in Nodes : OwnInv(m)' /\ RowsInv(m)'
    BY <1>8, <1>10, TablesStay DEF ExchangeInv
  <2> QED
    BY <1>8, <1>9, <1>10, <2>1, Keeps DEF ExchangeInv
<1>11. CASE tables' = [tables EXCEPT ![n] = Appended(n, tables[n], r, "local")]
  <2>1. PICK body : body = With(OfferTerms(x.form),
                                [purpose_hash |-> PurposeHash(purpose),
                                 asset_trust |-> BindingTo(x.manifest)])
    OBVIOUS
  <2>2. Composed(r, n, "payment_request", "request", Public, "public", x.at, x.parent, body)
    BY <1>5, <1>6, <2>1 DEF Composed, NewRequest
  <2>3. x.at \in Nat /\ x.at <= now
    BY <1>4 DEF Carries
  <2>4. /\ r.schema = "payment_request" /\ r.authority = Auth(n)
        /\ r.nonce = Cardinality(OwnRecords(n)) + 1
        /\ r.issued_at = x.at /\ r.expires_at = x.at + Lifetime["request"] /\ r.bytes = 1
    BY <2>2, CommonIs
  <2>5. r.expires_at \in Nat
    BY <2>3, <2>4, LifetimesAre
  <2>6. "payment_request" \in Schemas
    BY DEF Schemas
  <2>7. links \subseteq links'
    BY <1>8
  <2>8. /\ Onward
        /\ tables' = [m \in Nodes |-> tables'[m]]
        /\ \A m \in Nodes : OwnInv(m)' /\ RowsInv(m)'
        /\ r \in Signed(n)'
    BY <1>8, <1>11, <2>3, <2>4, <2>5, <2>6, <2>7, SignsPlain
  <2>9. ASSUME NEW new \in links', new \notin links PROVE LinkInv(new)'
    <3>1. new = link /\ VerifiedLink(link, now, NoRecord) /\ BitcoinOffer(link)
      BY <1>8, <2>9
    <3>2. Sealed(link)
      BY <3>1, VerifiedIsSealed
    <3>3. x.descriptor \in Signed(n)' /\ x.manifest \in Signed(n)'
      BY <1>2, <1>4, <2>8 DEF Carries, Onward
    <3>4. Authentic(x.descriptor)' /\ Authentic(x.manifest)' /\ Authentic(r)'
      BY <2>8, <3>3 DEF OwnInv, Own, Authentic
    <3>5. /\ link.descriptor = x.descriptor /\ link.manifest = x.manifest
          /\ link.request = r /\ link.purpose = purpose
      BY <1>7
    <3>6. \E t, to : link.purpose = [note |-> t, reply_to |-> to]
      BY <1>6, <3>5
    <3>7. \E p, d, m, q :
             link = [purpose |-> p, descriptor |-> d, manifest |-> m, request |-> q]
      BY <1>7
    <3> QED
      BY <3>1, <3>2, <3>4, <3>5, <3>6, <3>7 DEF LinkInv, Sealed
  <2> QED
    BY <1>8, <1>9, <2>8, <2>9, Keeps DEF ExchangeInv
<1> QED
  BY <1>8, <1>10, <1>11

-----------------------------------------------------------------------------
(* The step that signs an intent.                                          *)

FieldsOf(r) == DOMAIN r

(* The fields of an intent as createPaymentIntent writes it. *)
LEMMA IntentIs ==
    ASSUME NEW n, NEW form, NEW request, NEW manifest, NEW at,
           NEW i, i = NewIntent(n, form, request, manifest, at)
    PROVE  /\ FieldsOf(i) = CommonFields \cup BodyFields["payment_intent"]
           /\ i.schema = "payment_intent" /\ i.authority = Auth(n)
           /\ i.audience = request.authority.key_id /\ i.disclosure = "private"
           /\ i.nonce = Cardinality(OwnRecords(n)) + 1
           /\ i.issued_at = at /\ i.expires_at = at + Lifetime["intent"] /\ i.parent = request
           /\ i.signed_by = n /\ i.named_id = "own" /\ i.bytes = 1
           /\ i.rail = request.rail /\ i.asset_id = request.asset_id
           /\ i.amount_atomic = request.amount_atomic
           /\ i.source_account = ParsedAddress(form.source)
           /\ i.fee_asset_id = BitcoinAsset /\ i.max_fee_atomic = form.max_fee
           /\ i.payment_asset_trust = BindingTo(manifest)
           /\ i.fee_asset_trust = BindingTo(manifest)
<1>1. PICK common : common = Common(n, "payment_intent", "intent", request.authority.key_id,
                                    "private", at, request)
  OBVIOUS
<1>2. PICK body :
        body = [rail |-> request.rail, destination |-> request.destination,
          asset_id |-> request.asset_id, amount_atomic |-> request.amount_atomic,
          source_account |-> ParsedAddress(form.source), fee_asset_id |-> BitcoinAsset,
          max_fee_atomic |-> form.max_fee,
          payment_asset_trust |-> BindingTo(manifest),
          fee_asset_trust |-> BindingTo(manifest)]
  OBVIOUS
<1>3. i = With(common, body)
  BY <1>1, <1>2 DEF NewIntent
<1>4. Composed(i, n, "payment_intent", "intent", request.authority.key_id, "private",
               at, request, body)
  BY <1>1, <1>3 DEF Composed
<1>5. /\ i.schema = "payment_intent" /\ i.authority = Auth(n)
      /\ i.audience = request.authority.key_id /\ i.disclosure = "private"
      /\ i.nonce = Cardinality(OwnRecords(n)) + 1
      /\ i.issued_at = at /\ i.expires_at = at + Lifetime["intent"] /\ i.parent = request
      /\ i.signed_by = n /\ i.named_id = "own" /\ i.bytes = 1
  BY <1>4, CommonIs
<1>6. DOMAIN common = CommonFields
  BY <1>1 DEF Common, CommonFields
<1>7. DOMAIN body = BodyFields["payment_intent"]
  BY <1>2 DEF BodyFields, Terms, Spending
<1>8. i = [f \in CommonFields \cup BodyFields["payment_intent"] |->
             IF f \in CommonFields THEN common[f] ELSE body[f]]
  BY <1>3, <1>6, <1>7 DEF With
<1>9. \A f \in BodyFields["payment_intent"] : f \notin CommonFields
  BY DEF BodyFields, Terms, Spending, CommonFields
<1>10. \A f \in BodyFields["payment_intent"] : i[f] = body[f]
  BY <1>8, <1>9
<1>11. /\ "rail" \in BodyFields["payment_intent"]
       /\ "asset_id" \in BodyFields["payment_intent"]
       /\ "amount_atomic" \in BodyFields["payment_intent"]
       /\ "source_account" \in BodyFields["payment_intent"]
       /\ "fee_asset_id" \in BodyFields["payment_intent"]
       /\ "max_fee_atomic" \in BodyFields["payment_intent"]
       /\ "payment_asset_trust" \in BodyFields["payment_intent"]
       /\ "fee_asset_trust" \in BodyFields["payment_intent"]
  BY DEF BodyFields, Terms, Spending
<1>12. /\ i.rail = body.rail /\ i.asset_id = body.asset_id
       /\ i.amount_atomic = body.amount_atomic
       /\ i.source_account = body.source_account
       /\ i.fee_asset_id = body.fee_asset_id /\ i.max_fee_atomic = body.max_fee_atomic
       /\ i.payment_asset_trust = body.payment_asset_trust
       /\ i.fee_asset_trust = body.fee_asset_trust
  BY <1>10, <1>11
<1>13. /\ i.rail = request.rail /\ i.asset_id = request.asset_id
       /\ i.amount_atomic = request.amount_atomic
       /\ i.source_account = ParsedAddress(form.source)
       /\ i.fee_asset_id = BitcoinAsset /\ i.max_fee_atomic = form.max_fee
       /\ i.payment_asset_trust = BindingTo(manifest)
       /\ i.fee_asset_trust = BindingTo(manifest)
  BY <1>2, <1>12
<1>14. FieldsOf(i) = CommonFields \cup BodyFields["payment_intent"]
  BY <1>8 DEF FieldsOf
<1> QED
  BY <1>5, <1>13, <1>14

(* What append() found when it took a new record of the node's own. *)
LEMMA OwnAdmitted ==
    ASSUME ExchangeInv, NEW n \in Nodes, NEW r, r.authority = Auth(n), r \notin Signed(n),
           r.parent # NoRecord, RefusalAt(n, tables[n], r, "local") = "none"
    PROVE  /\ Linked(r, r.parent)
           /\ r.schema = "payment_intent" =>
                 \A x \in Signed(n) : x.schema = "payment_intent" => x.parent # r.parent
<1>1. PICK held : held = tables[n]
  OBVIOUS
<1>2. PICK e : e = [record |-> r, source |-> "local"]
  OBVIOUS
<1>3. e.record = r /\ e.source = "local"
  BY <1>2
<1>4. \A row \in held : row.record # r
  BY <1>1 DEF ExchangeInv, RowsInv, Signed, OwnRecords
<1>5. ~Store(n)!Redelivered(held, e)
  BY <1>3, <1>4 DEF Store!Redelivered, Store!Stored
<1>6. Store(n)!Refusal(held, Used(held), e) = "none"
  BY <1>1, <1>2, <1>5 DEF RefusalAt
<1>7. ~Store(n)!BrokenLink(r) /\ ~Store(n)!Rival(held, r)
  BY <1>3, <1>6 DEF Store!Refusal
<1>8. Linked(r, r.parent)
  BY <1>7, SameLinked DEF Store!BrokenLink
<1>9. ASSUME NEW x \in Signed(n), r.schema = "payment_intent",
             x.schema = "payment_intent", x.parent = r.parent
      PROVE  FALSE
  <2>1. x.authority = Auth(n)
    BY DEF ExchangeInv, OwnInv, Own
  <2>2. x \in {row.record : row \in held}
    BY <1>1 DEF Signed, OwnRecords
  <2> QED
    BY <1>7, <1>9, <2>1, <2>2 DEF Store!Rival, Store!Stored
<1> QED
  BY <1>8, <1>9

(* A link that verified keeps its verdict while its records are active. *)
LEMMA LinkLater ==
    ASSUME NEW link, NEW s \in Int, NEW t \in Int, s <= t, VerifiedLink(link, s, NoRecord),
           VerifiedAt(link.request, t),
           \A r \in LinkRecords(link) : r.issued_at \in Int /\ r.expires_at \in Int,
           t < link.descriptor.expires_at, t < link.manifest.expires_at
    PROVE  VerifiedLink(link, t, link.request.authority.key_id)
<1>1. /\ VerifiedAt(link.descriptor, s) /\ VerifiedAt(link.manifest, s)
      /\ link.descriptor.issued_at \in Int /\ link.manifest.issued_at \in Int
  BY DEF VerifiedLink, LinkRecords
<1>2. VerifiedAt(link.descriptor, t)
  BY <1>1 DEF VerifiedAt, ActiveAt
<1>3. VerifiedAt(link.manifest, t)
  BY <1>1 DEF VerifiedAt, ActiveAt
<1>4. \A r \in LinkRecords(link) : VerifiedAt(r, t)
  BY <1>2, <1>3 DEF LinkRecords
<1>5. link.request.authority.key_id = link.descriptor.authority.key_id
  BY VerifiedIsSealed DEF SameAuthority
<1>6. BindingHoldsAt(link.request.asset_trust, link.manifest,
                     link.request.asset_id, link.request.rail, t)
  BY <1>3 DEF VerifiedLink, BindingHoldsAt
<1> QED
  BY <1>4, <1>5, <1>6 DEF VerifiedLink

(* Five records of one byte weigh at most five. *)
Light(S) == IsFiniteSet(S) /\ SumOfBytes(S) \in Nat /\ \A r \in S : r.bytes = 1

(* One more light record weighs one more. *)
LEMMA OneMore ==
    ASSUME NEW S, Light(S), NEW new, new.bytes = 1, NEW T, T = S \cup {new}
    PROVE  Light(T) /\ SumOfBytes(T) <= SumOfBytes(S) + 1
<1>1. CASE new \in S
  <2>1. T = S
    BY <1>1
  <2> QED
    BY <2>1 DEF Light
<1>2. CASE new \notin S
  <2>1. \A r \in T : r.bytes = 1
    BY DEF Light
  <2>2. \A r \in S \cup {new} : r.bytes \in Nat
    BY <2>1
  <2>3. IsFiniteSet(S) /\ SumOfBytes(S) \in Nat
    BY DEF Light
  <2>4. SumOfBytes(S \cup {new}) = SumOfBytes(S) + new.bytes
    BY <1>2, <2>2, <2>3, SizeAdd
  <2>5. IsFiniteSet(T)
    BY <2>3, FS_AddElement
  <2> QED
    BY <2>1, <2>3, <2>4, <2>5 DEF Light
<1> QED
  BY <1>1, <1>2

(* Five light records weigh five at most. *)
LEMMA FiveWeigh ==
    ASSUME NEW a, NEW b, NEW c, NEW d, NEW e,
           a.bytes = 1, b.bytes = 1, c.bytes = 1, d.bytes = 1, e.bytes = 1
    PROVE  SumOfBytes({a, b, c, d, e}) \in Nat /\ SumOfBytes({a, b, c, d, e}) <= 5
<1>0. PICK E : E = {}
  OBVIOUS
<1>a. Light(E) /\ SumOfBytes(E) = 0
  BY <1>0, FS_EmptySet, SizeEmpty DEF Light
<1>1. PICK A : A = E \cup {a}
  OBVIOUS
<1>b. Light(A) /\ SumOfBytes(A) <= SumOfBytes(E) + 1
  BY <1>1, <1>a, OneMore
<1>2. PICK B : B = A \cup {b}
  OBVIOUS
<1>c. Light(B) /\ SumOfBytes(B) <= SumOfBytes(A) + 1
  BY <1>2, <1>b, OneMore
<1>3. PICK C : C = B \cup {c}
  OBVIOUS
<1>d. Light(C) /\ SumOfBytes(C) <= SumOfBytes(B) + 1
  BY <1>3, <1>c, OneMore
<1>4. PICK D : D = C \cup {d}
  OBVIOUS
<1>e. Light(D) /\ SumOfBytes(D) <= SumOfBytes(C) + 1
  BY <1>4, <1>d, OneMore
<1>5. PICK F : F = D \cup {e}
  OBVIOUS
<1>f. Light(F) /\ SumOfBytes(F) <= SumOfBytes(D) + 1
  BY <1>5, <1>e, OneMore
<1>6. SumOfBytes(F) \in Nat /\ SumOfBytes(F) <= 5
  BY <1>a, <1>b, <1>c, <1>d, <1>e, <1>f DEF Light
<1>7. F = {a, b, c, d, e}
  BY <1>0, <1>1, <1>2, <1>3, <1>4, <1>5
<1> QED
  BY <1>6, <1>7

(* One more element. *)
LEMMA Adds ==
    ASSUME NEW A, IsFiniteSet(A), NEW new, NEW B, B = A \cup {new}
    PROVE  /\ IsFiniteSet(B)
           /\ new \notin A => Cardinality(B) = Cardinality(A) + 1
BY FS_AddElement

(* The fields of a trust binding. *)
LEMMA BindingToIs ==
    ASSUME NEW manifest
    PROVE  /\ BindingTo(manifest).manifest_record = manifest
           /\ BindingTo(manifest).manifest_authority = manifest.authority.key_id
           /\ BindingTo(manifest).policy = FailClosed
BY DEF BindingTo

(* The source account of an intent is spelled canonically. *)
LEMMA CanonicalSource ==
    ASSUME NEW source \in SourceAccounts, ValidAddress(source)
    PROVE  CanonicalAddress(ParsedAddress(source))
<1>1. source \in [type : STRING, spelling : STRING]
  BY RecordsAssumption
<1>2. PICK parsed : parsed = ParsedAddress(source)
  OBVIOUS
<1>3. parsed = [type |-> source.type, spelling |-> "canonical"]
  BY <1>1, <1>2 DEF ParsedAddress
<1>4. ParsedAddress(parsed) = [type |-> source.type, spelling |-> "canonical"]
  BY <1>3 DEF ParsedAddress
<1>5. parsed.type = source.type
  BY <1>3
<1> QED
  BY <1>2, <1>3, <1>4, <1>5 DEF CanonicalAddress, ValidAddress

(* The situation of the lemmas below: the answer x of n to a link is about *)
(* to be signed as the intent i.                                           *)
Signing(n, x, link, i) ==
    /\ Carries(n, x) /\ x.phase = "signing" /\ x.op = "accept"
    /\ link = x.form.link
    /\ i = NewIntent(n, x.form, link.request, x.manifest, x.at)

(* What is known of a call about to sign an intent. *)
LEMMA SigningIs ==
    ASSUME ExchangeInv, NEW n \in Nodes, NEW x, NEW link, NEW i, Signing(n, x, link, i)
    PROVE  /\ link \in links /\ LinkInv(link)
           /\ VerifiedLink(link, x.form.accepted_at, NoRecord)
           /\ x.form.accepted_at \in Nat /\ x.form.accepted_at <= x.at
           /\ x.at \in Nat /\ x.at <= now
           /\ x.form.source \in SourceAccounts /\ ValidAddress(x.form.source)
           /\ ValidMaxFee(x.form.max_fee)
           /\ x.manifest \in Signed(n) /\ Authentic(x.manifest)
           /\ x.manifest.disclosure = "private"
           /\ x.manifest.audience = link.request.authority.key_id
           /\ VerifiedAt(link.request, x.at)
           /\ BindingHoldsAt(BindingTo(x.manifest), x.manifest,
                             link.request.asset_id, link.request.rail, x.at)
<1>1. /\ AcceptForm(x.form) /\ x.form.accepted_at <= x.at /\ link = x.form.link
      /\ x.manifest \in Signed(n) /\ x.manifest.disclosure = "private"
      /\ x.manifest.audience = link.request.authority.key_id
      /\ x.at \in Nat /\ x.at <= now
      /\ IntentReady(x)
  BY DEF Signing, Carries
<1>2. Authentic(x.manifest)
  BY <1>1, SignedIsAuthentic DEF ExchangeInv
<1>3. /\ VerifiedAt(link.request, x.at)
      /\ BindingHoldsAt(BindingTo(x.manifest), x.manifest,
                        link.request.asset_id, link.request.rail, x.at)
  BY <1>1 DEF IntentReady
<1>4. link \in links /\ LinkInv(link)
  BY <1>1 DEF AcceptForm, ExchangeInv
<1> QED
  BY <1>1, <1>2, <1>3, <1>4 DEF AcceptForm

(* The intent it signs verifies. *)
LEMMA IntentVerifies ==
    ASSUME ExchangeInv, NEW n \in Nodes, NEW x, NEW link, NEW i, Signing(n, x, link, i)
    PROVE  VerifiedAt(i, x.at)
<1>1. PICK request : request = link.request
  OBVIOUS
<1>2. /\ Authentic(request)
      /\ VerifiedAt(request, x.at) /\ x.at \in Nat
      /\ BindingHoldsAt(BindingTo(x.manifest), x.manifest, request.asset_id, request.rail, x.at)
      /\ request.schema = "payment_request"
      /\ ValidMaxFee(x.form.max_fee)
  BY <1>1, SigningIs DEF LinkInv, VerifiedLink
<1>3. /\ FieldsOf(i) = CommonFields \cup BodyFields["payment_intent"]
      /\ i.schema = "payment_intent" /\ i.authority = Auth(n)
      /\ i.audience = request.authority.key_id /\ i.disclosure = "private"
      /\ i.issued_at = x.at /\ i.expires_at = x.at + Lifetime["intent"] /\ i.parent = request
      /\ i.signed_by = n /\ i.named_id = "own" /\ i.bytes = 1
      /\ i.amount_atomic = request.amount_atomic
      /\ i.max_fee_atomic = x.form.max_fee
      /\ i.payment_asset_trust = BindingTo(x.manifest)
      /\ i.fee_asset_trust = BindingTo(x.manifest)
  <2>1. i = NewIntent(n, x.form, request, x.manifest, x.at)
    BY <1>1 DEF Signing
  <2> QED
    BY <2>1, IntentIs
<1>4. /\ i.expires_at > i.issued_at
      /\ i.expires_at - i.issued_at <= MaxLifetime["payment_intent"]
      /\ i.issued_at <= x.at /\ x.at < i.expires_at
  <2>1. Lifetime["intent"] \in Nat \ {0} /\ Lifetime["intent"] <= MaxLifetime["payment_intent"]
    BY LifetimesAre, RecordsAssumption
  <2>2. PICK life \in Nat \ {0} : life = Lifetime["intent"]
    BY <2>1
  <2>3. i.expires_at - i.issued_at = life
    BY <1>2, <1>3, <2>2
  <2> QED
    BY <1>2, <1>3, <2>1, <2>2, <2>3
<1>5. ValidCommon(i)
  <2>1. SelfCertifying(i.authority)
    BY <1>3, AuthKey DEF SelfCertifying
  <2> QED
    BY <1>3, <1>4, <2>1 DEF ValidCommon
<1>6. i.audience # Public
  <2>1. PICK m \in Nodes : request.authority = Auth(m)
    BY <1>2 DEF Authentic
  <2> QED
    BY <1>3, <2>1, AuthKey, RecordsAssumption
<1>7. request # NoRecord
  BY <1>2, IsARecord DEF ExchangeInv
<1>8. i.amount_atomic > 0
  BY <1>2, <1>3 DEF VerifiedAt, Verified, ValidCore, ValidPaymentRequest
<1>9. i.max_fee_atomic >= 0
  BY <1>2, <1>3 DEF ValidMaxFee
<1>10. ValidBinding(BindingTo(x.manifest))
  BY <1>2 DEF BindingHoldsAt, BindingHolds
<1>11. ValidPaymentIntent(i)
  BY <1>3, <1>6, <1>7, <1>8, <1>9, <1>10 DEF ValidPaymentIntent, Targeted
<1>12. ValidCore(i)
  <2>1. i.schema \in Schemas
    BY <1>3 DEF Schemas
  <2> QED
    BY <1>3, <1>5, <1>11, <2>1 DEF ValidCore, FieldsOf
<1>13. Verified(i)
  <2>1. i.bytes <= MaxRecordBytes
    BY <1>3, RecordsAssumption
  <2>2. i.signed_by = i.authority.public_key
    BY <1>3, AuthKey
  <2> QED
    BY <1>3, <1>12, <2>1, <2>2 DEF Verified
<1> QED
  BY <1>4, <1>13 DEF VerifiedAt, ActiveAt

(* The five records of the answer are five, under five nonces. *)
LEMMA AnswerIsFive ==
    ASSUME ExchangeInv, NEW n \in Nodes, NEW x, NEW link, NEW i, Signing(n, x, link, i),
           NEW reply, reply = [link |-> link, intent |-> i, manifest |-> x.manifest]
    PROVE  /\ DistinctIn(ReplyRecords(reply), 5)
           /\ SumOfBytes(ReplyRecords(reply)) <= MaxReplyBytes
           /\ i.nonce # x.manifest.nonce
<1>1. PICK d, m, r, p : d = link.descriptor /\ m = link.manifest /\ r = link.request
                        /\ p = x.manifest
  OBVIOUS
<1>2. ReplyRecords(reply) = {d, m, r, p, i}
  BY <1>1 DEF ReplyRecords, LinkRecords
<1>3. /\ Authentic(d) /\ Authentic(m) /\ Authentic(r) /\ Authentic(p)
      /\ p \in Signed(n) /\ p.disclosure = "private"
      /\ VerifiedLink(link, x.form.accepted_at, NoRecord)
  BY <1>1, SigningIs DEF LinkInv
<1>4. /\ i.authority = Auth(n) /\ i.nonce = Cardinality(OwnRecords(n)) + 1
      /\ i.disclosure = "private" /\ i.bytes = 1
  BY IntentIs DEF Signing
<1>5. ASSUME NEW y, Authentic(y)
      PROVE  i.authority.key_id # y.authority.key_id \/ i.nonce # y.nonce
  <2> SUFFICES ASSUME y.authority.key_id = KeyId(n) PROVE i.nonce # y.nonce
    BY <1>4, AuthKey
  <2>1. y \in Signed(n)
    BY <1>5, AuthOf
  <2>2. y.nonce \in 1..Cardinality(OwnRecords(n))
    BY <2>1 DEF ExchangeInv, OwnInv, Own
  <2> QED
    BY <1>4, <2>2, OwnRecordsFinite
<1>6. i.nonce # p.nonce
  <2>1. p.authority = Auth(n)
    BY <1>3 DEF ExchangeInv, OwnInv, Own
  <2> QED
    BY <1>3, <1>4, <1>5, <2>1
<1>7. NoncesDistinct({d, m, r, p, i})
  <2>1. ASSUME NEW y \in {d, m, r, p, i}, NEW z \in {d, m, r, p, i},
               y.authority.key_id = z.authority.key_id, y.nonce = z.nonce
        PROVE  y = z
    <3>1. CASE y # i /\ z # i
      <4>1. Authentic(y) /\ Authentic(z)
        BY <1>3, <3>1
      <4>2. \A k \in Nodes : OwnInv(k)
        BY DEF ExchangeInv
      <4> QED
        BY <2>1, <4>1, <4>2, OneRecord
    <3>2. CASE y = i /\ z # i
      <4>1. Authentic(z)
        BY <1>3, <3>2
      <4> QED
        BY <1>5, <2>1, <3>2, <4>1
    <3>3. CASE y # i /\ z = i
      <4>1. Authentic(y)
        BY <1>3, <3>3
      <4> QED
        BY <1>5, <2>1, <3>3, <4>1
    <3> QED
      BY <3>1, <3>2, <3>3
  <2> QED
    BY <2>1 DEF NoncesDistinct
<1>8. Cardinality({d, m, r, p, i}) = 5
  <2>1. Cardinality({d, m, r}) = 3 /\ \A y \in {d, m, r} : y.disclosure = "public"
    BY <1>1, <1>3 DEF VerifiedLink, DistinctIn, LinkRecords, AllPublic
  <2>a. PICK E, A, B, C : E = {} /\ A = E \cup {d} /\ B = A \cup {m} /\ C = B \cup {r}
    OBVIOUS
  <2>b. PICK D, F : D = C \cup {p} /\ F = D \cup {i}
    OBVIOUS
  <2>c. IsFiniteSet(A) /\ IsFiniteSet(B) /\ IsFiniteSet(C)
    BY <2>a, FS_EmptySet, Adds
  <2>d. C = {d, m, r} /\ F = {d, m, r, p, i}
    BY <2>a, <2>b
  <2>2. p \notin C /\ i \notin C /\ p # i
    BY <1>3, <1>4, <1>6, <2>1, <2>d
  <2>3. Cardinality(C) = 3
    BY <2>1, <2>d
  <2>4. IsFiniteSet(D) /\ Cardinality(D) = 4
    BY <2>b, <2>c, <2>2, <2>3, Adds
  <2>5. i \notin D
    BY <2>b, <2>2
  <2>6. Cardinality(F) = 5
    BY <2>b, <2>4, <2>5, Adds
  <2> QED
    BY <2>d, <2>6
<1>9. SumOfBytes({d, m, r, p, i}) <= MaxReplyBytes
  <2>1. \A k \in Nodes : OwnInv(k)
    BY DEF ExchangeInv
  <2>2. d.bytes = 1 /\ m.bytes = 1 /\ r.bytes = 1 /\ p.bytes = 1
    BY <1>3, <2>1, IsARecord
  <2>3. SumOfBytes({d, m, r, p, i}) \in Nat /\ SumOfBytes({d, m, r, p, i}) <= 5
    BY <1>4, <2>2, FiveWeigh
  <2> QED
    BY <2>3, RecordsAssumption
<1> QED
  BY <1>1, <1>2, <1>6, <1>7, <1>8, <1>9 DEF DistinctIn

(* An intent that fits its request and is not too late for the rest of the *)
(* offer can be presented to the merchant. *)
LEMMA Presents ==
    ASSUME ExchangeInv, NEW n \in Nodes, NEW x, NEW link, NEW i, Signing(n, x, link, i),
           Linked(i, link.request),
           x.at < link.descriptor.expires_at, x.at < link.manifest.expires_at
    PROVE  Presentable(i, link)
<1>1. PICK request, p : request = link.request /\ p = x.manifest
  OBVIOUS
<1>2. PICK reply : reply = [link |-> link, intent |-> i, manifest |-> p]
  OBVIOUS
<1>3. reply.link = link /\ reply.intent = i /\ reply.manifest = p
  BY <1>2
<1>4. /\ i.schema = "payment_intent" /\ i.authority = Auth(n)
      /\ i.audience = request.authority.key_id /\ i.disclosure = "private"
      /\ i.issued_at = x.at
      /\ i.rail = request.rail /\ i.asset_id = request.asset_id
      /\ i.source_account = ParsedAddress(x.form.source)
      /\ i.fee_asset_id = BitcoinAsset /\ i.max_fee_atomic = x.form.max_fee
      /\ i.payment_asset_trust = BindingTo(p)
      /\ i.fee_asset_trust = BindingTo(p)
  <2>1. i = NewIntent(n, x.form, request, p, x.at)
    BY <1>1 DEF Signing
  <2> QED
    BY <2>1, IntentIs
<1>5. AcceptanceOf(link, i) = reply
  BY <1>2, <1>4, BindingToIs DEF AcceptanceOf
<1>6. /\ link \in links /\ LinkInv(link)
      /\ VerifiedLink(link, x.form.accepted_at, NoRecord)
      /\ x.form.accepted_at \in Nat /\ x.form.accepted_at <= x.at
      /\ x.at \in Nat /\ x.at <= now
      /\ x.form.source \in SourceAccounts /\ ValidAddress(x.form.source)
      /\ ValidMaxFee(x.form.max_fee)
      /\ p \in Signed(n) /\ p.disclosure = "private" /\ p.audience = request.authority.key_id
      /\ VerifiedAt(request, x.at)
      /\ BindingHoldsAt(BindingTo(p), p, request.asset_id, request.rail, x.at)
  BY <1>1, SigningIs
<1>7. VerifiedLink(link, x.at, request.authority.key_id)
  <2>1. \A r \in LinkRecords(link) : Authentic(r)
    BY <1>6 DEF LinkInv, LinkRecords
  <2>2. \A r : Authentic(r) => r.issued_at \in Int /\ r.expires_at \in Int
    BY DEF ExchangeInv, OwnInv, Own, Authentic
  <2>3. \A r \in LinkRecords(link) : r.issued_at \in Int /\ r.expires_at \in Int
    BY <2>1, <2>2
  <2>4. PICK s \in Int, t \in Int : s = x.form.accepted_at /\ t = x.at
    BY <1>6
  <2>5. VerifiedLink(link, t, link.request.authority.key_id)
    BY <1>1, <1>6, <2>3, <2>4, LinkLater
  <2> QED
    BY <1>1, <2>4, <2>5
<1>8. VerifiedAt(i, x.at) /\ Verified(i)
  BY IntentVerifies DEF VerifiedAt
<1>9. BitcoinOffer(link) /\ request.asset_id = BitcoinAsset
  BY <1>1, <1>6 DEF LinkInv, BitcoinOffer
<1>10. CanonicalAddress(i.source_account) /\ ValidMaxFee(i.max_fee_atomic)
  BY <1>4, <1>6, CanonicalSource
<1>11. /\ VerifiedAt(p, x.at) /\ p.schema = "asset_trust_manifest"
       /\ Accepted(p.manifest, FailClosed)
  BY <1>6, BindingToIs DEF BindingHoldsAt, BindingHolds
<1>12. SameAuthority(i.authority, p.authority)
  <2>1. p.authority = Auth(n)
    BY <1>6 DEF ExchangeInv, OwnInv, Own
  <2> QED
    BY <1>4, <2>1 DEF SameAuthority
<1>13. /\ DistinctIn(ReplyRecords(reply), 5)
       /\ SumOfBytes(ReplyRecords(reply)) <= MaxReplyBytes
       /\ i.nonce # p.nonce
  BY <1>1, <1>2, AnswerIsFive
<1>14. OwnManifest(reply)
  BY <1>3, <1>4, BindingToIs DEF OwnManifest
<1>15. AllFor({i, p}, request.authority.key_id)
  BY <1>4, <1>6 DEF AllFor
<1>16. /\ BindingHoldsAt(i.payment_asset_trust, p, i.asset_id, i.rail, x.at)
       /\ BindingHoldsAt(i.fee_asset_trust, p, i.fee_asset_id, i.rail, x.at)
  BY <1>4, <1>6, <1>9
<1>17. now >= x.at /\ Linked(i, request) /\ i.fee_asset_id = request.asset_id
  BY <1>1, <1>4, <1>6, <1>9 DEF ExchangeInv
<1>18. VerifiedReply(reply, now, request.authority.key_id)
  BY <1>1, <1>3, <1>4, <1>7, <1>8, <1>9, <1>10, <1>11, <1>12, <1>13, <1>14, <1>15, <1>16, <1>17
     DEF VerifiedReply
<1> QED
  BY <1>1, <1>5, <1>18 DEF Presentable

(* The intent is signed and the acceptance handed out, or refused, or *)
(* withheld.                                                          *)
LEMMA IntentAppendedKeeps ==
    ASSUME ExchangeInv, NEW c \in Callers, IntentAppended(c)
    PROVE  ExchangeInv'
<1>1. PICK x : x = workflow[c]
  OBVIOUS
<1>2. x.phase = "signing" /\ x.op = "accept"
  BY <1>1 DEF IntentAppended
<1>3. PICK n \in Nodes : n = Home[c]
  BY ExchangeAssumption
<1>4. Carries(n, x)
  BY <1>1, <1>2, <1>3, BusyCarries
<1>5. PICK form, link, request : form = x.form /\ link = form.link /\ request = link.request
  OBVIOUS
<1>6. PICK i : i = NewIntent(n, form, request, x.manifest, x.at)
  OBVIOUS
<1>7. PICK refusal : refusal = RefusalAt(n, tables[n], i, "local")
  OBVIOUS
<1>8. PICK answer : answer = IF refusal = "none" THEN {i}
                             ELSE IF refusal = "TRANSITION_CONFLICT"
                               THEN IntentsOn(n, request)
                             ELSE {}
  OBVIOUS
<1>9. /\ tables' = IF refusal = "none"
                     THEN [tables EXCEPT ![n] = Appended(n, tables[n], i, "local")]
                     ELSE tables
      /\ replies' = replies \cup UNION {Answered(n, form, y) : y \in answer}
      /\ workflow' = [workflow EXCEPT ![c] = Idle]
      /\ links' = links /\ now' = now
  BY <1>1, <1>3, <1>5, <1>6, <1>7, <1>8 DEF IntentAppended
<1>10. /\ workflow' = [e \in Callers |-> workflow'[e]]
       /\ \A e \in Callers : workflow'[e] \in {workflow[e], Idle} \/ WorkInv(e)'
  BY <1>9, Moves
<1>11. Signing(n, x, link, i)
  BY <1>2, <1>4, <1>5, <1>6 DEF Signing
<1>12. /\ link \in links /\ LinkInv(link) /\ x.at \in Nat /\ x.at <= now
       /\ x.manifest \in Signed(n)
  BY <1>11, SigningIs
<1>13. CASE refusal # "none"
  <2>1. /\ Onward
        /\ tables' = [m \in Nodes |-> tables'[m]]
        /\ \A m \in Nodes : OwnInv(m)' /\ RowsInv(m)'
    BY <1>9, <1>13, TablesStay DEF ExchangeInv
  <2>2. ASSUME NEW reply \in replies', reply \notin replies PROVE ReplyInv(reply)'
    <3>1. PICK y \in answer : reply \in Answered(n, form, y)
      BY <1>9, <2>2
    <3>2. y \in IntentsOn(n, form.link.request) /\ form.link \in links
      BY <1>5, <1>8, <1>12, <1>13, <3>1
    <3> QED
      BY <1>9, <2>1, <3>1, <3>2, IntentsAnswered
  <2> QED
    BY <1>9, <1>10, <2>1, <2>2, Keeps DEF ExchangeInv
<1>14. CASE refusal = "none"
  <2>1. /\ i.schema = "payment_intent" /\ i.authority = Auth(n)
        /\ i.nonce = Cardinality(OwnRecords(n)) + 1
        /\ i.issued_at = x.at /\ i.expires_at = x.at + Lifetime["intent"]
        /\ i.parent = request /\ i.bytes = 1
        /\ i.payment_asset_trust = BindingTo(x.manifest)
    BY <1>6, IntentIs
  <2>2. tables' = [tables EXCEPT ![n] = Appended(n, tables[n], i, "local")]
    BY <1>9, <1>14
  <2>3. /\ Onward
        /\ tables' = [m \in Nodes |-> tables'[m]]
        /\ i \notin Signed(n)
        /\ Signed(n)' = Signed(n) \cup {i}
        /\ Cardinality(OwnRecords(n)') = Cardinality(OwnRecords(n)) + 1
        /\ \A m \in Nodes : RowsInv(m)'
    BY <1>9, <2>1, <2>2, Signs
  <2>4. request # NoRecord
    BY <1>5, <1>12, IsARecord DEF LinkInv, ExchangeInv
  <2>5. /\ Linked(i, request)
        /\ \A y \in Signed(n) : y.schema = "payment_intent" => y.parent # request
    BY <1>7, <1>14, <2>1, <2>3, <2>4, OwnAdmitted
  <2>6. Answerable(i)'
    <3>1. CASE x.at >= link.descriptor.expires_at \/ x.at >= link.manifest.expires_at
      BY <1>5, <1>9, <1>12, <2>1, <3>1 DEF Answerable
    <3>2. CASE x.at < link.descriptor.expires_at /\ x.at < link.manifest.expires_at
      <4>1. Presentable(i, link)
        BY <1>5, <1>11, <2>5, <3>2, Presents
      <4>2. Presentable(i, link)'
        BY <1>9, <4>1 DEF Presentable
      <4> QED
        BY <1>5, <1>9, <1>12, <2>1, <4>2 DEF Answerable
    <3>3. link.descriptor.expires_at \in Nat /\ link.manifest.expires_at \in Nat
      BY <1>12 DEF LinkInv, Authentic, ExchangeInv, OwnInv, Own
    <3> QED
      BY <1>12, <3>1, <3>2, <3>3
  <2>7. Own(n, i)'
    <3>1. Cardinality(OwnRecords(n)) \in Nat
      BY OwnRecordsFinite
    <3>2. i.nonce \in 1..Cardinality(OwnRecords(n)')
      BY <2>1, <2>3, <3>1
    <3>3. i.expires_at \in Nat
      BY <1>12, <2>1, LifetimesAre
    <3>4. "payment_intent" \in Schemas
      BY DEF Schemas
    <3>5. i.payment_asset_trust.manifest_record \in Signed(n)'
      BY <1>12, <2>1, <2>3, BindingToIs
    <3> QED
      BY <1>9, <1>12, <2>1, <2>6, <3>2, <3>3, <3>4, <3>5 DEF Own, Auth
  <2>8. \A m \in Nodes : OwnInv(m)'
    BY <1>9, <2>1, <2>2, <2>5, <2>7, SignsOwn
  <2>9. ASSUME NEW reply \in replies', reply \notin replies PROVE ReplyInv(reply)'
    <3>1. reply \in Answered(n, form, i)
      BY <1>8, <1>9, <1>14, <2>9
    <3>2. Authentic(i)'
      BY <2>1, <2>3 DEF Authentic, Auth
    <3>3. PICK p : p = i.payment_asset_trust.manifest_record
      OBVIOUS
    <3>4. p = x.manifest
      BY <2>1, <3>3, BindingToIs
    <3>5. Authentic(p)'
      BY <1>11, <2>3, <3>4, SigningIs, AuthenticStays
    <3>6. form.link \in links'
      BY <1>5, <1>9, <1>12
    <3> QED
      BY <1>9, <3>1, <3>2, <3>3, <3>5, <3>6, AnsweredIs
  <2> QED
    BY <1>9, <1>10, <2>3, <2>8, <2>9, Keeps DEF ExchangeInv
<1> QED
  BY <1>13, <1>14

-----------------------------------------------------------------------------
(* What the exchange promises. *)

(* Every step of the exchange keeps the invariant. *)
LEMMA NextKeeps == ExchangeInv /\ [ExchangeNext]_exchangeVars => ExchangeInv'
<1> SUFFICES ASSUME ExchangeInv, [ExchangeNext]_exchangeVars PROVE ExchangeInv'
  OBVIOUS
<1>1. ASSUME NEW c \in Callers, NEW roles \in RoleChoices, ActivateNode(c, roles)
      PROVE  ExchangeInv'
  BY <1>1, ActivateNodeKeeps
<1>2. ASSUME NEW c \in Callers, NEW d \in Destinations, NEW a \in Amounts, NEW t \in Notes,
             CreateBitcoinPayLink(c, [destination |-> d, amount |-> a, note |-> t])
      PROVE  ExchangeInv'
  BY <1>2, CreateBitcoinPayLinkKeeps
<1>3. ASSUME NEW c \in Callers, NEW file \in Delivered, NEW s \in SourceAccounts, NEW f \in Fees,
             AcceptBitcoinPayLink(c, file, [source |-> s, max_fee |-> f])
      PROVE  ExchangeInv'
  <2>1. PICK form : form = [source |-> s, max_fee |-> f]
    OBVIOUS
  <2>2. form.source \in SourceAccounts
    BY <2>1
  <2>3. AcceptBitcoinPayLink(c, file, form)
    BY <1>3, <2>1
  <2> QED
    BY <2>2, <2>3, AcceptBitcoinPayLinkKeeps
<1>4. ASSUME NEW c \in Callers, Activated(c) PROVE ExchangeInv'
  BY <1>4, ActivatedKeeps
<1>5. ASSUME NEW c \in Callers, ManifestAppended(c) PROVE ExchangeInv'
  BY <1>5, ManifestAppendedKeeps
<1>6. ASSUME NEW c \in Callers, RequestChecked(c) PROVE ExchangeInv'
  BY <1>6, RequestCheckedKeeps
<1>7. ASSUME NEW c \in Callers, RequestAppended(c) PROVE ExchangeInv'
  BY <1>7, RequestAppendedKeeps
<1>8. ASSUME NEW c \in Callers, IntentChecked(c) PROVE ExchangeInv'
  BY <1>8, IntentCheckedKeeps
<1>9. ASSUME NEW c \in Callers, IntentAppended(c) PROVE ExchangeInv'
  BY <1>9, IntentAppendedKeeps
<1>10. ASSUME NEW n \in Nodes, NodeCrash(n) PROVE ExchangeInv'
  BY <1>10, NodeCrashKeeps
<1>11. ASSUME NEW n \in Nodes, NEW file \in Delivered, ImportPayLink(n, file)
       PROVE  ExchangeInv'
  BY <1>11, ImportPayLinkKeeps
<1>12. ASSUME NEW n \in Nodes, NEW reply \in replies, ImportPayLinkAcceptance(n, reply)
       PROVE  ExchangeInv'
  BY <1>12, ImportPayLinkAcceptanceKeeps
<1>13. CASE Tick
  BY <1>13, TickKeeps
<1>14. CASE UNCHANGED exchangeVars
  <2>1. /\ tables' = tables /\ workflow' = workflow /\ links' = links
        /\ replies' = replies /\ now' = now
    BY <1>14 DEF exchangeVars
  <2>2. /\ Onward
        /\ tables' = [m \in Nodes |-> tables'[m]]
        /\ \A m \in Nodes : OwnInv(m)' /\ RowsInv(m)'
    BY <2>1, TablesStay DEF ExchangeInv
  <2> QED
    BY <2>1, <2>2, Keeps DEF ExchangeInv
<1> QED
  BY <1>1, <1>2, <1>3, <1>4, <1>5, <1>6, <1>7, <1>8, <1>9, <1>10, <1>11, <1>12, <1>13, <1>14
     DEF ExchangeNext

(* So it holds throughout. *)
LEMMA ExchangeInvariance == ExchangeSpec => []ExchangeInv
BY InitHolds, NextKeeps, PTL DEF ExchangeSpec

(* What the invariant says of types. *)
LEMMA TypesFollow == ExchangeInv => ExchangeTypeOK
<1> SUFFICES ASSUME ExchangeInv PROVE ExchangeTypeOK
  OBVIOUS
<1>1. ASSUME NEW n \in Nodes, NEW row \in tables[n]
      PROVE  /\ DOMAIN row = {"record", "source", "rank"}
             /\ row.source \in {"local", "remote"}
             /\ row.record.schema \in Schemas
             /\ row.source = "local" => row.record.authority.public_key = n
  <2>1. /\ row = [record |-> row.record, source |-> row.source, rank |-> row.rank]
        /\ Authentic(row.record)
        /\ row.source \in {"local", "remote"}
        /\ row.source = "local" => row.record.authority = Auth(n)
    BY DEF ExchangeInv, RowsInv
  <2>2. row.record.schema \in Schemas
    BY <2>1, IsARecord DEF ExchangeInv
  <2> QED
    BY <2>1, <2>2, AuthKey
<1>2. ASSUME NEW c \in Callers PROVE workflow[c].phase \in Phases
  BY DEF ExchangeInv, WorkInv, Carries, Idle, Phases
<1>3. ASSUME NEW link \in links
      PROVE  DOMAIN link = {"purpose", "descriptor", "manifest", "request"}
  BY DEF ExchangeInv, LinkInv
<1>4. ASSUME NEW reply \in replies PROVE DOMAIN reply = {"link", "manifest", "intent"}
  BY DEF ExchangeInv, ReplyInv, AcceptanceOf
<1>5. now \in 0..MaxTime
  BY ExchangeAssumption DEF ExchangeInv
<1> QED
  BY <1>1, <1>2, <1>3, <1>4, <1>5 DEF ExchangeTypeOK

(* One link per request, one intent per request and payer. *)
LEMMA OneLink ==
    ASSUME ExchangeInv, NEW a \in links, NEW b \in links, a.request = b.request
    PROVE  a = b
<1>1. PICK ap, ad, am, ar : a = [purpose |-> ap, descriptor |-> ad, manifest |-> am, request |-> ar]
  BY DEF ExchangeInv, LinkInv
<1>2. PICK bp, bd, bm, br : b = [purpose |-> bp, descriptor |-> bd, manifest |-> bm, request |-> br]
  BY DEF ExchangeInv, LinkInv
<1>3. Sealed(a) /\ Sealed(b)
  BY DEF ExchangeInv, LinkInv
<1>4. ad = bd /\ am = bm /\ PurposeHash(ap) = PurposeHash(bp)
  BY <1>1, <1>2, <1>3 DEF Sealed
<1>5. ap = bp
  BY <1>4 DEF PurposeHash
<1> QED
  BY <1>1, <1>2, <1>4, <1>5

(* One node has one intent per request, wherever copies of it lie. *)
LEMMA OneIntent ==
    ASSUME ExchangeInv, NEW x, NEW y, Authentic(x), Authentic(y),
           x.authority.key_id = y.authority.key_id,
           x.schema = "payment_intent", y.schema = "payment_intent", x.parent = y.parent
    PROVE  x = y
<1>1. PICK m \in Nodes : x.authority = Auth(m) /\ x \in Signed(m)
  BY DEF Authentic
<1>2. y \in Signed(m)
  BY <1>1, AuthKey, AuthOf
<1> QED
  BY <1>1, <1>2 DEF ExchangeInv, OwnInv

(* What the invariant says of answers. *)
LEMMA OneAnswerFollows == ExchangeInv => OneAnswer
<1> SUFFICES ASSUME ExchangeInv PROVE OneAnswer
  OBVIOUS
<1>1. ASSUME NEW a \in replies, NEW b \in replies,
             a.link.request = b.link.request, a.intent.authority = b.intent.authority
      PROVE  a = b
  <2>1. /\ ReplyInv(a) /\ ReplyInv(b)
    BY DEF ExchangeInv
  <2>2. /\ a.intent.schema = "payment_intent" /\ a.intent.parent = a.link.request
        /\ b.intent.schema = "payment_intent" /\ b.intent.parent = b.link.request
    BY <2>1 DEF ReplyInv, VerifiedReply, Linked, IntentLink, ParentOf
  <2>3. a.intent = b.intent
    BY <1>1, <2>1, <2>2, OneIntent DEF ReplyInv
  <2>4. a.link = b.link
    BY <1>1, <2>1, OneLink DEF ReplyInv
  <2> QED
    BY <2>1, <2>3, <2>4 DEF ReplyInv
<1>2. \A reply \in replies : reply.link \in links
  BY DEF ExchangeInv, ReplyInv
<1> QED
  BY <1>1, <1>2 DEF OneAnswer

(* What it says of intents no acceptance carries. *)
LEMMA StrandedFollows == ExchangeInv => StrandedOnlyByExpiry
<1> SUFFICES ASSUME ExchangeInv, NEW n \in Nodes, NEW row \in OwnRecords(n),
                    row.record.schema = "payment_intent"
             PROVE  Answerable(row.record)
  BY DEF StrandedOnlyByExpiry, Answerable
<1>1. row.record \in Signed(n)
  BY DEF Signed
<1> QED
  BY <1>1 DEF ExchangeInv, OwnInv, Own

(* What append() may answer to a record of an acceptance, at its turn in   *)
(* the batch.                                                              *)
LEMMA OnlyForSpace ==
    ASSUME ExchangeInv, NEW n \in Nodes, NEW table, Grown(n, table),
           NEW r, Authentic(r), Verified(r),
           r.schema \in {"node_descriptor", "asset_trust_manifest",
                         "payment_request", "payment_intent"},
           r.disclosure = "private" => r.audience = KeyId(n),
           r.parent # NoRecord => /\ r.parent \in {row.record : row \in table}
                                  /\ Linked(r, r.parent)
    PROVE  RefusalAt(n, table, r, "remote") \in {"none", "REMOTE_LIMIT_EXCEEDED"}
<1>1. PICK e : e = [record |-> r, source |-> "remote"]
  OBVIOUS
<1>2. e.record = r /\ e.source = "remote"
  BY <1>1
<1>3. RefusalAt(n, table, r, "remote") =
          IF Store(n)!Redelivered(table, e) THEN "none"
          ELSE Store(n)!Refusal(table, Used(table), e)
  BY <1>1 DEF RefusalAt
<1>4. SUFFICES ASSUME ~Store(n)!Redelivered(table, e)
               PROVE  Store(n)!Refusal(table, Used(table), e)
                          \in {"none", "REMOTE_LIMIT_EXCEEDED"}
  BY <1>3
<1>5. r \notin {row.record : row \in table}
  BY <1>2, <1>4 DEF Store!Redelivered, Store!Stored
<1>6. \A row \in table : Authentic(row.record)
  BY DEF Grown, ExchangeInv, RowsInv
<1>7. ~Store(n)!PrivateElsewhere(e)
  BY <1>2, RecordsAssumption DEF Store!PrivateElsewhere
<1>8. ~Store(n)!NonceTaken(table, r)
  <2>1. \A k \in Nodes : OwnInv(k)
    BY DEF ExchangeInv
  <2>2. \A y \in {row.record : row \in table} :
           ~(y.authority.key_id = r.authority.key_id /\ y.nonce = r.nonce)
    BY <1>5, <1>6, <2>1, OneRecord
  <2> QED
    BY <2>2 DEF Store!NonceTaken, Store!Stored
<1>9. ~Store(n)!ParentMissing(table, r)
  BY DEF Store!ParentMissing, Store!Stored
<1>10. ~Store(n)!BrokenLink(r)
  BY SameLinked DEF Store!BrokenLink
<1>11. ~Store(n)!Rival(table, r)
  <2>1. r.schema \notin Store(n)!LeafSchemas
    BY DEF Store!LeafSchemas
  <2>2. \A y \in {row.record : row \in table} :
           ~ /\ y.parent = r.parent /\ y.schema = r.schema
             /\ r.schema = "payment_intent" /\ y.authority.key_id = r.authority.key_id
    BY <1>5, <1>6, OneIntent
  <2> QED
    BY <2>1, <2>2 DEF Store!Rival, Store!Stored
<1> QED
  BY <1>2, <1>7, <1>8, <1>9, <1>10, <1>11 DEF Store!Refusal

(* What it says of imports: each of a reply's five appends can only fail *)
(* for space.                                                            *)
LEMMA RepliesImportFollows == ExchangeInv => RepliesImport
<1> SUFFICES ASSUME ExchangeInv, NEW reply \in replies, NEW n \in Nodes,
                    KeyId(n) = reply.link.request.authority.key_id
             PROVE  ImportsAt(n, reply)
  BY DEF RepliesImport
<1>1. PICK d, m, r, p, i : /\ d = reply.link.descriptor /\ m = reply.link.manifest
                           /\ r = reply.link.request
                           /\ p = reply.manifest /\ i = reply.intent
  OBVIOUS
<1>2. ReplyInv(reply) /\ LinkInv(reply.link)
  BY DEF ExchangeInv, ReplyInv
<1>3. VerifiedReply(reply, now, KeyId(n))
  BY <1>2 DEF ReplyInv
<1>4. VerifiedLink(reply.link, i.issued_at, KeyId(n))
  BY <1>1, <1>3 DEF VerifiedReply
<1>5. ReadableReply(File("canonical", reply))
  BY <1>3 DEF ReadableReply, File, VerifiedReply
<1>6. Authentic(d) /\ Authentic(m) /\ Authentic(r) /\ Authentic(p) /\ Authentic(i)
  BY <1>1, <1>2 DEF LinkInv, ReplyInv
<1>7. /\ Verified(d) /\ Verified(m) /\ Verified(r)
      /\ d.schema = "node_descriptor" /\ m.schema = "asset_trust_manifest"
      /\ r.schema = "payment_request"
      /\ d.disclosure = "public" /\ m.disclosure = "public" /\ r.disclosure = "public"
      /\ Linked(r, d)
  BY <1>1, <1>4 DEF VerifiedLink, LinkRecords, VerifiedAt, AllPublic
<1>8. /\ Verified(p) /\ Verified(i)
      /\ p.schema = "asset_trust_manifest" /\ i.schema = "payment_intent"
      /\ p.audience = KeyId(n) /\ i.audience = KeyId(n)
      /\ Linked(i, r)
  BY <1>1, <1>3 DEF VerifiedReply, VerifiedAt, AllFor
<1>9. /\ d.parent = NoRecord /\ m.parent = NoRecord /\ p.parent = NoRecord
      /\ r.parent = d /\ i.parent = r
  <2>1. d.parent = NoRecord
    BY <1>7 DEF Verified, ValidCore, ValidNodeDescriptor
  <2>2. m.parent = NoRecord /\ p.parent = NoRecord
    BY <1>7, <1>8 DEF Verified, ValidCore, ValidManifestRecord
  <2>3. r.parent = d
    BY <1>7 DEF Linked, RequestLink, ParentOf
  <2>4. i.parent = r
    BY <1>8 DEF Linked, IntentLink, ParentOf
  <2> QED
    BY <2>1, <2>2, <2>3, <2>4
<1>10. Latest(n) # NoRecord /\ Latest(n).authority.key_id = KeyId(n)
  <2>1. d.authority.key_id = KeyId(n)
    BY <1>1, <1>4, VerifiedIsSealed DEF SameAuthority
  <2>2. d \in Signed(n)
    BY <1>6, <2>1, AuthOf
  <2>3. Latest(n) # NoRecord /\ Latest(n) \in Signed(n)
    BY <1>7, <2>2, LatestIs
  <2> QED
    BY <2>3, AuthKey DEF ExchangeInv, OwnInv, Own
<1>11. PICK records : records = AcceptanceRecords(reply)
  OBVIOUS
<1>12. /\ Len(records) = 5
       /\ records[1] = d /\ records[2] = m /\ records[3] = r /\ records[4] = p /\ records[5] = i
  BY <1>1, <1>11, AcceptanceRecordsAre
<1>13. PICK after : after = BatchRows(n, records, "remote")
  OBVIOUS
<1>14. \A k \in 0..5 : /\ Grown(n, after[k])
                       /\ \A j \in 1..k : records[j] \in {row.record : row \in after[k]}
  <2>1. Len(records) \in Nat /\ \A k \in 1..Len(records) : Authentic(records[k])
    <3>1. \A k \in 1..5 : k \in {1, 2, 3, 4, 5}
      OBVIOUS
    <3> QED
      BY <1>6, <1>12, <3>1
  <2> QED
    BY <1>12, <1>13, <2>1, BatchGrows
<1>15. BatchAnswers(n, records, "remote") \subseteq {"none", "REMOTE_LIMIT_EXCEEDED"}
  <2>1. RefusalAt(n, after[0], d, "remote") \in {"none", "REMOTE_LIMIT_EXCEEDED"}
    <3>1. PICK table : table = after[0]
      OBVIOUS
    <3>2. Grown(n, table)
      BY <1>14, <3>1
    <3> QED
      BY <1>6, <1>7, <1>9, <3>1, <3>2, OnlyForSpace
  <2>2. RefusalAt(n, after[1], m, "remote") \in {"none", "REMOTE_LIMIT_EXCEEDED"}
    <3>1. PICK table : table = after[1]
      OBVIOUS
    <3>2. Grown(n, table)
      BY <1>14, <3>1
    <3> QED
      BY <1>6, <1>7, <1>9, <3>1, <3>2, OnlyForSpace
  <2>3. RefusalAt(n, after[2], r, "remote") \in {"none", "REMOTE_LIMIT_EXCEEDED"}
    <3>1. PICK table : table = after[2]
      OBVIOUS
    <3>2. Grown(n, table) /\ d \in {row.record : row \in table}
      BY <1>12, <1>14, <3>1
    <3> QED
      BY <1>6, <1>7, <1>9, <3>1, <3>2, OnlyForSpace
  <2>4. RefusalAt(n, after[3], p, "remote") \in {"none", "REMOTE_LIMIT_EXCEEDED"}
    <3>1. PICK table : table = after[3]
      OBVIOUS
    <3>2. Grown(n, table)
      BY <1>14, <3>1
    <3> QED
      BY <1>6, <1>8, <1>9, <3>1, <3>2, OnlyForSpace
  <2>5. RefusalAt(n, after[4], i, "remote") \in {"none", "REMOTE_LIMIT_EXCEEDED"}
    <3>1. PICK table : table = after[4]
      OBVIOUS
    <3>2. Grown(n, table) /\ r \in {row.record : row \in table}
      BY <1>12, <1>14, <3>1
    <3> QED
      BY <1>6, <1>8, <1>9, <3>1, <3>2, OnlyForSpace
  <2>6. DOMAIN records = {1, 2, 3, 4, 5}
    <3>1. records = <<d, m, r, p, i>>
      BY <1>1, <1>11 DEF AcceptanceRecords
    <3> QED
      BY <3>1
  <2>7. BatchAnswers(n, records, "remote") =
            {RefusalAt(n, after[k - 1], records[k], "remote") : k \in {1, 2, 3, 4, 5}}
    BY <1>13, <2>6 DEF BatchAnswers
  <2>8. \A k \in {1, 2, 3, 4, 5} :
           RefusalAt(n, after[k - 1], records[k], "remote")
             \in {"none", "REMOTE_LIMIT_EXCEEDED"}
    BY <1>12, <2>1, <2>2, <2>3, <2>4, <2>5
  <2> QED
    BY <2>7, <2>8
<1> QED
  BY <1>3, <1>5, <1>10, <1>11, <1>15 DEF ImportsAt

(* Every table, call and carrier is well-formed, and a node files as its   *)
(* own only what its key signed: import and redelivery never re-file a row *)
(* of another node as local.                                               *)
THEOREM ExchangeTyped == ExchangeSpec => []ExchangeTypeOK
BY ExchangeInvariance, TypesFollow, PTL

(* A payer's node answers one offer with one signed intent, however many   *)
(* calls race to answer it and however often the node dies in between, and *)
(* only ever an offer as its merchant made it: the lookup before signing   *)
(* is stale by the time of the append, and the successor rule inside the   *)
(* transaction is what holds.                                              *)
THEOREM OneIntentPerOffer == ExchangeSpec => []OneAnswer
BY ExchangeInvariance, OneAnswerFollows, PTL

(* An intent acceptBitcoinPayLink signed and could not hand out is one    *)
(* whose offer's descriptor or manifest ran out during the call: no other *)
(* order of awaits, ticks, crashes or imports signs what no merchant can  *)
(* read.                                                                  *)
THEOREM IntentsStrandOnlyByExpiry == ExchangeSpec => []StrandedOnlyByExpiry
BY ExchangeInvariance, StrandedFollows, PTL

(* A reply that was handed out is evidence for good: its merchant imports *)
(* it at any later time, first or repeated, after everything in it has    *)
(* expired and whatever both nodes stored since, unless the merchant's    *)
(* budget of remote records is full.                                      *)
THEOREM EvidenceForGood == ExchangeSpec => []RepliesImport
BY ExchangeInvariance, RepliesImportFollows, PTL

-----------------------------------------------------------------------------
(* Every table of the exchange is a store.                                 *)

(* A private record rests with its issuer and with its audience. *)
Addressed(n, row) ==
    row.record.disclosure = "private" =>
        row.source = "local" \/ row.record.audience = KeyId(n)

InBudget(n, table) ==
    Used(table).count <= Budget[n].count /\ Used(table).bytes <= Budget[n].bytes

(* What append() keeps of a table, whatever it is asked to append. *)
Settled(n, table) ==
    /\ \A r \in Stored(table) : r.parent # NoRecord => r.parent \in Stored(table)
    /\ \A row \in table : Addressed(n, row)
    /\ InBudget(n, table)

(* What append() checks of a record alone. *)
Lawful(r) ==
    /\ Verified(r)
    /\ r.parent # NoRecord => Linked(r, r.parent)
    /\ r.schema \notin LeafSchemas

(* What the callers of the local API were asked for. *)
Asked(n, x) ==
    /\ x.phase = "activating" => x.roles \in (SUBSET NodeRoles) \ {{}}
    /\ x.op = "create" => ValidTerms(x.form.destination, x.form.amount)
    /\ x.phase = "signing" /\ x.op = "create" => x.parent \in Signed(n)

AskedInv(c) == workflow[c] = Idle \/ Asked(Home[c], workflow[c])

TablesInv ==
    /\ \A n \in Nodes : \A r \in Signed(n) : Lawful(r)
    /\ \A n \in Nodes : Settled(n, tables[n])
    /\ \A c \in Callers : AskedInv(c)

(* A finite table of light records. *)
Plain(table) == IsFiniteSet(table) /\ \A row \in table : row.record.bytes = 1

(* What the ingest budget counts. *)
LEMMA UsedIs ==
    ASSUME NEW table
    PROVE  /\ Used(table).count = Cardinality(RemoteRows(table))
           /\ Used(table).bytes = SumOfBytes(Stored(RemoteRows(table)))
BY DEF Used, RemoteRows, Stored

(* The weight of finitely many light records is a number. *)
LEMMA WeightIsNat ==
    ASSUME NEW S, IsFiniteSet(S), \A r \in S : r.bytes = 1
    PROVE  SumOfBytes(S) \in Nat
<1>1. CASE S = {}
  BY <1>1, SizeEmpty
<1>2. CASE S # {}
  <2>1. PICK x \in S : TRUE
    BY <1>2
  <2>2. PICK T : T = S \ {x}
    OBVIOUS
  <2>3. IsFiniteSet(T) /\ x \notin T /\ S = T \cup {x}
    BY <2>1, <2>2, FS_Subset
  <2>4. \A r \in T \cup {x} : r.bytes \in Nat
    BY <2>3
  <2>5. SumOfBytes(T) \in Nat /\ SumOfBytes(T \cup {x}) = SumOfBytes(T) + x.bytes
    BY <2>3, <2>4, SizeAdd
  <2> QED
    BY <2>1, <2>3, <2>5
<1> QED
  BY <1>1, <1>2

(* The records of finitely many rows are finitely many. *)
LEMMA StoredFinite ==
    ASSUME NEW table, IsFiniteSet(table)
    PROVE  IsFiniteSet(Stored(table))
<1>1. PICK f : f = [row \in table |-> row.record]
  OBVIOUS
<1>2. Stored(table) = {f[row] : row \in table}
  BY <1>1 DEF Stored
<1>3. f \in Surjection(table, Stored(table))
  BY <1>1, <1>2 DEF Surjection
<1> QED
  BY <1>3, FS_Surjection

(* One remote row more costs its budget one record and one byte. *)
LEMMA RemoteCosts ==
    ASSUME NEW table, Plain(table), NEW new, new.record \notin Stored(table),
           new.record.bytes = 1, new.source = "remote"
    PROVE  /\ Used(table).count \in Nat /\ Used(table).bytes \in Nat
           /\ Used(table \cup {new}).count = Used(table).count + 1
           /\ Used(table \cup {new}).bytes = Used(table).bytes + 1
<1>1. PICK remote : remote = RemoteRows(table)
  OBVIOUS
<1>2. /\ IsFiniteSet(remote) /\ new \notin remote
      /\ \A row \in remote : row.record.bytes = 1 /\ row.record # new.record
  <2>1. remote \subseteq table
    BY <1>1 DEF RemoteRows
  <2> QED
    BY <2>1, FS_Subset DEF Plain, Stored
<1>3. RemoteRows(table \cup {new}) = remote \cup {new}
  BY <1>1 DEF RemoteRows
<1>4. Cardinality(remote) \in Nat /\ Cardinality(remote \cup {new}) = Cardinality(remote) + 1
  BY <1>2, FS_AddElement, FS_CardinalityType
<1>5. PICK S : S = Stored(remote)
  OBVIOUS
<1>6. Stored(remote \cup {new}) = S \cup {new.record} /\ new.record \notin S
  BY <1>2, <1>5 DEF Stored
<1>7. IsFiniteSet(S) /\ \A r \in S : r.bytes = 1
  BY <1>2, <1>5, StoredFinite DEF Stored
<1>8. \A r \in S \cup {new.record} : r.bytes \in Nat
  BY <1>7
<1>9. /\ SumOfBytes(S) \in Nat
      /\ SumOfBytes(S \cup {new.record}) = SumOfBytes(S) + new.record.bytes
  BY <1>6, <1>7, <1>8, SizeAdd
<1> QED
  BY <1>1, <1>3, <1>4, <1>5, <1>6, <1>9, UsedIs

(* A local row costs the ingest budget nothing. *)
LEMMA LocalIsFree ==
    ASSUME NEW table, NEW new, new.source = "local"
    PROVE  Used(table \cup {new}) = Used(table)
<1>1. RemoteRows(table \cup {new}) = RemoteRows(table)
  BY DEF RemoteRows
<1> QED
  BY <1>1 DEF Used, RemoteRows

(* Nothing is inserted for a record the table has. *)
LEMMA KeptIs ==
    ASSUME NEW n, NEW table, IsFiniteSet(table), NEW r \in Stored(table), NEW source
    PROVE  Appended(n, table, r, source) = table
BY InsertIs DEF Stored

(* An append that is not refused settles. *)
LEMMA AppendSettled ==
    ASSUME NEW n \in Nodes, NEW table, Plain(table), Settled(n, table),
           NEW r, r.bytes = 1, NEW source \in {"local", "remote"},
           RefusalAt(n, table, r, source) = "none"
    PROVE  Settled(n, Appended(n, table, r, source))
<1>1. IsFiniteSet(table)
  BY DEF Plain
<1>2. CASE r \in Stored(table)
  <2>1. Appended(n, table, r, source) = table
    BY <1>1, <1>2, KeptIs
  <2> QED
    BY <2>1
<1>3. CASE r \notin Stored(table)
  <2>1. \E k \in Nat : Appended(n, table, r, source) =
              table \cup {[record |-> r, source |-> source, rank |-> k]}
    BY <1>1, <1>3, InsertIs DEF Stored
  <2>2. PICK k \in Nat : Appended(n, table, r, source) =
              table \cup {[record |-> r, source |-> source, rank |-> k]}
    BY <2>1, Zenon
  <2>3. PICK new : new = [record |-> r, source |-> source, rank |-> k]
    OBVIOUS
  <2>4. new.record = r /\ new.source = source
    BY <2>3
  <2>5. PICK next : next = table \cup {new}
    OBVIOUS
  <2>6. Appended(n, table, r, source) = next
    BY <2>2, <2>3, <2>5
  <2>7. PICK e : e = [record |-> r, source |-> source]
    OBVIOUS
  <2>8. e.record = r /\ e.source = source
    BY <2>7
  <2>9. ~Store(n)!Redelivered(table, e)
    BY <1>3, <2>8 DEF Store!Redelivered, Store!Stored, Stored
  <2>10. Store(n)!Refusal(table, Used(table), e) = "none"
    BY <2>7, <2>9 DEF RefusalAt
  <2>11. /\ ~Store(n)!PrivateElsewhere(e) /\ ~Store(n)!ParentMissing(table, r)
         /\ ~Store(n)!OverBudget(Used(table), e)
    BY <2>8, <2>10 DEF Store!Refusal
  <2>12. Stored(next) = Stored(table) \cup {r}
    BY <2>4, <2>5 DEF Stored
  <2>13. \A q \in Stored(next) : q.parent # NoRecord => q.parent \in Stored(next)
    BY <2>11, <2>12 DEF Settled, Store!ParentMissing, Store!Stored, Stored
  <2>14. \A row \in next : Addressed(n, row)
    BY <2>4, <2>5, <2>8, <2>11 DEF Settled, Addressed, Store!PrivateElsewhere
  <2>15. InBudget(n, next)
    <3>1. CASE source = "local"
      BY <2>4, <2>5, <3>1, LocalIsFree DEF Settled, InBudget
    <3>2. CASE source = "remote"
      <4>1. PICK u : u = Used(table)
        OBVIOUS
      <4>2. /\ u.count \in Nat /\ u.bytes \in Nat
            /\ Used(next).count = u.count + 1 /\ Used(next).bytes = u.bytes + 1
        BY <1>3, <2>4, <2>5, <3>2, <4>1, RemoteCosts
      <4>3. ~(u.count + 1 > Budget[n].count) /\ ~(u.bytes + 1 > Budget[n].bytes)
        BY <2>8, <2>11, <3>2, <4>1 DEF Store!OverBudget
      <4>4. PICK b : b = Budget[n]
        OBVIOUS
      <4>5. b.count \in Nat /\ b.bytes \in Nat
        BY <4>4, ExchangeAssumption
      <4>6. u.count + 1 <= b.count /\ u.bytes + 1 <= b.bytes
        BY <4>2, <4>3, <4>4, <4>5
      <4> QED
        BY <4>2, <4>4, <4>6 DEF InBudget
    <3> QED
      BY <3>1, <3>2
  <2> QED
    BY <2>6, <2>13, <2>14, <2>15 DEF Settled
<1> QED
  BY <1>2, <1>3

(* The rows of a table the exchange fills are light. *)
LEMMA GrownPlain ==
    ASSUME ExchangeInv, NEW n \in Nodes, NEW table, Grown(n, table)
    PROVE  Plain(table)
<1>1. \A row \in table : Authentic(row.record)
  BY DEF Grown, ExchangeInv, RowsInv
<1> QED
  BY <1>1, IsARecord DEF Grown, Plain, ExchangeInv

(* A batch that is not refused settles. *)
LEMMA BatchSettled ==
    ASSUME ExchangeInv, NEW n \in Nodes, Settled(n, tables[n]),
           NEW records, Len(records) \in Nat, DOMAIN records = 1..Len(records),
           \A i \in 1..Len(records) : Authentic(records[i]),
           ~BatchRefused(n, records, "remote")
    PROVE  Settled(n, BatchStored(n, records, "remote"))
<1>a. PICK after : after = BatchRows(n, records, "remote")
  OBVIOUS
<1>b. PICK k \in Nat : k = Len(records)
  OBVIOUS
<1>1. /\ after[0] = tables[n]
      /\ \A i \in 1..k : after[i] = Appended(n, after[i - 1], records[i], "remote")
  BY <1>a, <1>b, BatchRowsExist
<1>2. \A i \in 0..k : Plain(after[i])
  BY <1>a, <1>b, BatchGrows, GrownPlain
<1>3. \A i \in 1..k : RefusalAt(n, after[i - 1], records[i], "remote") = "none"
  BY <1>a, <1>b DEF BatchRefused, BatchAnswers
<1>4. \A i \in 1..k : records[i].bytes = 1
  BY <1>b, IsARecord DEF ExchangeInv
<1> DEFINE B == {i \in 0..k : ~Settled(n, after[i])}
<1>5. ASSUME NEW i \in 1..k, Settled(n, after[i - 1])
      PROVE  Settled(n, after[i])
  <2>1. PICK table, r : table = after[i - 1] /\ r = records[i]
    OBVIOUS
  <2>2. i - 1 \in 0..k
    OBVIOUS
  <2>3. Plain(table) /\ RefusalAt(n, table, r, "remote") = "none" /\ r.bytes = 1
    BY <1>2, <1>3, <1>4, <2>1, <2>2
  <2>4. Settled(n, Appended(n, table, r, "remote"))
    BY <1>5, <2>1, <2>3, AppendSettled
  <2> QED
    BY <1>1, <2>1, <2>4
<1>6. B = {}
  <2> SUFFICES ASSUME B # {} PROVE FALSE
    OBVIOUS
  <2>1. PICK i \in B : \A e \in B : i <= e
    <3>1. B \subseteq Nat
      OBVIOUS
    <3> HIDE DEF B
    <3> QED
      BY <3>1, LeastOf
  <2>2. i \in 0..k /\ ~Settled(n, after[i])
    OBVIOUS
  <2>3. i # 0
    BY <1>1, <2>2
  <2>4. i \in 1..k /\ i - 1 \in 0..k /\ ~(i <= i - 1)
    BY <2>2, <2>3
  <2>5. i - 1 \notin B
    BY <2>1, <2>4
  <2>6. Settled(n, after[i - 1])
    BY <2>4, <2>5
  <2> QED
    BY <1>5, <2>2, <2>4, <2>6
<1>7. Settled(n, after[k])
  BY <1>6
<1> QED
  BY <1>a, <1>b, <1>7 DEF BatchStored

(* A record without a parent that a node signs anew is never refused. *)
LEMMA FreshFits ==
    ASSUME ExchangeInv, NEW n \in Nodes, NEW r, r.authority = Auth(n),
           r.nonce = Cardinality(OwnRecords(n)) + 1, r.parent = NoRecord
    PROVE  RefusalAt(n, tables[n], r, "local") = "none"
<1>1. PICK held : held = tables[n]
  OBVIOUS
<1>2. PICK e : e = [record |-> r, source |-> "local"]
  OBVIOUS
<1>3. e.record = r /\ e.source = "local"
  BY <1>2
<1>4. SUFFICES ASSUME ~Store(n)!Redelivered(held, e)
               PROVE  Store(n)!Refusal(held, Used(held), e) = "none"
  BY <1>1, <1>2 DEF RefusalAt
<1>5. ~Store(n)!NonceTaken(held, r)
  <2>1. SUFFICES ASSUME NEW x \in {row.record : row \in held},
                        x.authority.key_id = KeyId(n), x.nonce = r.nonce
                 PROVE  FALSE
    BY AuthKey DEF Store!NonceTaken, Store!Stored
  <2>2. Authentic(x)
    BY <1>1, <2>1 DEF ExchangeInv, RowsInv
  <2>3. x \in Signed(n)
    BY <2>1, <2>2, AuthOf
  <2>4. x.nonce \in 1..Cardinality(OwnRecords(n))
    BY <2>3 DEF ExchangeInv, OwnInv, Own
  <2> QED
    BY <2>1, <2>4, OwnRecordsFinite
<1> QED
  BY <1>3, <1>5
     DEF Store!Refusal, Store!PrivateElsewhere, Store!ParentMissing, Store!BrokenLink,
         Store!Rival, Store!OverBudget

(* Nor is one it signed before. *)
LEMMA RepeatFits ==
    ASSUME NEW n, NEW r \in Signed(n)
    PROVE  RefusalAt(n, tables[n], r, "local") = "none"
<1>1. PICK e : e = [record |-> r, source |-> "local"]
  OBVIOUS
<1>2. Store(n)!Redelivered(tables[n], e)
  BY <1>1 DEF Store!Redelivered, Store!Stored, Signed, OwnRecords
<1> QED
  BY <1>1, <1>2 DEF RefusalAt

(* What travels is lawful, for its issuer signed it. *)
LEMMA LawfulTravels ==
    ASSUME TablesInv, NEW r, Authentic(r)
    PROVE  Lawful(r)
BY DEF TablesInv, Authentic

(* What a call was asked for, it is asked for until it ends. *)
LEMMA AskedStays ==
    ASSUME TablesInv, Onward, NEW c \in Callers, workflow'[c] \in {workflow[c], Idle}
    PROVE  AskedInv(c)'
<1>1. Home[c] \in Nodes
  BY ExchangeAssumption
<1> QED
  BY <1>1 DEF TablesInv, AskedInv, Asked, Onward, Idle

(* A step at one table. *)
LEMMA TablesMove ==
    ASSUME ExchangeInv, TablesInv, Onward, NEW n \in Nodes, NEW table,
           tables' = [tables EXCEPT ![n] = table], Settled(n, table),
           NEW new, Signed(n)' \subseteq Signed(n) \cup new, \A r \in new : Lawful(r),
           \A c \in Callers : workflow'[c] \in {workflow[c], Idle} \/ AskedInv(c)'
    PROVE  TablesInv'
<1>1. tables' = [m \in Nodes |-> IF m = n THEN table ELSE tables[m]]
  BY DEF ExchangeInv
<1>2. tables'[n] = table /\ \A m \in Nodes : m # n => tables'[m] = tables[m]
  BY <1>1
<1>3. \A m \in Nodes : m # n => Signed(m)' = Signed(m)
  BY <1>2 DEF Signed, OwnRecords
<1>4. ASSUME NEW m \in Nodes, NEW r \in Signed(m)' PROVE Lawful(r)
  BY <1>3, <1>4 DEF TablesInv
<1>5. ASSUME NEW m \in Nodes PROVE Settled(m, tables'[m])
  BY <1>2 DEF TablesInv
<1>6. ASSUME NEW c \in Callers PROVE AskedInv(c)'
  BY AskedStays
<1>7. \A m \in Nodes : Settled(m, tables[m])'
  BY <1>5 DEF Settled, InBudget, Addressed, Stored, Used
<1> QED
  BY <1>4, <1>6, <1>7 DEF TablesInv

(* A step that leaves the tables alone. *)
LEMMA TablesRest ==
    ASSUME ExchangeInv, TablesInv, Onward, tables' = tables,
           \A c \in Callers : workflow'[c] \in {workflow[c], Idle} \/ AskedInv(c)'
    PROVE  TablesInv'
<1>1. \A m \in Nodes : Signed(m)' = Signed(m)
  BY DEF Signed, OwnRecords
<1>2. \A m \in Nodes : Settled(m, tables[m])'
  BY DEF TablesInv, Settled, InBudget, Addressed, Stored, Used
<1>3. ASSUME NEW c \in Callers PROVE AskedInv(c)'
  BY AskedStays
<1> QED
  BY <1>1, <1>2, <1>3 DEF TablesInv

-----------------------------------------------------------------------------
(* What a node signs is lawful.                                            *)

(* The body of a record a node signs. *)
LEMMA BodyIs ==
    ASSUME NEW n, NEW schema, NEW kind, NEW to, NEW shown, NEW at, NEW parent, NEW r, NEW body,
           Composed(r, n, schema, kind, to, shown, at, parent, body)
    PROVE  /\ FieldsOf(r) = CommonFields \cup FieldsOf(body)
           /\ \A f \in FieldsOf(body) : f \notin CommonFields => r[f] = body[f]
<1>1. PICK common : common = Common(n, schema, kind, to, shown, at, parent)
  OBVIOUS
<1>2. DOMAIN common = CommonFields
  BY <1>1 DEF Common, CommonFields
<1>3. r = [f \in CommonFields \cup DOMAIN body |->
              IF f \in CommonFields THEN common[f] ELSE body[f]]
  BY <1>1, <1>2 DEF With, Composed
<1> QED
  BY <1>3 DEF FieldsOf

(* A body and a validity of its schema. *)
Suits(schema, kind, shown, at, body) ==
    /\ schema \in Schemas /\ shown \in {"public", "private"} /\ at \in Nat
    /\ FieldsOf(body) = BodyFields[schema]
    /\ Lifetime[kind] \in 1..MaxLifetime[schema]

(* What append() checks of the part all kinds of records share. *)
CommonChecked(r) ==
    /\ r.schema \in Schemas
    /\ DOMAIN r = CommonFields \cup BodyFields[r.schema]
    /\ ValidCommon(r)
    /\ r.bytes <= MaxRecordBytes
    /\ r.named_id = "own" /\ r.signed_by = r.authority.public_key

(* Its common part is what records.ts admits of any record. *)
LEMMA CommonLawful ==
    ASSUME NEW n, NEW schema, NEW kind, NEW to, NEW shown, NEW at, NEW parent, NEW r, NEW body,
           Composed(r, n, schema, kind, to, shown, at, parent, body),
           Suits(schema, kind, shown, at, body)
    PROVE  CommonChecked(r)
<1>1. /\ r.schema = schema /\ r.authority = Auth(n) /\ r.disclosure = shown
      /\ r.issued_at = at /\ r.expires_at = at + Lifetime[kind]
      /\ r.signed_by = n /\ r.named_id = "own" /\ r.bytes = 1
  BY CommonIs
<1>2. DOMAIN r = CommonFields \cup BodyFields[schema]
  <2>1. FieldsOf(r) = CommonFields \cup FieldsOf(body)
    BY BodyIs
  <2> QED
    BY <2>1 DEF Suits, FieldsOf
<1>a. /\ schema \in Schemas /\ shown \in {"public", "private"} /\ at \in Nat
      /\ Lifetime[kind] \in 1..MaxLifetime[schema]
  BY DEF Suits
<1>3. PICK life : life = Lifetime[kind]
  OBVIOUS
<1>4. life \in Nat \ {0} /\ life <= MaxLifetime[schema]
  BY <1>3, <1>a
<1>5. r.expires_at > r.issued_at /\ r.expires_at - r.issued_at = life
  BY <1>1, <1>3, <1>4, <1>a
<1>6. SelfCertifying(r.authority) /\ r.authority.public_key = n
  BY <1>1, AuthKey DEF SelfCertifying
<1>7. ValidCommon(r)
  BY <1>1, <1>4, <1>5, <1>6, <1>a DEF ValidCommon
<1> QED
  BY <1>1, <1>2, <1>6, <1>7, <1>a, RecordsAssumption DEF CommonChecked

(* The two endpoints a node offers. *)
LEMMA EndpointsLawful ==
    ValidEndpoints({[rel |-> rel, path |-> "canonical"] : rel \in EndpointRels})
<1>1. PICK a, b : /\ a = [rel |-> "record_read", path |-> "canonical"]
                  /\ b = [rel |-> "records_ingest", path |-> "canonical"]
  OBVIOUS
<1>2. /\ a.rel = "record_read" /\ a.path = "canonical"
      /\ b.rel = "records_ingest" /\ b.path = "canonical"
  BY <1>1
<1>3. {[rel |-> rel, path |-> "canonical"] : rel \in EndpointRels} = {a, b}
  BY <1>1 DEF EndpointRels
<1>4. IsFiniteSet({a}) /\ Cardinality({a}) = 1 /\ Cardinality({b}) = 1
  BY FS_Singleton
<1>5. Cardinality({a, b}) = 2
  <2>1. {a, b} = {a} \cup {b} /\ b \notin {a}
    BY <1>2
  <2> QED
    BY <1>4, <2>1, FS_AddElement
<1>6. /\ {e \in {a, b} : e.rel = "record_read"} = {a}
      /\ {e \in {a, b} : e.rel = "records_ingest"} = {b}
  BY <1>2
<1>7. \A rel \in EndpointRels : Cardinality({e \in {a, b} : e.rel = rel}) = 1
  BY <1>4, <1>6 DEF EndpointRels
<1>8. ValidEndpoints({a, b})
  BY <1>2, <1>5, <1>7 DEF ValidEndpoints, MaxEndpoints, EndpointRels
<1> QED
  BY <1>3, <1>8

(* A descriptor under one role or more. *)
LEMMA DescriptorLawful ==
    ASSUME NEW n, NEW roles \in (SUBSET NodeRoles) \ {{}}, NEW at \in Nat,
           NEW r, r = NewDescriptor(n, roles, at)
    PROVE  Lawful(r) /\ r.parent = NoRecord
<1>1. PICK ends : ends = {[rel |-> rel, path |-> "canonical"] : rel \in EndpointRels}
  OBVIOUS
<1>2. PICK body : body = [roles |-> roles, endpoints |-> ends]
  OBVIOUS
<1>3. Composed(r, n, "node_descriptor", "node", Public, "public", at, NoRecord, body)
  BY <1>1, <1>2 DEF Composed, NewDescriptor
<1>4. FieldsOf(body) = {"roles", "endpoints"} /\ body.roles = roles /\ body.endpoints = ends
  BY <1>2 DEF FieldsOf
<1>5. r.roles = roles /\ r.endpoints = ends
  BY <1>3, <1>4, BodyIs DEF CommonFields
<1>6. /\ r.schema = "node_descriptor" /\ r.audience = Public /\ r.disclosure = "public"
      /\ r.parent = NoRecord
  BY <1>3, CommonIs
<1>7. FieldsOf(body) = BodyFields["node_descriptor"]
  BY <1>4 DEF BodyFields
<1>8. Lifetime["node"] \in 1..MaxLifetime["node_descriptor"] /\ "node_descriptor" \in Schemas
  BY RecordsAssumption DEF Schemas, RootSchemas
<1>9. CommonChecked(r)
  <2>1. Suits("node_descriptor", "node", "public", at, body)
    BY <1>7, <1>8 DEF Suits
  <2> QED
    BY <1>3, <2>1, CommonLawful
<1>10. ValidNodeDescriptor(r)
  BY <1>1, <1>5, <1>6, EndpointsLawful DEF ValidNodeDescriptor
<1>11. ValidCore(r)
  BY <1>6, <1>9, <1>10 DEF ValidCore, CommonChecked
<1> QED
  BY <1>6, <1>9, <1>11 DEF Lawful, Verified, LeafSchemas, CommonChecked

(* The local assertion about bitcoin parses. *)
LEMMA BitcoinManifestIs ==
    ASSUME NEW at
    PROVE  ValidManifest(BitcoinManifest(at)) /\ BitcoinManifest(at).assessed_at = at
<1>1. PICK m : m = BitcoinManifest(at)
  OBVIOUS
<1>2. PICK controls : controls = [c \in IssuerControls |-> "false"]
  OBVIOUS
<1>3. /\ m.asset_id = BitcoinAsset /\ m.chain_id = BitcoinAsset.chain
      /\ m.settlement_model = "layer-1-proof-of-work" /\ m.finality = "probabilistic"
      /\ m.single_sequencer = "false" /\ m.provider_required = "false"
      /\ m.provider_role = "none" /\ m.issuer_controls = controls
      /\ m.bridge = "none" /\ m.identity = "none" /\ m.custody = "self-custody-capable"
      /\ m.self_hostable_read = "true" /\ m.self_hostable_broadcast = "true"
      /\ m.egress = {"public-ledger", "peer-network"} /\ m.evidence = <<>>
      /\ m.assessed_at = at
  BY <1>1, <1>2 DEF BitcoinManifest
<1>4. controls \in [IssuerControls -> Disclosed]
  BY <1>2 DEF Disclosed
<1>5. ProviderConsistent(m)
  BY <1>3 DEF ProviderConsistent
<1>6. EgressConsistent(m)
  BY <1>3 DEF EgressConsistent
<1>7. EvidenceConsistent(m)
  BY <1>3 DEF EvidenceConsistent, MaxEvidence
<1>8. m.egress \subseteq EgressCategories
  BY <1>3 DEF EgressCategories
<1>9. /\ m.settlement_model \in SettlementModels /\ m.finality \in FinalityModels
      /\ m.provider_role \in ProviderRoles
      /\ {m.single_sequencer, m.provider_required, m.self_hostable_read,
          m.self_hostable_broadcast} \subseteq Disclosed
      /\ m.bridge \in BridgeDependencies /\ m.identity \in IdentityRequirements
      /\ m.custody \in CustodyModels
  BY <1>3 DEF SettlementModels, FinalityModels, ProviderRoles, Disclosed, BridgeDependencies,
              IdentityRequirements, CustodyModels
<1>10. ValidManifest(m)
  BY <1>3, <1>4, <1>5, <1>6, <1>7, <1>8, <1>9 DEF ValidManifest
<1> QED
  BY <1>1, <1>3, <1>10

(* A manifest assessed no later than it is signed. *)
LEMMA ManifestLawful ==
    ASSUME NEW n, NEW to, NEW shown \in {"public", "private"}, NEW assessed \in Nat,
           NEW at \in Nat, assessed <= at, NEW r, r = NewManifest(n, to, shown, assessed, at)
    PROVE  Lawful(r) /\ r.parent = NoRecord
<1>1. PICK manifest : manifest = BitcoinManifest(assessed)
  OBVIOUS
<1>2. PICK body : body = [manifest |-> manifest]
  OBVIOUS
<1>3. Composed(r, n, "asset_trust_manifest", "asset", to, shown, at, NoRecord, body)
  BY <1>1, <1>2 DEF Composed, NewManifest
<1>4. FieldsOf(body) = {"manifest"} /\ body.manifest = manifest
  BY <1>2 DEF FieldsOf
<1>5. r.manifest = manifest
  BY <1>3, <1>4, BodyIs DEF CommonFields
<1>6. r.schema = "asset_trust_manifest" /\ r.parent = NoRecord /\ r.issued_at = at
  BY <1>3, CommonIs
<1>7. FieldsOf(body) = BodyFields["asset_trust_manifest"]
  BY <1>4 DEF BodyFields
<1>8. /\ Lifetime["asset"] \in 1..MaxLifetime["asset_trust_manifest"]
      /\ "asset_trust_manifest" \in Schemas
  BY RecordsAssumption DEF Schemas, RootSchemas
<1>9. CommonChecked(r)
  <2>1. Suits("asset_trust_manifest", "asset", shown, at, body)
    BY <1>7, <1>8 DEF Suits
  <2> QED
    BY <1>3, <2>1, CommonLawful
<1>10. ValidManifestRecord(r)
  BY <1>1, <1>5, <1>6, BitcoinManifestIs DEF ValidManifestRecord
<1>11. ValidCore(r)
  BY <1>6, <1>9, <1>10 DEF ValidCore, CommonChecked
<1> QED
  BY <1>6, <1>9, <1>11 DEF Lawful, Verified, LeafSchemas, CommonChecked

(* The default policy parses under its own hash. *)
LEMMA BindingLawful ==
    ASSUME NEW manifest
    PROVE  ValidBinding(BindingTo(manifest))
<1>1. PICK p : p = FailClosed
  OBVIOUS
<1>2. ValidPolicy(p)
  BY <1>1 DEF ValidPolicy, FailClosed, Known, SettlementModels, FinalityModels,
              BridgeDependencies, CustodyModels, EgressCategories
<1>3. BindingTo(manifest).policy = p /\ BindingTo(manifest).policy_hash = PolicyHash(p)
  BY <1>1 DEF BindingTo
<1> QED
  BY <1>1, <1>2, <1>3 DEF ValidBinding

(* A request for terms that were checked, below a descriptor it links to. *)
LEMMA RequestLawful ==
    ASSUME NEW n, NEW form, ValidTerms(form.destination, form.amount),
           NEW parent, parent # NoRecord, NEW manifest, NEW at \in Nat,
           NEW r, r = NewRequest(n, form, parent, manifest, at), Linked(r, parent)
    PROVE  Lawful(r)
<1>1. PICK terms : terms = OfferTerms(form)
  OBVIOUS
<1>2. PICK trust : trust = [purpose_hash |-> PurposeHash([note |-> form.note,
                                                           reply_to |-> "offline"]),
                            asset_trust |-> BindingTo(manifest)]
  OBVIOUS
<1>3. PICK body : body = With(terms, trust)
  OBVIOUS
<1>4. Composed(r, n, "payment_request", "request", Public, "public", at, parent, body)
  BY <1>1, <1>2, <1>3 DEF Composed, NewRequest
<1>5. DOMAIN terms = Terms /\ terms.amount_atomic = form.amount
  BY <1>1 DEF OfferTerms, Terms
<1>6. /\ DOMAIN trust = {"purpose_hash", "asset_trust"}
      /\ trust.asset_trust = BindingTo(manifest)
  BY <1>2
<1>7. body = [f \in Terms \cup {"purpose_hash", "asset_trust"} |->
                 IF f \in Terms THEN terms[f] ELSE trust[f]]
  BY <1>3, <1>5, <1>6 DEF With
<1>8. /\ FieldsOf(body) = Terms \cup {"purpose_hash", "asset_trust"}
      /\ body.amount_atomic = form.amount /\ body.asset_trust = BindingTo(manifest)
  BY <1>5, <1>6, <1>7 DEF FieldsOf, Terms
<1>9. r.amount_atomic = form.amount /\ r.asset_trust = BindingTo(manifest)
  BY <1>4, <1>8, BodyIs DEF CommonFields, Terms
<1>10. r.schema = "payment_request" /\ r.parent = parent
  BY <1>4, CommonIs
<1>11. FieldsOf(body) = BodyFields["payment_request"]
  BY <1>8 DEF BodyFields
<1>12. /\ Lifetime["request"] \in 1..MaxLifetime["payment_request"]
       /\ "payment_request" \in Schemas
  BY RecordsAssumption DEF Schemas
<1>13. CommonChecked(r)
  <2>1. Suits("payment_request", "request", "public", at, body)
    BY <1>11, <1>12 DEF Suits
  <2> QED
    BY <1>4, <2>1, CommonLawful
<1>14. ValidPaymentRequest(r)
  <2>1. form.amount > 0
    BY DEF ValidTerms, ValidSatoshis
  <2> QED
    BY <1>9, <1>10, <2>1, BindingLawful DEF ValidPaymentRequest
<1>15. ValidCore(r)
  BY <1>10, <1>13, <1>14 DEF ValidCore, CommonChecked
<1> QED
  BY <1>10, <1>13, <1>15 DEF Lawful, Verified, LeafSchemas, CommonChecked

-----------------------------------------------------------------------------
(* The steps of the exchange, as its tables see them.                      *)

(* A caller that moves on keeps what the other callers were asked for. *)
LEMMA AskedMoves ==
    ASSUME ExchangeInv, NEW c \in Callers, NEW w, workflow' = [workflow EXCEPT ![c] = w],
           w = Idle \/ Asked(Home[c], w)'
    PROVE  \A d \in Callers : workflow'[d] \in {workflow[d], Idle} \/ AskedInv(d)'
<1>1. workflow' = [d \in Callers |-> IF d = c THEN w ELSE workflow[d]]
  BY DEF ExchangeInv
<1>2. workflow'[c] = w /\ \A d \in Callers : d # c => workflow'[d] = workflow[d]
  BY <1>1
<1>3. w # Idle => AskedInv(c)'
  BY <1>2 DEF AskedInv
<1> QED
  BY <1>2, <1>3

(* What a call under way was asked for. *)
LEMMA BusyAsked ==
    ASSUME TablesInv, NEW c \in Callers, NEW x, x = workflow[c], x.phase # "idle"
    PROVE  Asked(Home[c], x)
BY DEF TablesInv, AskedInv, Idle

(* A call that moves on and leaves the tables alone. *)
LEMMA AskedOnly ==
    ASSUME ExchangeInv, TablesInv, NEW c \in Callers, NEW w,
           workflow' = [workflow EXCEPT ![c] = w], w = Idle \/ Asked(Home[c], w)',
           tables' = tables, links' = links, now' = now
    PROVE  TablesInv'
<1>1. Onward
  BY TablesStay DEF ExchangeInv
<1>2. \A d \in Callers : workflow'[d] \in {workflow[d], Idle} \/ AskedInv(d)'
  BY AskedMoves
<1> QED
  BY <1>1, <1>2, TablesRest

(* The rows a node holds are light. *)
LEMMA TablesPlain ==
    ASSUME ExchangeInv, NEW n \in Nodes
    PROVE  Plain(tables[n])
<1>1. Grown(n, tables[n])
  BY DEF Grown, ExchangeInv, RowsInv
<1> QED
  BY <1>1, GrownPlain

(* A node signs a lawful record that append() takes. *)
LEMMA SignsLawful ==
    ASSUME ExchangeInv, TablesInv, NEW n \in Nodes, NEW r,
           r.authority = Auth(n), r.nonce = Cardinality(OwnRecords(n)) + 1, r.bytes = 1,
           Lawful(r), RefusalAt(n, tables[n], r, "local") = "none",
           tables' = [tables EXCEPT ![n] = Appended(n, tables[n], r, "local")],
           links \subseteq links', now' = now,
           \A d \in Callers : workflow'[d] \in {workflow[d], Idle} \/ AskedInv(d)'
    PROVE  TablesInv'
<1>1. Onward /\ Signed(n)' = Signed(n) \cup {r}
  BY Signs
<1>2. PICK held : held = tables[n]
  OBVIOUS
<1>3. PICK next : next = Appended(n, held, r, "local")
  OBVIOUS
<1>4. Plain(held) /\ Settled(n, held)
  BY <1>2, TablesPlain DEF TablesInv
<1>5. Settled(n, next)
  <2>1. RefusalAt(n, held, r, "local") = "none"
    BY <1>2
  <2> QED
    BY <1>3, <1>4, <2>1, AppendSettled
<1>6. tables' = [tables EXCEPT ![n] = next]
  BY <1>2, <1>3
<1>7. Signed(n)' \subseteq Signed(n) \cup {r} /\ \A q \in {r} : Lawful(q)
  BY <1>1
<1> QED
  BY <1>1, <1>5, <1>6, <1>7, TablesMove

(* The call of activateNode appends nothing yet. *)
LEMMA ActivateNodeTables ==
    ASSUME ExchangeInv, TablesInv, NEW c \in Callers, NEW roles \in RoleChoices,
           ActivateNode(c, roles)
    PROVE  TablesInv'
<1>1. PICK w : w = Activating(c, "activate", roles, <<>>)
  OBVIOUS
<1>2. w.phase = "activating" /\ w.op = "activate" /\ w.roles = roles
  BY <1>1 DEF Activating
<1>3. roles \in (SUBSET NodeRoles) \ {{}}
  BY ExchangeAssumption
<1>4. Asked(Home[c], w)'
  BY <1>2, <1>3 DEF Asked
<1> QED
  BY <1>1, <1>4, AskedOnly DEF ActivateNode

(* The roles a node takes by default are roles, and not none. *)
LEMMA DefaultRolesAre == DefaultRoles \in (SUBSET NodeRoles) \ {{}}
BY DEF DefaultRoles, NodeRoles

(* The call of createBitcoinPayLink appends nothing yet. *)
LEMMA CreateBitcoinPayLinkTables ==
    ASSUME ExchangeInv, TablesInv, NEW c \in Callers, NEW form, CreateBitcoinPayLink(c, form)
    PROVE  TablesInv'
<1>1. PICK w : w = Activating(c, "create", DefaultRoles, form)
  OBVIOUS
<1>2. w.phase = "activating" /\ w.op = "create" /\ w.roles = DefaultRoles /\ w.form = form
  BY <1>1 DEF Activating
<1>3. ValidTerms(form.destination, form.amount)
  BY DEF CreateBitcoinPayLink
<1>4. Asked(Home[c], w)'
  BY <1>2, <1>3, DefaultRolesAre DEF Asked
<1> QED
  BY <1>1, <1>4, AskedOnly DEF CreateBitcoinPayLink

(* The offer of a link settles in the table that takes it. *)
LEMMA OfferSettles ==
    ASSUME ExchangeInv, TablesInv, NEW n \in Nodes, NEW link \in links,
           ~BatchRefused(n, OfferOf(link), "remote"),
           tables' = [tables EXCEPT ![n] = BatchStored(n, OfferOf(link), "remote")],
           links' = links, now' = now,
           \A d \in Callers : workflow'[d] \in {workflow[d], Idle} \/ AskedInv(d)'
    PROVE  TablesInv'
<1>1. PICK records : records = OfferOf(link)
  OBVIOUS
<1>2. Len(records) = 3 /\ DOMAIN records = 1..3
  BY <1>1, OfferIs DEF OfferOf
<1>3. \A i \in 1..3 : Authentic(records[i])
  <2>1. Authentic(records[1]) /\ Authentic(records[2]) /\ Authentic(records[3])
    BY <1>1, OfferIs DEF ExchangeInv, LinkInv
  <2>2. \A i \in 1..3 : i \in {1, 2, 3}
    OBVIOUS
  <2> QED
    BY <2>1, <2>2
<1>4. PICK next : next = BatchStored(n, records, "remote")
  OBVIOUS
<1>5. Settled(n, tables[n]) /\ ~BatchRefused(n, records, "remote")
  BY <1>1 DEF TablesInv
<1>6. Settled(n, next)
  BY <1>2, <1>3, <1>4, <1>5, BatchSettled
<1>7. Onward /\ \A m \in Nodes : Signed(m)' = Signed(m)
  BY OfferImports
<1>8. tables' = [tables EXCEPT ![n] = next]
  BY <1>1, <1>4
<1>9. PICK none : none = {}
  OBVIOUS
<1>10. Signed(n)' \subseteq Signed(n) \cup none /\ \A r \in none : Lawful(r)
  BY <1>7, <1>9
<1> QED
  BY <1>6, <1>7, <1>8, <1>10, TablesMove

(* An offer imported on its own settles. *)
LEMMA ImportPayLinkTables ==
    ASSUME ExchangeInv, TablesInv, NEW n \in Nodes, NEW file \in Delivered,
           ImportPayLink(n, file)
    PROVE  TablesInv'
<1>1. PICK link : link = file.carrier
  OBVIOUS
<1>2. link \in links
  BY <1>1, DeliveredIsLink DEF ImportPayLink, Offered
<1>3. /\ ~BatchRefused(n, OfferOf(link), "remote")
      /\ tables' = [tables EXCEPT ![n] = BatchStored(n, OfferOf(link), "remote")]
      /\ workflow' = workflow /\ links' = links /\ now' = now
  BY <1>1 DEF ImportPayLink, Offered
<1> QED
  BY <1>2, <1>3, OfferSettles

(* The offer an acceptance imports first settles. *)
LEMMA AcceptBitcoinPayLinkTables ==
    ASSUME ExchangeInv, TablesInv, NEW c \in Callers, NEW file \in Delivered, NEW form,
           AcceptBitcoinPayLink(c, file, form)
    PROVE  TablesInv'
<1>1. PICK link : link = file.carrier
  OBVIOUS
<1>2. link \in links
  BY <1>1, DeliveredIsLink DEF AcceptBitcoinPayLink, Offered
<1>3. PICK n \in Nodes : n = Home[c]
  BY ExchangeAssumption
<1>4. PICK answer : answer = [link |-> link, source |-> form.source,
                              max_fee |-> form.max_fee, accepted_at |-> now]
  OBVIOUS
<1>5. PICK w : w = Activating(c, "accept", DefaultRoles, answer)
  OBVIOUS
<1>6. /\ ~BatchRefused(n, OfferOf(link), "remote")
      /\ tables' = [tables EXCEPT ![n] = BatchStored(n, OfferOf(link), "remote")]
      /\ workflow' = [workflow EXCEPT ![c] = w] /\ links' = links /\ now' = now
  BY <1>1, <1>3, <1>4, <1>5 DEF AcceptBitcoinPayLink, Offered
<1>7. w.phase = "activating" /\ w.op = "accept" /\ w.roles = DefaultRoles
  BY <1>5 DEF Activating
<1>8. Asked(Home[c], w)'
  BY <1>7, DefaultRolesAre DEF Asked
<1>9. \A d \in Callers : workflow'[d] \in {workflow[d], Idle} \/ AskedInv(d)'
  BY <1>6, <1>8, AskedMoves
<1> QED
  BY <1>2, <1>6, <1>9, OfferSettles

(* An answer imported with its ancestry settles. *)
LEMMA ImportPayLinkAcceptanceTables ==
    ASSUME ExchangeInv, TablesInv, NEW n \in Nodes, NEW reply \in replies,
           ImportPayLinkAcceptance(n, reply)
    PROVE  TablesInv'
<1>1. PICK records : records = AcceptanceRecords(reply)
  OBVIOUS
<1>2. Len(records) = 5 /\ DOMAIN records = 1..5
  BY <1>1, AcceptanceRecordsAre DEF AcceptanceRecords
<1>3. \A i \in 1..5 : Authentic(records[i])
  <2>1. Authentic(records[1]) /\ Authentic(records[2]) /\ Authentic(records[3])
    BY <1>1, AcceptanceRecordsAre DEF ExchangeInv, LinkInv, ReplyInv
  <2>2. Authentic(records[4]) /\ Authentic(records[5])
    BY <1>1, AcceptanceRecordsAre DEF ExchangeInv, ReplyInv
  <2>3. \A i \in 1..5 : i \in {1, 2, 3, 4, 5}
    OBVIOUS
  <2> QED
    BY <2>1, <2>2, <2>3
<1>4. PICK next : next = BatchStored(n, records, "remote")
  OBVIOUS
<1>5. /\ ~BatchRefused(n, records, "remote")
      /\ tables' = [tables EXCEPT ![n] = next]
      /\ workflow' = workflow /\ links' = links /\ now' = now
  BY <1>1, <1>4 DEF ImportPayLinkAcceptance
<1>6. Settled(n, next)
  BY <1>2, <1>3, <1>4, <1>5, BatchSettled DEF TablesInv
<1>7. Onward /\ \A m \in Nodes : Signed(m)' = Signed(m)
  <2>1. tables' = [tables EXCEPT ![n] = BatchStored(n, records, "remote")]
    BY <1>4, <1>5
  <2>2. Len(records) \in Nat /\ \A i \in 1..Len(records) : Authentic(records[i])
    BY <1>2, <1>3
  <2> QED
    BY <1>5, <2>1, <2>2, Imports
<1>8. PICK none : none = {}
  OBVIOUS
<1>9. Signed(n)' \subseteq Signed(n) \cup none /\ \A r \in none : Lawful(r)
  BY <1>7, <1>8
<1> QED
  BY <1>5, <1>6, <1>7, <1>9, TablesMove

(* A crash leaves the tables alone. *)
LEMMA NodeCrashTables ==
    ASSUME ExchangeInv, TablesInv, NEW n \in Nodes, NodeCrash(n)
    PROVE  TablesInv'
<1>1. Onward
  BY TablesStay DEF ExchangeInv, NodeCrash
<1>2. \A c \in Callers : workflow'[c] \in {workflow[c], Idle}
  BY DEF NodeCrash
<1> QED
  BY <1>1, <1>2, TablesRest DEF NodeCrash

(* Time leaves the tables alone. *)
LEMMA TickTables ==
    ASSUME ExchangeInv, TablesInv, Tick
    PROVE  TablesInv'
<1>1. now' \in Nat /\ now <= now'
  BY DEF ExchangeInv, Tick
<1>2. Onward
  BY <1>1, TablesStay DEF Tick
<1> QED
  BY <1>2, TablesRest DEF Tick

(* The descriptor that activation appends is lawful and fits. *)
LEMMA ActivatedTables ==
    ASSUME ExchangeInv, TablesInv, NEW c \in Callers, Activated(c)
    PROVE  TablesInv'
<1>1. PICK x : x = workflow[c]
  OBVIOUS
<1>2. x.phase = "activating"
  BY <1>1 DEF Activated
<1>3. PICK n \in Nodes : n = Home[c]
  BY ExchangeAssumption
<1>4. Carries(n, x) /\ Asked(n, x)
  BY <1>1, <1>2, <1>3, BusyCarries, BusyAsked
<1>5. PICK d : d = IF ReusesSeen(n, x) THEN x.seen ELSE NewDescriptor(n, x.roles, x.at)
  OBVIOUS
<1>6. PICK w : /\ w = Idle \/ /\ w.phase = "manifest" /\ w.op = x.op /\ w.form = x.form
               /\ workflow' = [workflow EXCEPT ![c] = w]
  <2>1. PICK v : v = [phase |-> "manifest", op |-> x.op, form |-> x.form,
                      at |-> now, descriptor |-> d]
    OBVIOUS
  <2>2. v.phase = "manifest" /\ v.op = x.op /\ v.form = x.form
    BY <2>1
  <2>3. workflow' = [workflow EXCEPT ![c] = v] \/ workflow' = [workflow EXCEPT ![c] = Idle]
    BY <1>1, <1>3, <1>5, <2>1 DEF Activated
  <2> QED
    BY <2>2, <2>3
<1>7. /\ tables' = [tables EXCEPT ![n] = Appended(n, tables[n], d, "local")]
      /\ links' = links /\ now' = now
  BY <1>1, <1>3, <1>5 DEF Activated
<1>8. w = Idle \/ Asked(Home[c], w)'
  BY <1>4, <1>6 DEF Asked
<1>9. \A e \in Callers : workflow'[e] \in {workflow[e], Idle} \/ AskedInv(e)'
  BY <1>6, <1>8, AskedMoves
<1>10. CASE ReusesSeen(n, x)
  <2>1. d \in Signed(n)
    BY <1>2, <1>4, <1>5, <1>10 DEF ReusesSeen, Carries
  <2>2. tables' = tables
    BY <1>7, <2>1, Repeats
  <2>3. Onward
    BY <1>7, <2>2, TablesStay DEF ExchangeInv
  <2> QED
    BY <1>9, <2>2, <2>3, TablesRest
<1>11. CASE ~ReusesSeen(n, x)
  <2>1. x.at \in Nat /\ x.roles \in (SUBSET NodeRoles) \ {{}}
    BY <1>2, <1>4 DEF Carries, Asked
  <2>2. d = NewDescriptor(n, x.roles, x.at)
    BY <1>5, <1>11
  <2>3. Lawful(d) /\ d.parent = NoRecord
    BY <2>1, <2>2, DescriptorLawful
  <2>4. d.authority = Auth(n) /\ d.nonce = Cardinality(OwnRecords(n)) + 1 /\ d.bytes = 1
    <3>1. PICK body : body = [roles |-> x.roles,
                 endpoints |-> {[rel |-> rel, path |-> "canonical"] : rel \in EndpointRels}]
      OBVIOUS
    <3>2. Composed(d, n, "node_descriptor", "node", Public, "public", x.at, NoRecord, body)
      BY <2>2, <3>1 DEF Composed, NewDescriptor
    <3> QED
      BY <3>2, CommonIs
  <2>5. RefusalAt(n, tables[n], d, "local") = "none"
    BY <2>3, <2>4, FreshFits
  <2> QED
    BY <1>7, <1>9, <2>3, <2>4, <2>5, SignsLawful
<1> QED
  BY <1>10, <1>11

(* The manifest a call is about to sign. *)
ManifestOf(n, x) ==
    IF x.op = "create" THEN NewManifest(n, Public, "public", x.at, x.at)
    ELSE NewManifest(n, x.form.link.request.authority.key_id, "private",
                     x.form.accepted_at, x.at)

(* The parts of the manifest a call signs. *)
LEMMA ManifestOfIs ==
    ASSUME ExchangeInv, NEW n \in Nodes, NEW x, Carries(n, x), x.phase = "manifest",
           NEW m, m = ManifestOf(n, x)
    PROVE  /\ Lawful(m) /\ m.parent = NoRecord
           /\ m.authority = Auth(n) /\ m.nonce = Cardinality(OwnRecords(n)) + 1 /\ m.bytes = 1
<1>1. PICK to, shown, assessed :
         /\ shown = IF x.op = "create" THEN "public" ELSE "private"
         /\ to = IF x.op = "create" THEN Public ELSE x.form.link.request.authority.key_id
         /\ assessed = IF x.op = "create" THEN x.at ELSE x.form.accepted_at
  OBVIOUS
<1>2. m = NewManifest(n, to, shown, assessed, x.at)
  BY <1>1 DEF ManifestOf
<1>3. x.at \in Nat /\ assessed \in Nat /\ assessed <= x.at
  BY <1>1 DEF Carries, AcceptForm
<1>4. shown \in {"public", "private"}
  BY <1>1
<1>5. Lawful(m) /\ m.parent = NoRecord
  BY <1>2, <1>3, <1>4, ManifestLawful
<1>6. PICK body : body = [manifest |-> BitcoinManifest(assessed)]
  OBVIOUS
<1>7. Composed(m, n, "asset_trust_manifest", "asset", to, shown, x.at, NoRecord, body)
  BY <1>2, <1>6 DEF Composed, NewManifest
<1> QED
  BY <1>5, <1>7, CommonIs

(* The manifest a call appends is lawful and fits. *)
LEMMA ManifestAppendedTables ==
    ASSUME ExchangeInv, TablesInv, NEW c \in Callers, ManifestAppended(c)
    PROVE  TablesInv'
<1>1. PICK x : x = workflow[c]
  OBVIOUS
<1>2. x.phase = "manifest"
  BY <1>1 DEF ManifestAppended
<1>3. PICK n \in Nodes : n = Home[c]
  BY ExchangeAssumption
<1>4. Carries(n, x) /\ Asked(n, x)
  BY <1>1, <1>2, <1>3, BusyCarries, BusyAsked
<1>5. PICK m : m = ManifestOf(n, x)
  OBVIOUS
<1>6. PICK w : w = [phase |-> "checking", op |-> x.op, form |-> x.form, at |-> now,
                    descriptor |-> x.descriptor, manifest |-> m]
  OBVIOUS
<1>7. /\ tables' = [tables EXCEPT ![n] = Appended(n, tables[n], m, "local")]
      /\ workflow' = [workflow EXCEPT ![c] = w]
      /\ links' = links /\ now' = now
  BY <1>1, <1>3, <1>5, <1>6 DEF ManifestAppended, ManifestOf
<1>8. w.phase = "checking" /\ w.op = x.op /\ w.form = x.form
  BY <1>6
<1>9. Asked(Home[c], w)'
  BY <1>4, <1>8 DEF Asked
<1>10. \A e \in Callers : workflow'[e] \in {workflow[e], Idle} \/ AskedInv(e)'
  BY <1>7, <1>9, AskedMoves
<1>11. /\ Lawful(m) /\ m.parent = NoRecord
       /\ m.authority = Auth(n) /\ m.nonce = Cardinality(OwnRecords(n)) + 1 /\ m.bytes = 1
  BY <1>2, <1>4, <1>5, ManifestOfIs
<1>12. RefusalAt(n, tables[n], m, "local") = "none"
  BY <1>11, FreshFits
<1> QED
  BY <1>7, <1>10, <1>11, <1>12, SignsLawful

(* The checks before a request is signed append nothing. *)
LEMMA RequestCheckedTables ==
    ASSUME ExchangeInv, TablesInv, NEW c \in Callers, RequestChecked(c)
    PROVE  TablesInv'
<1>1. PICK x : x = workflow[c]
  OBVIOUS
<1>2. x.phase = "checking" /\ x.op = "create"
  BY <1>1 DEF RequestChecked
<1>3. PICK n \in Nodes : n = Home[c]
  BY ExchangeAssumption
<1>4. Asked(n, x)
  BY <1>1, <1>2, <1>3, BusyAsked
<1>5. PICK v : v = [phase |-> "signing", op |-> "create", form |-> x.form, at |-> x.at,
                    descriptor |-> x.descriptor, manifest |-> x.manifest,
                    parent |-> Latest(n)]
  OBVIOUS
<1>6. v.phase = "signing" /\ v.op = "create" /\ v.form = x.form /\ v.parent = Latest(n)
  BY <1>5
<1>7. tables' = tables /\ links' = links /\ now' = now
  BY DEF RequestChecked
<1>8. \/ workflow' = [workflow EXCEPT ![c] = v] /\ Latest(n) # NoRecord
      \/ workflow' = [workflow EXCEPT ![c] = Idle]
  BY <1>1, <1>3, <1>5 DEF RequestChecked, CanSign
<1>9. CASE workflow' = [workflow EXCEPT ![c] = v] /\ Latest(n) # NoRecord
  <2>1. Signed(n)' = Signed(n)
    BY <1>7 DEF Signed, OwnRecords
  <2>2. v.parent \in Signed(n)'
    BY <1>6, <1>9, <2>1, LatestIs
  <2>3. Asked(n, v)'
    BY <1>2, <1>4, <1>6, <2>2 DEF Asked
  <2> QED
    BY <1>3, <1>7, <1>9, <2>3, AskedOnly
<1>10. CASE workflow' = [workflow EXCEPT ![c] = Idle]
  BY <1>7, <1>10, AskedOnly
<1> QED
  BY <1>8, <1>9, <1>10

(* The checks before an intent is signed append nothing. *)
LEMMA IntentCheckedTables ==
    ASSUME ExchangeInv, TablesInv, NEW c \in Callers, IntentChecked(c)
    PROVE  TablesInv'
<1>1. PICK x : x = workflow[c]
  OBVIOUS
<1>2. PICK v : v = [phase |-> "signing", op |-> "accept", form |-> x.form,
                    at |-> x.at, manifest |-> x.manifest]
  OBVIOUS
<1>3. v.phase = "signing" /\ v.op = "accept"
  BY <1>2
<1>4. Asked(Home[c], v)'
  BY <1>3 DEF Asked
<1>5. /\ tables' = tables /\ links' = links /\ now' = now
      /\ \/ workflow' = [workflow EXCEPT ![c] = v]
         \/ workflow' = [workflow EXCEPT ![c] = Idle]
  BY <1>1, <1>2 DEF IntentChecked
<1> QED
  BY <1>4, <1>5, AskedOnly

(* The request a call appends is lawful, refused or not. *)
LEMMA RequestAppendedTables ==
    ASSUME ExchangeInv, TablesInv, NEW c \in Callers, RequestAppended(c)
    PROVE  TablesInv'
<1>1. PICK x : x = workflow[c]
  OBVIOUS
<1>2. x.phase = "signing" /\ x.op = "create"
  BY <1>1 DEF RequestAppended
<1>3. PICK n \in Nodes : n = Home[c]
  BY ExchangeAssumption
<1>4. Carries(n, x) /\ Asked(n, x)
  BY <1>1, <1>2, <1>3, BusyCarries, BusyAsked
<1>5. PICK r : r = NewRequest(n, x.form, x.parent, x.manifest, x.at)
  OBVIOUS
<1>6. /\ \/ /\ tables' = [tables EXCEPT ![n] = Appended(n, tables[n], r, "local")]
            /\ RefusalAt(n, tables[n], r, "local") = "none"
         \/ tables' = tables
      /\ links \subseteq links' /\ now' = now
      /\ workflow' = [workflow EXCEPT ![c] = Idle]
  BY <1>1, <1>3, <1>5 DEF RequestAppended
<1>7. \A e \in Callers : workflow'[e] \in {workflow[e], Idle} \/ AskedInv(e)'
  BY <1>6, AskedMoves
<1>8. CASE tables' = tables
  <2>1. Onward
    BY <1>6, <1>8, TablesStay DEF ExchangeInv
  <2> QED
    BY <1>7, <1>8, <2>1, TablesRest
<1>9. CASE /\ tables' = [tables EXCEPT ![n] = Appended(n, tables[n], r, "local")]
           /\ RefusalAt(n, tables[n], r, "local") = "none"
  <2>1. x.at \in Nat /\ ValidTerms(x.form.destination, x.form.amount) /\ x.parent \in Signed(n)
    BY <1>2, <1>4 DEF Carries, Asked
  <2>2. x.parent # NoRecord
    <3>1. Authentic(x.parent)
      BY <2>1, SignedIsAuthentic DEF ExchangeInv
    <3> QED
      BY <3>1, IsARecord DEF ExchangeInv
  <2>3. /\ r.authority = Auth(n) /\ r.nonce = Cardinality(OwnRecords(n)) + 1 /\ r.bytes = 1
        /\ r.parent = x.parent /\ r.schema = "payment_request"
    <3>1. PICK body : body = With(OfferTerms(x.form),
              [purpose_hash |-> PurposeHash([note |-> x.form.note, reply_to |-> "offline"]),
               asset_trust |-> BindingTo(x.manifest)])
      OBVIOUS
    <3>2. Composed(r, n, "payment_request", "request", Public, "public", x.at, x.parent, body)
      BY <1>5, <3>1 DEF Composed, NewRequest
    <3> QED
      BY <3>2, CommonIs
  <2>4. r \notin Signed(n)
    BY <2>3, OwnRecordsFinite DEF ExchangeInv, OwnInv, Own
  <2>5. Linked(r, x.parent)
    BY <1>9, <2>2, <2>3, <2>4, OwnAdmitted
  <2>6. Lawful(r)
    BY <1>5, <2>1, <2>2, <2>5, RequestLawful
  <2> QED
    BY <1>6, <1>7, <1>9, <2>3, <2>6, SignsLawful
<1> QED
  BY <1>6, <1>8, <1>9

(* The intent a call appends is lawful, refused or not. *)
LEMMA IntentAppendedTables ==
    ASSUME ExchangeInv, TablesInv, NEW c \in Callers, IntentAppended(c)
    PROVE  TablesInv'
<1>1. PICK x : x = workflow[c]
  OBVIOUS
<1>2. x.phase = "signing" /\ x.op = "accept"
  BY <1>1 DEF IntentAppended
<1>3. PICK n \in Nodes : n = Home[c]
  BY ExchangeAssumption
<1>4. Carries(n, x)
  BY <1>1, <1>2, <1>3, BusyCarries
<1>5. PICK link : link = x.form.link
  OBVIOUS
<1>6. PICK i : i = NewIntent(n, x.form, link.request, x.manifest, x.at)
  OBVIOUS
<1>7. /\ \/ /\ tables' = [tables EXCEPT ![n] = Appended(n, tables[n], i, "local")]
            /\ RefusalAt(n, tables[n], i, "local") = "none"
         \/ tables' = tables
      /\ links' = links /\ now' = now
      /\ workflow' = [workflow EXCEPT ![c] = Idle]
  BY <1>1, <1>3, <1>5, <1>6 DEF IntentAppended
<1>8. \A e \in Callers : workflow'[e] \in {workflow[e], Idle} \/ AskedInv(e)'
  BY <1>7, AskedMoves
<1>9. CASE tables' = tables
  <2>1. Onward
    BY <1>7, <1>9, TablesStay DEF ExchangeInv
  <2> QED
    BY <1>8, <1>9, <2>1, TablesRest
<1>10. CASE /\ tables' = [tables EXCEPT ![n] = Appended(n, tables[n], i, "local")]
            /\ RefusalAt(n, tables[n], i, "local") = "none"
  <2>1. Signing(n, x, link, i)
    BY <1>2, <1>4, <1>5, <1>6 DEF Signing
  <2>2. Verified(i)
    BY <2>1, IntentVerifies DEF VerifiedAt
  <2>3. /\ i.authority = Auth(n) /\ i.nonce = Cardinality(OwnRecords(n)) + 1 /\ i.bytes = 1
        /\ i.parent = link.request /\ i.schema = "payment_intent"
    BY <1>6, IntentIs
  <2>4. i.parent # NoRecord
    BY <2>1, <2>3, SigningIs, IsARecord DEF LinkInv, ExchangeInv
  <2>5. i \notin Signed(n)
    BY <2>3, OwnRecordsFinite DEF ExchangeInv, OwnInv, Own
  <2>6. Linked(i, i.parent)
    BY <1>10, <2>3, <2>4, <2>5, OwnAdmitted
  <2>7. Lawful(i)
    BY <2>2, <2>3, <2>6 DEF Lawful, LeafSchemas
  <2> QED
    BY <1>7, <1>8, <1>10, <2>3, <2>7, SignsLawful
<1> QED
  BY <1>7, <1>9, <1>10

(* Every step of the exchange keeps its tables. *)
LEMMA NextTables == ExchangeInv /\ TablesInv /\ [ExchangeNext]_exchangeVars => TablesInv'
<1> SUFFICES ASSUME ExchangeInv, TablesInv, [ExchangeNext]_exchangeVars PROVE TablesInv'
  OBVIOUS
<1>1. ASSUME NEW c \in Callers, NEW roles \in RoleChoices, ActivateNode(c, roles)
      PROVE  TablesInv'
  BY <1>1, ActivateNodeTables
<1>2. ASSUME NEW c \in Callers, NEW d \in Destinations, NEW a \in Amounts, NEW t \in Notes,
             CreateBitcoinPayLink(c, [destination |-> d, amount |-> a, note |-> t])
      PROVE  TablesInv'
  BY <1>2, CreateBitcoinPayLinkTables
<1>3. ASSUME NEW c \in Callers, NEW file \in Delivered, NEW s \in SourceAccounts, NEW f \in Fees,
             AcceptBitcoinPayLink(c, file, [source |-> s, max_fee |-> f])
      PROVE  TablesInv'
  BY <1>3, AcceptBitcoinPayLinkTables
<1>4. ASSUME NEW c \in Callers, Activated(c) PROVE TablesInv'
  BY <1>4, ActivatedTables
<1>5. ASSUME NEW c \in Callers, ManifestAppended(c) PROVE TablesInv'
  BY <1>5, ManifestAppendedTables
<1>6. ASSUME NEW c \in Callers, RequestChecked(c) PROVE TablesInv'
  BY <1>6, RequestCheckedTables
<1>7. ASSUME NEW c \in Callers, RequestAppended(c) PROVE TablesInv'
  BY <1>7, RequestAppendedTables
<1>8. ASSUME NEW c \in Callers, IntentChecked(c) PROVE TablesInv'
  BY <1>8, IntentCheckedTables
<1>9. ASSUME NEW c \in Callers, IntentAppended(c) PROVE TablesInv'
  BY <1>9, IntentAppendedTables
<1>10. ASSUME NEW n \in Nodes, NodeCrash(n) PROVE TablesInv'
  BY <1>10, NodeCrashTables
<1>11. ASSUME NEW n \in Nodes, NEW file \in Delivered, ImportPayLink(n, file)
       PROVE  TablesInv'
  BY <1>11, ImportPayLinkTables
<1>12. ASSUME NEW n \in Nodes, NEW reply \in replies, ImportPayLinkAcceptance(n, reply)
       PROVE  TablesInv'
  BY <1>12, ImportPayLinkAcceptanceTables
<1>13. CASE Tick
  BY <1>13, TickTables
<1>14. CASE UNCHANGED exchangeVars
  <2>1. tables' = tables /\ workflow' = workflow /\ links' = links /\ now' = now
    BY <1>14 DEF exchangeVars
  <2>2. Onward
    BY <2>1, TablesStay DEF ExchangeInv
  <2> QED
    BY <2>1, <2>2, TablesRest
<1> QED
  BY <1>1, <1>2, <1>3, <1>4, <1>5, <1>6, <1>7, <1>8, <1>9, <1>10, <1>11, <1>12, <1>13, <1>14
     DEF ExchangeNext

(* Empty tables are settled. *)
LEMMA InitTables == ExchangeInit => TablesInv
<1> SUFFICES ASSUME ExchangeInit PROVE TablesInv
  OBVIOUS
<1>1. \A n \in Nodes : tables[n] = {}
  BY DEF ExchangeInit
<1>2. \A n \in Nodes : Signed(n) = {}
  BY <1>1 DEF Signed, OwnRecords
<1>3. ASSUME NEW n \in Nodes PROVE Settled(n, tables[n])
  <2>1. PICK none : none = {}
    OBVIOUS
  <2>2. RemoteRows(none) = {} /\ Stored({}) = {} /\ Stored(none) = {}
    BY <2>1 DEF RemoteRows, Stored
  <2>3. Used(none).count = 0 /\ Used(none).bytes = 0
    BY <2>2, UsedIs, SizeEmpty, FS_EmptySet
  <2>4. PICK b : b = Budget[n]
    OBVIOUS
  <2>5. b.count \in Nat /\ b.bytes \in Nat
    BY <2>4, ExchangeAssumption
  <2>6. InBudget(n, none)
    BY <2>3, <2>4, <2>5 DEF InBudget
  <2> QED
    BY <1>1, <2>1, <2>2, <2>6 DEF Settled
<1>4. \A c \in Callers : AskedInv(c)
  BY DEF ExchangeInit, AskedInv
<1> QED
  BY <1>2, <1>3, <1>4 DEF TablesInv

(* Both invariants hold in every state of the exchange. *)
LEMMA TablesInvariance == ExchangeSpec => [](ExchangeInv /\ TablesInv)
BY InitHolds, InitTables, NextKeeps, NextTables, PTL DEF ExchangeSpec

(* What the record store promises of its one table, of the table of a node. *)
TableSound(n) ==
    /\ AllVerified(tables[n])
    /\ EdgesHold(tables[n])
    /\ NoncesDistinct(Stored(tables[n]))
    /\ SuccessorsIn(tables[n])
    /\ PublicAncestryIn(tables[n])
    /\ \A row \in tables[n] : Addressed(n, row)
    /\ InBudget(n, tables[n])

(* The two invariants make a table what the store promises. *)
LEMMA TablesAreSound ==
    ASSUME ExchangeInv, TablesInv, NEW n \in Nodes
    PROVE  TableSound(n)
<1>1. PICK table : table = tables[n]
  OBVIOUS
<1>2. \A row \in table : row.record \in Stored(table) /\ Authentic(row.record)
  BY <1>1 DEF ExchangeInv, RowsInv, Stored
<1>3. \A r \in Stored(table) : Authentic(r) /\ Lawful(r)
  BY <1>2, LawfulTravels DEF Stored
<1>4. Settled(n, table)
  BY <1>1 DEF TablesInv
<1>5. AllVerified(table) /\ EdgesHold(table)
  BY <1>3, <1>4 DEF AllVerified, EdgesHold, Lawful, Settled
<1>6. NoncesDistinct(Stored(table))
  BY <1>3, OneRecord DEF NoncesDistinct, ExchangeInv
<1>7. SuccessorsIn(table)
  <2>1. SUFFICES ASSUME NEW x \in table, NEW y \in table,
                        x.record.parent = y.record.parent,
                        x.record.schema = y.record.schema,
                        \/ x.record.schema \in LeafSchemas
                        \/ /\ x.record.schema = "payment_intent"
                           /\ x.record.authority.key_id = y.record.authority.key_id
                 PROVE  x = y
    BY DEF SuccessorsIn
  <2>2. x.record.schema = "payment_intent" /\ x.record.authority.key_id = y.record.authority.key_id
    BY <1>2, <1>3, <2>1 DEF Lawful
  <2>3. x.record = y.record
    BY <1>2, <2>1, <2>2, OneIntent
  <2> QED
    BY <1>1, <2>3 DEF ExchangeInv, RowsInv, RowsUnique
<1>8. PublicAncestryIn(table)
  <2>1. SUFFICES ASSUME NEW row \in PublicRows(table), row.record.parent # NoRecord
                 PROVE  \E p \in PublicRows(table) : p.record = row.record.parent
    BY DEF PublicAncestryIn
  <2>2. row.record \in Stored(table) /\ row.record.disclosure = "public"
    BY DEF PublicRows, Stored
  <2>3. row.record.parent \in Stored(table) /\ Linked(row.record, row.record.parent)
    BY <1>5, <2>1, <2>2 DEF EdgesHold
  <2>4. row.record.parent.disclosure = "public"
    BY <2>2, <2>3 DEF Linked
  <2> QED
    BY <2>3, <2>4 DEF Stored, PublicRows
<1> QED
  BY <1>1, <1>4, <1>5, <1>6, <1>7, <1>8 DEF TableSound, Settled

(* What activation and the manifest of a call are about to append is taken: *)
(* Activated and ManifestAppended have no refusal to handle.                *)
RootsFit(c) ==
    LET n == Home[c]
        x == workflow[c]
    IN  /\ x.phase = "activating" =>
              RefusalAt(n, tables[n],
                        IF ReusesSeen(n, x) THEN x.seen ELSE NewDescriptor(n, x.roles, x.at),
                        "local") = "none"
        /\ x.phase = "manifest" =>
              RefusalAt(n, tables[n], ManifestOf(n, x), "local") = "none"

(* The two invariants leave append() no reason to refuse a root. *)
LEMMA RootsAlwaysFit ==
    ASSUME ExchangeInv, TablesInv, NEW c \in Callers
    PROVE  RootsFit(c)
<1>1. PICK n \in Nodes : n = Home[c]
  BY ExchangeAssumption
<1>2. PICK x : x = workflow[c]
  OBVIOUS
<1>3. ASSUME x.phase = "activating"
      PROVE  RefusalAt(n, tables[n],
                       IF ReusesSeen(n, x) THEN x.seen ELSE NewDescriptor(n, x.roles, x.at),
                       "local") = "none"
  <2>1. Carries(n, x) /\ Asked(n, x)
    BY <1>1, <1>2, <1>3, BusyCarries, BusyAsked
  <2>2. CASE ReusesSeen(n, x)
    BY <1>3, <2>1, <2>2, RepeatFits DEF ReusesSeen, Carries
  <2>3. CASE ~ReusesSeen(n, x)
    <3>1. PICK d : d = NewDescriptor(n, x.roles, x.at)
      OBVIOUS
    <3>2. PICK body : body = [roles |-> x.roles,
                 endpoints |-> {[rel |-> rel, path |-> "canonical"] : rel \in EndpointRels}]
      OBVIOUS
    <3>3. Composed(d, n, "node_descriptor", "node", Public, "public", x.at, NoRecord, body)
      BY <3>1, <3>2 DEF Composed, NewDescriptor
    <3>4. /\ d.parent = NoRecord /\ d.authority = Auth(n)
          /\ d.nonce = Cardinality(OwnRecords(n)) + 1
      BY <3>3, CommonIs
    <3> QED
      BY <2>3, <3>1, <3>4, FreshFits
  <2> QED
    BY <2>2, <2>3
<1>4. ASSUME x.phase = "manifest"
      PROVE  RefusalAt(n, tables[n], ManifestOf(n, x), "local") = "none"
  <2>1. Carries(n, x)
    BY <1>1, <1>2, <1>4, BusyCarries
  <2>2. PICK m : m = ManifestOf(n, x)
    OBVIOUS
  <2>3. /\ m.parent = NoRecord /\ m.authority = Auth(n)
        /\ m.nonce = Cardinality(OwnRecords(n)) + 1
    BY <1>4, <2>1, <2>2, ManifestOfIs
  <2> QED
    BY <2>2, <2>3, FreshFits
<1> QED
  BY <1>1, <1>2, <1>3, <1>4 DEF RootsFit

(* Every node of an exchange keeps what the store promises: whatever two    *)
(* nodes append and import, in whatever order and however stale, a table    *)
(* holds only verified records whose parents it holds, one intent per       *)
(* request and payer, public records with their ancestry, private ones only *)
(* of its own or for itself, and no more from outside than its budget.      *)
THEOREM EveryTableIsAStore == ExchangeSpec => [](\A n \in Nodes : TableSound(n))
<1>1. ExchangeInv /\ TablesInv => \A n \in Nodes : TableSound(n)
  BY TablesAreSound
<1> QED
  BY <1>1, TablesInvariance, PTL

(* A node can always append the descriptor or the manifest it is about to  *)
(* sign, although it read its table before an await and others appended    *)
(* since: activation and the first half of an offer or an answer never     *)
(* fail at the store.                                                      *)
THEOREM OwnRootsAreNeverRefused == ExchangeSpec => [](\A c \in Callers : RootsFit(c))
<1>1. ExchangeInv /\ TablesInv => \A c \in Callers : RootsFit(c)
  BY RootsAlwaysFit
<1> QED
  BY <1>1, TablesInvariance, PTL

=============================================================================
