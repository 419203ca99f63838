-------------------------- MODULE JobClaimsProofs --------------------------
(***************************************************************************)
(* No turn has two claims, for any jobs and workers: a new claim carries   *)
(* the number after every claim its job has had, as long as the job is not *)
(* deleted, and a deleted job is never taken again.                        *)
(***************************************************************************)
EXTENDS JobClaims, TLAPS

Types ==
  /\ holder \in [Jobs -> Workers \cup {None}]
  /\ turn \in [Jobs -> Nat]
  /\ claims \subseteq [worker : Workers, job : Jobs, turn : Nat]

FencedInv == Types /\ Fenced

LEMMA TakeFenced ==
  ASSUME FencedInv, NEW w \in Workers, NEW j \in Jobs, Take(w, j)
  PROVE  FencedInv'
<1> USE DEF FencedInv
<1>1. Claim(w, j, turn[j] + 1) \in [worker : Workers, job : Jobs, turn : Nat]
  BY DEF Types, Claim
<1>2. Types'
  BY <1>1 DEF Take, Types
<1>3. j \notin gone /\ UNCHANGED gone
  BY DEF Take
<1>4. /\ turn'[j] = turn[j] + 1 /\ turn[j] \in Nat
      /\ \A k \in Jobs : k # j => turn'[k] = turn[k] /\ holder'[k] = holder[k]
      /\ holder'[j] = w
  BY DEF Take, Types
<1>5. \A c \in claims : c.job = j => c.turn <= turn[j] /\ c.turn \in Nat
  BY <1>3 DEF Fenced, Types
<1> DEFINE new == Claim(w, j, turn[j] + 1)
<1>6. new.worker = w /\ new.job = j /\ new.turn = turn[j] + 1
  BY DEF Claim
<1>7. claims' \subseteq claims \cup {new}
  BY DEF Take
<1> HIDE DEF new
<1>8. \A c, d \in claims' : c.job = d.job /\ c.turn = d.turn => c = d
  BY <1>4, <1>5, <1>6, <1>7 DEF Fenced
<1>9. ASSUME NEW c \in claims', c.job \notin gone'
      PROVE  /\ c.turn <= turn'[c.job]
             /\ c.turn = turn'[c.job] => holder'[c.job] \in {c.worker, None}
  <2>1. CASE c = new
    BY <1>4, <1>6, <2>1
  <2>2. CASE c \in claims /\ c.job = j
    BY <1>4, <1>5, <2>2
  <2>3. CASE c \in claims /\ c.job # j
    BY <1>3, <1>4, <1>9, <2>3 DEF Fenced, Types
  <2> QED BY <1>7, <2>1, <2>2, <2>3
<1> QED BY <1>2, <1>8, <1>9 DEF Fenced

LEMMA FencedStep == FencedInv /\ [Next]_cvars => FencedInv'
<1> SUFFICES ASSUME FencedInv, [Next]_cvars PROVE FencedInv'
  OBVIOUS
<1>1. CASE \E j \in Jobs, w \in Workers : Take(w, j)
  BY <1>1, TakeFenced
<1>2. CASE Release
  <2>1. /\ claims' \subseteq claims /\ gone \subseteq gone'
        /\ \A j \in Jobs : /\ holder'[j] \in {holder[j], None}
                           /\ j \notin gone' => turn'[j] = turn[j]
    BY <1>2 DEF Release
  <2>2. Types'
    BY <1>2, <2>1 DEF Release, FencedInv, Types
  <2>3. Fenced'
    BY <2>1 DEF FencedInv, Fenced, Types
  <2> QED BY <2>2, <2>3 DEF FencedInv
<1>3. CASE UNCHANGED cvars
  BY <1>3 DEF cvars, FencedInv, Types, Fenced
<1> QED BY <1>1, <1>2, <1>3 DEF Next

\* No turn has two claims, and the claim of the current turn is the holder's.
THEOREM NoTurnHasTwoClaims == Spec => []Fenced
<1>1. Init => FencedInv
  BY DEF Init, FencedInv, Types, Fenced
<1>2. FencedInv => Fenced
  BY DEF FencedInv
<1> QED BY <1>1, <1>2, FencedStep, PTL DEF Spec
=============================================================================
