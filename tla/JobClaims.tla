------------------------------ MODULE JobClaims ------------------------------
(***************************************************************************)
(* What the job table promises its workers, without leases, statuses or    *)
(* handlers: it is a lock on every job that counts its turns.  A turn      *)
(* starts when a worker takes a job nobody holds, and ends when the job is *)
(* released by whatever means: its holder's ack or nack, a late one of     *)
(* somebody else, an expired lease, the retry endpoint.  A worker can      *)
(* believe in a claim long after its turn is over, or lose the answer of   *)
(* the claim and never know of it; what the table promises is that no turn *)
(* ever has two claims.  JobQueue is shown to implement this module.       *)
(***************************************************************************)
EXTENDS Naturals

CONSTANTS Jobs, Workers, None

VARIABLES
  holder,   \* Jobs -> the worker whose turn it is, or None
  turn,     \* Jobs -> turns taken so far
  claims,   \* the claims workers act on, each with the number of its turn
  gone      \* jobs that have been deleted, with their count of turns

cvars == <<holder, turn, claims, gone>>

Claim(w, j, n) == [worker |-> w, job |-> j, turn |-> n]

Init ==
  /\ holder = [j \in Jobs |-> None]
  /\ turn = [j \in Jobs |-> 0]
  /\ claims = {}
  /\ gone = {}

\* The answer reaches the worker or is lost; other claims are not affected.
Take(w, j) ==
  /\ holder[j] = None /\ j \notin gone
  /\ holder' = [holder EXCEPT ![j] = w]
  /\ turn' = [turn EXCEPT ![j] = @ + 1]
  /\ claims' \in {claims, claims \cup {Claim(w, j, turn[j] + 1)}}
  /\ UNCHANGED gone

\* Turns end, workers let go of claims, jobs are deleted, or one of them: a
\* crash drops claims and leaves the turns, an expired lease ends turns and
\* leaves the claims, a deleted job forgets its turns but not its claims.
Release == \E deleted \in SUBSET Jobs, released \in SUBSET Jobs :
  /\ gone' = gone \cup deleted
  /\ holder' = [j \in Jobs |-> IF j \in released \cup deleted THEN None ELSE holder[j]]
  /\ turn' = [j \in Jobs |-> IF j \in deleted THEN 0 ELSE turn[j]]
  /\ claims' \subseteq claims

Next ==
  \/ \E w \in Workers, j \in Jobs : Take(w, j)
  \/ Release

Spec == Init /\ [][Next]_cvars

\* No turn has two claims, no claim is ahead of its job's turns, and the
\* claim of the current turn is the holder's.
Fenced ==
  /\ \A c, d \in claims : c.job = d.job /\ c.turn = d.turn => c = d
  /\ \A c \in claims : c.job \notin gone =>
       /\ c.turn <= turn[c.job]
       /\ c.turn = turn[c.job] => holder[c.job] \in {c.worker, None}
=============================================================================
