-------------------------- MODULE AdmissionControl --------------------------
(***************************************************************************)
(* What the proxy's worker pool promises to the requests it serves, with   *)
(* no worker identities, stacks or counters: at most `capacity` requests   *)
(* are admitted at a time, those that do not fit wait in one bounded FIFO  *)
(* line, and room never stays unused while somebody waits.  A reduction of *)
(* the capacity revokes nothing: surplus requests finish, and the room     *)
(* they leave is not given away until the line fits again.                 *)
(***************************************************************************)
EXTENDS Naturals, Sequences, SequencesExt

CONSTANTS
    Requests,    \* the requests that may ask for admission
    LineLimit,   \* the longest line allowed
    Capacities   \* the capacities the pool may be resized to

VARIABLES
    capacity,    \* how many requests may be admitted at a time
    admitted,    \* the requests being served
    line         \* the requests waiting, in order of arrival

avars == <<capacity, admitted, line>>

Waiting == Range(line)

\* Room left, if any, before and after a change of the admitted set.
HasRoom == Cardinality(admitted) < capacity

-----------------------------------------------------------------------------

AInit ==
    /\ capacity \in Capacities
    /\ admitted = {}
    /\ line = <<>>

Admit(r) ==
    /\ r \notin admitted \cup Waiting
    /\ HasRoom
    /\ admitted' = admitted \cup {r}
    /\ UNCHANGED <<capacity, line>>

Wait(r) ==
    /\ r \notin admitted \cup Waiting
    /\ ~HasRoom
    /\ Len(line) < LineLimit
    /\ line' = Append(line, r)
    /\ UNCHANGED <<capacity, admitted>>

\* A request in the line gives up; nobody overtakes anybody.
GiveUp(r) ==
    /\ \E i \in DOMAIN line : line[i] = r /\ line' = RemoveAt(line, i)
    /\ UNCHANGED <<capacity, admitted>>

\* A request is served; its room goes to the first of the line, unless the
\* pool is over its capacity.
Finish(r) ==
    /\ r \in admitted
    /\ \/ /\ line # <<>>
          /\ Cardinality(admitted) <= capacity
          /\ admitted' = (admitted \ {r}) \cup {Head(line)}
          /\ line' = Tail(line)
       \/ /\ line = <<>> \/ Cardinality(admitted) > capacity
          /\ admitted' = admitted \ {r}
          /\ UNCHANGED line
    /\ UNCHANGED capacity

\* More capacity admits as many of the line, from its front, as now fit.
Resize(c) ==
    /\ capacity' = c
    /\ \E m \in 0..Len(line) :
          /\ admitted' = admitted \cup {line[i] : i \in 1..m}
          /\ line' = SubSeq(line, m + 1, Len(line))
          /\ m > 0 => Cardinality(admitted') <= c
          /\ line' # <<>> => Cardinality(admitted') >= c

ANext ==
    \/ \E r \in Requests : Admit(r) \/ Wait(r) \/ GiveUp(r) \/ Finish(r)
    \/ \E c \in Capacities : Resize(c)

ASpec == AInit /\ [][ANext]_avars
=============================================================================
