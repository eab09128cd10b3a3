------------------------------- MODULE Parking -------------------------------
(***************************************************************************)
(* What ParkingLot promises: every address has one first-in-first-out      *)
(* queue of parked threads.  A thread joins the queue of an address in one *)
(* step with its validation; whoever unparks takes threads from the front  *)
(* in one step, and wakes them later; a parked thread leaves by itself     *)
(* only while nobody has taken it.                                         *)
(***************************************************************************)
EXTENDS Naturals, Sequences

CONSTANTS Threads, Addresses

VARIABLES waiters,   \* the queue of every address
          taken      \* threads taken from a queue and not woken yet

Elements(s) == {s[i] : i \in DOMAIN s}

Init ==
    /\ waiters = [a \in Addresses |-> <<>>]
    /\ taken = {}

Parked == taken \cup UNION {Elements(waiters[a]) : a \in Addresses}

Park(t, a) ==
    /\ t \notin Parked
    /\ waiters' = [waiters EXCEPT ![a] = Append(@, t)]
    /\ UNCHANGED taken

\* The first n threads of the queue of a
Take(a, n) ==
    /\ n \in 1 .. Len(waiters[a])
    /\ waiters' = [waiters EXCEPT ![a] = SubSeq(@, n + 1, Len(@))]
    /\ taken' = taken \cup Elements(SubSeq(waiters[a], 1, n))

Wake(t) ==
    /\ t \in taken
    /\ taken' = taken \ {t}
    /\ UNCHANGED waiters

GiveUp(t, a) ==
    /\ t \in Elements(waiters[a])
    /\ waiters' = [waiters EXCEPT ![a] = SelectSeq(@, LAMBDA u : u # t)]
    /\ UNCHANGED taken

Next ==
    /\ <<waiters, taken>>' # <<waiters, taken>>
    /\ \/ \E t \in Threads : Wake(t)
       \/ \E t \in Threads, a \in Addresses : Park(t, a) \/ GiveUp(t, a)
       \/ \E a \in Addresses : \E n \in 1 .. Len(waiters[a]) : Take(a, n)

Spec == Init /\ [][Next]_<<waiters, taken>>
==============================================================================
