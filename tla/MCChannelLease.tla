----------------------------- MODULE MCChannelLease -----------------------------
(***************************************************************************)
(* ChannelLease for TLC, and its refinement of SessionSlots.               *)
(***************************************************************************)
EXTENDS ChannelLease

\* The coordinator keeps the promise of SessionSlots: the leases of a channel
\* are the users of its slots and its waiters the line, whichever state object
\* stores them (getChannelLoadSnapshot reads the same two).
Slots == INSTANCE SessionSlots
            WITH users <- [c \in Channels |-> Leases(c)],
                 line <- [c \in Channels |-> Waiters(c)]

ImplementsSlots == Slots!SlotsSpec
=============================================================================
