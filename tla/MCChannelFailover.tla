--------------------------- MODULE MCChannelFailover ---------------------------
(* Small instances of ChannelFailover for TLC. *)
EXTENDS ChannelFailover

CONSTANTS r1, r2, r3, r4, s1, c1, c2, c3, u1, ma, mb

\* Two requests of one session, and one that belongs to none.
OneSession == [r \in Requests |-> IF r \in {r1, r2} THEN s1 ELSE NoSession]
NoSessions == [r \in Requests |-> NoSession]

NothingForced == [r \in Requests |-> NoChannel]
TesterForcesC1 == [r \in Requests |-> IF r = r3 THEN c1 ELSE NoChannel]

NoPool == [u \in {} |-> {}]
NoOwner == [u \in {} |-> ma]
PoolOfTwo == [u \in {u1} |-> {ma, mb}]
PoolOfOne == [u \in {u1} |-> {ma}]
OwnerIsMa == [u \in {u1} |-> ma]
MbFirst == <<mb, ma>>
MaFirst == <<ma, mb>>
NoMembers == << >>

OneLayer == [c \in Channels |-> 0]
C1First == [c \in Channels |-> IF c = c1 THEN 0 ELSE 1]

OwnCredentials == [c \in Channels \ Units |-> {c}]
SharedCredential == [c \in Channels \ Units |-> Channels \ Units]
=============================================================================
