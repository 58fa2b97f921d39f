-------------------------- MODULE ConnectionsProofs --------------------------
(***************************************************************************)
(* Theorems about Connections for any finite set of clients.               *)
(***************************************************************************)
EXTENDS Connections, SequenceLemmas, FiniteSetTheorems, TLAPS

\* The sockets accept() returned, and those of them erased since.
Accepted == {c \in Client : fd[c] # 0}
GivenUp == Accepted \ ToSet(sock_list)

\* The sets the variables range over, without the numbers; a message that was
\* begun has room for its rest.
Types ==
  /\ process \in {"running", "killed"}
  /\ client \in [Client -> {"new", "connected", "sending", "cut", "closed"}]
  /\ listen_queue \in Seq(Client) /\ sock_list \in Seq(Client)
  /\ inbox \in [Client -> 0 .. MaxInbox]
  /\ \A c \in Client : client[c] = "sending" => inbox[c] < MaxInbox
  /\ reading \subseteq Client
  /\ fd \in [Client -> Nat]
  /\ max_fd \in Nat
  /\ sending \in BOOLEAN
  /\ it \in Int
  /\ listed \subseteq Client
  /\ got \in [Client -> Nat]
  /\ outcome \in {"whole", "torn", "threw"}

\* A client waits for accept() once, before it has a socket; a socket is listed
\* once, and the one being read is.
QueueInv ==
  /\ IsInjective(listen_queue) /\ IsInjective(sock_list)
  /\ \A c \in ToSet(listen_queue) : fd[c] = 0 /\ client[c] # "new"
  /\ \A c \in Client : client[c] = "new" => fd[c] = 0
  /\ ToSet(sock_list) \subseteq Accepted
  /\ reading \subseteq ToSet(sock_list) /\ \A c, d \in reading : c = d

\* Descriptors are given out in order, and every accepted socket is listed or
\* was given up.
CountInv ==
  /\ \A c \in Client : fd[c] <= max_fd
  /\ max_fd \in 1 .. Cardinality(Accepted) + 1
  /\ Len(sock_list) + Cardinality(GivenUp) = Cardinality(Accepted)

\* A socket that is not listed any more was given up for cause.
KeptInv == \A c \in GivenUp : Ended(c) /\ inbox[c] = 0

\* The iterator went back for d of the sockets given up, and a message was sent
\* for each place it has passed.
IteratorInv ==
  \E d \in 0 .. Cardinality(GivenUp) :
    /\ 1 - d <= it /\ it + d <= Cardinality(Accepted) + 1
    /\ \A c \in Client : got[c] <= it - 1 + d

\* While nothing disturbs a broadcast, the sockets before the iterator have the
\* message and no other client does.
CastInv ==
  outcome = "whole" =>
    /\ sending =>
         /\ listed \subseteq ToSet(sock_list)
         /\ it \in 1 .. Len(sock_list) + 1
         /\ \A k \in 1 .. Len(sock_list) : got[sock_list[k]] = IF k < it THEN 1 ELSE 0
         /\ \A c \in Client \ ToSet(sock_list) : got[c] = 0
    /\ ~sending => \A c \in Client : got[c] \in (IF c \in listed THEN {1} ELSE {0, 1})

IInv == Types /\ QueueInv /\ CountInv /\ KeptInv /\ IteratorInv /\ CastInv

------------------------------------------------------------------------------
(***************************************************************************)
(* What the steps do to the sets the invariant is about.                   *)
(***************************************************************************)

\* There are finitely many sockets, no more than clients.
LEMMA Counted ==
  /\ IsFiniteSet(Accepted) /\ IsFiniteSet(GivenUp)
  /\ Cardinality(Client) \in Nat
  /\ Cardinality(Accepted) \in 0 .. Cardinality(Client)
  /\ Cardinality(GivenUp) \in 0 .. Cardinality(Accepted)
<1>1. Accepted \in SUBSET Client /\ GivenUp \in SUBSET Accepted
  BY DEF Accepted, GivenUp
<1>2. /\ IsFiniteSet(Accepted) /\ Cardinality(Accepted) <= Cardinality(Client)
  BY <1>1, ClientAssumption, FS_Subset
<1>3. /\ IsFiniteSet(GivenUp) /\ Cardinality(GivenUp) <= Cardinality(Accepted)
  BY <1>1, <1>2, FS_Subset
<1>4. QED
  BY <1>2, <1>3, ClientAssumption, FS_CardinalityType

\* Accept gives a descriptor to a client that had none and lists its socket last.
LEMMA AcceptEffect ==
  ASSUME Types, QueueInv, Accept
  PROVE  \E c \in Client \ Accepted :
           /\ client[c] # "new"
           /\ fd' = [fd EXCEPT ![c] = 2 + Cardinality(Accepted)]
           /\ max_fd' = Highest(2 + Cardinality(Accepted))
           /\ sock_list' = Append(sock_list, c)
           /\ c \notin ToSet(sock_list)
           /\ ToSet(sock_list') = ToSet(sock_list) \cup {c}
           /\ Accepted' = Accepted \cup {c}
           /\ GivenUp' = GivenUp
           /\ Cardinality(Accepted') = Cardinality(Accepted) + 1
           /\ listen_queue' \in Seq(Client)
           /\ ToSet(listen_queue') = ToSet(listen_queue) \ {c}
           /\ IsInjective(listen_queue')
<1> DEFINE c == Head(listen_queue)
<1>1. listen_queue # << >> /\ listen_queue' = Tail(listen_queue)
  BY DEF Accept
<1>2. c \in ToSet(listen_queue)
  BY <1>1, TailElements DEF Types
<1>3. c \in Client
  BY <1>2, Membership DEF Types
<1>4. fd[c] = 0 /\ client[c] # "new"
  BY <1>2 DEF QueueInv
<1>5. c \in Client \ Accepted /\ c \notin ToSet(sock_list)
  BY <1>3, <1>4 DEF Accepted, QueueInv
<1>6. /\ fd' = [fd EXCEPT ![c] = 2 + Cardinality(Accepted)]
      /\ max_fd' = Highest(2 + Cardinality(Accepted))
      /\ sock_list' = Append(sock_list, c)
  BY DEF Accept, Accepted, Listed
<1>7. /\ listen_queue' \in Seq(Client)
      /\ ToSet(listen_queue') = ToSet(listen_queue) \ {c}
      /\ IsInjective(listen_queue')
  BY <1>1, TailElements DEF Types, QueueInv
<1> HIDE DEF c
<1>8. ToSet(sock_list') = ToSet(sock_list) \cup {c}
  BY <1>3, <1>6, AppendElements DEF Types
<1>9. Accepted' = Accepted \cup {c}
  <2>1. Cardinality(Accepted) \in Nat
    BY Counted
  <2>2. \A d \in Client : fd'[d] # 0 <=> fd[d] # 0 \/ d = c
    BY <1>3, <1>6, <2>1 DEF Types
  <2>3. QED
    BY <1>3, <2>2 DEF Accepted
<1>10. GivenUp' = GivenUp
  BY <1>5, <1>8, <1>9 DEF GivenUp
<1>11. Cardinality(Accepted') = Cardinality(Accepted) + 1
  BY <1>5, <1>9, Counted, FS_AddElement
<1>12. QED
  BY <1>4, <1>5, <1>6, <1>7, <1>8, <1>9, <1>10, <1>11

\* PollMessage is at a listed socket.
LEMMA CurrentListed ==
  ASSUME Types, QueueInv
  PROVE  Current \subseteq ToSet(sock_list) /\ Current \subseteq Client
<1>1. {sock_list[k] : k \in FirstReady} \subseteq ToSet(sock_list)
  BY DEF FirstReady, ToSet
<1>2. Current \subseteq ToSet(sock_list)
  BY <1>1 DEF Current, QueueInv
<1>3. QED
  BY <1>2, Membership DEF Types

\* GiveUp erases the current socket and no other.
LEMMA GiveUpEffect ==
  ASSUME Types, QueueInv, GiveUp
  PROVE  \E k \in 1 .. Len(sock_list) :
           /\ Ended(sock_list[k]) /\ inbox[sock_list[k]] = 0
           /\ sock_list' \in Seq(Client)
           /\ Len(sock_list') = Len(sock_list) - 1
           /\ ToSet(sock_list') = ToSet(sock_list) \ {sock_list[k]}
           /\ IsInjective(sock_list')
           /\ Accepted' = Accepted
           /\ GivenUp' = GivenUp \cup {sock_list[k]}
           /\ Cardinality(GivenUp') = Cardinality(GivenUp) + 1
           /\ \/ ~sending /\ UNCHANGED castVars
              \/ /\ sending
                 /\ it' \in {it - 1, it}
                 /\ outcome' = "torn"
                 /\ UNCHANGED <<sending, listed, got>>
<1>1. PICK c \in Current :
        /\ Ended(c) /\ inbox[c] = 0
        /\ sock_list' = Erased(c)
        /\ IF ~sending THEN UNCHANGED castVars
           ELSE /\ it' = IF Place(c) <= Len(sock_list) \div 2 THEN it - 1 ELSE it
                /\ outcome' = "torn"
                /\ UNCHANGED <<sending, listed, got>>
  BY DEF GiveUp
<1>2. PICK k \in 1 .. Len(sock_list) : c = sock_list[k]
  BY CurrentListed, Membership DEF Types
<1>3. sock_list[k] \in Client /\ sock_list[k] \in ToSet(sock_list)
  BY <1>1, <1>2, CurrentListed
<1>4. Ended(sock_list[k]) /\ inbox[sock_list[k]] = 0
  BY <1>1, <1>2
<1>5. Place(sock_list[k]) = k
  <2>1. {i \in 1 .. Len(sock_list) : sock_list[i] = sock_list[k]} = {k}
    BY <1>2 DEF IsInjective, Types, QueueInv
  <2>2. Min({k}) = k
    BY DEF Min
  <2>3. QED
    BY <2>1, <2>2 DEF Place, SelectInSeq
<1>6. sock_list' = RemoveAt(sock_list, k)
  BY <1>1, <1>2, <1>5 DEF Erased
<1>7. /\ sock_list' \in Seq(Client)
      /\ Len(sock_list') = Len(sock_list) - 1
      /\ ToSet(sock_list') = ToSet(sock_list) \ {sock_list[k]}
      /\ IsInjective(sock_list')
  BY <1>2, <1>6, RemoveAtPlaces, RemoveAtElements DEF Types, QueueInv
<1>8. Accepted' = Accepted
  BY DEF GiveUp, Accepted
<1>9. GivenUp' = GivenUp \cup {sock_list[k]} /\ sock_list[k] \notin GivenUp
  BY <1>3, <1>7, <1>8 DEF GivenUp, QueueInv
<1>10. Cardinality(GivenUp') = Cardinality(GivenUp) + 1
  BY <1>9, Counted, FS_AddElement
<1>11. \/ ~sending /\ UNCHANGED castVars
       \/ /\ sending
          /\ it' \in {it - 1, it}
          /\ outcome' = "torn"
          /\ UNCHANGED <<sending, listed, got>>
  BY <1>1
<1>12. QED
  BY <1>2, <1>4, <1>7, <1>8, <1>9, <1>10, <1>11

\* The other steps accept and give up nothing.
LEMMA SameSockets ==
  ASSUME UNCHANGED <<fd, sock_list>>
  PROVE  Accepted' = Accepted /\ GivenUp' = GivenUp
BY DEF Accepted, GivenUp
\* A message goes to an accepted client; within the list, to the one in place.
LEMMA AtClients ==
  ASSUME Types, QueueInv, NEW c \in At
  PROVE  /\ c \in Accepted /\ c \in Client
         /\ \/ it \in 1 .. Len(sock_list) /\ c = sock_list[it]
            \/ it < 1
<1>1. DOMAIN sock_list = 1 .. Len(sock_list)
  BY DEF Types
<1>2. CASE it \in DOMAIN sock_list
  BY <1>1, <1>2 DEF At, Types, QueueInv, ToSet, Accepted
<1>3. CASE it \notin DOMAIN sock_list
  BY <1>3 DEF At, Accepted
<1>4. QED
  BY <1>2, <1>3

------------------------------------------------------------------------------
(***************************************************************************)
(* The invariant holds initially and every step keeps it.                  *)
(***************************************************************************)

\* The constructor's values.
LEMMA IInvInit == Init => IInv
<1> SUFFICES ASSUME Init PROVE IInv
  OBVIOUS
<1>1. << >> \in Seq(Client) /\ Len(<< >>) = 0 /\ ToSet(<< >>) = {}
  BY DEF ToSet
<1>2. Types
  <2>1. inbox \in [Client -> 0 .. MaxInbox] /\ fd \in [Client -> Nat] /\ got \in [Client -> Nat]
    BY BoundsAssumption DEF Init
  <2>2. listen_queue \in Seq(Client) /\ sock_list \in Seq(Client)
    BY <1>1 DEF Init
  <2>3. client \in [Client -> {"new", "connected", "sending", "cut", "closed"}]
    BY DEF Init
  <2>4. process \in {"running", "killed"} /\ outcome \in {"whole", "torn", "threw"}
    BY DEF Init
  <2>5. max_fd \in Nat /\ it \in Int
    BY DEF Init
  <2>6. sending \in BOOLEAN /\ listed \subseteq Client
    BY Zenon DEF Init
  <2>7. reading \subseteq Client /\ \A c \in Client : client[c] # "sending"
    BY DEF Init
  <2>8. QED
    BY <2>1, <2>2, <2>3, <2>4, <2>5, <2>6, <2>7 DEF Types
<1>3. Accepted = {} /\ GivenUp = {}
  BY DEF Init, Accepted, GivenUp
<1>4. Cardinality(Accepted) = 0 /\ Cardinality(GivenUp) = 0
  BY <1>3, FS_EmptySet
<1>5. QueueInv
  BY <1>1, <1>3 DEF Init, QueueInv, IsInjective
<1>6. CountInv
  BY <1>1, <1>4 DEF Init, CountInv
<1>7. KeptInv
  BY <1>3 DEF KeptInv
<1>8. IteratorInv
  BY <1>4 DEF Init, IteratorInv
<1>9. CastInv
  BY DEF Init, CastInv
<1>10. QED
  BY <1>2, <1>5, <1>6, <1>7, <1>8, <1>9 DEF IInv

\* Every step keeps the types.
LEMMA TypesStep == IInv /\ [Next]_vars => Types'
<1> SUFFICES ASSUME Types, QueueInv, [Next]_vars PROVE Types'
  BY DEF IInv
<1> USE DEF clientVars, sockVars, castVars
<1>1. ASSUME NEW c \in Client, Connect(c) PROVE Types'
  BY <1>1, AppendElements DEF Connect, Types
<1>2. ASSUME NEW c \in Client, ClientBegins(c) PROVE Types'
  BY <1>2 DEF ClientBegins, Types
<1>14. ASSUME NEW c \in Client, ClientFinishes(c) PROVE Types'
  BY <1>14, BoundsAssumption DEF ClientFinishes, Types
<1>3. ASSUME NEW c \in Client, ClientEnds(c) PROVE Types'
  BY <1>3 DEF ClientEnds, Types
<1>4. CASE Accept
  <2>1. PICK c \in Client \ Accepted :
          /\ fd' = [fd EXCEPT ![c] = 2 + Cardinality(Accepted)]
          /\ max_fd' = Highest(2 + Cardinality(Accepted))
          /\ sock_list' = Append(sock_list, c)
          /\ listen_queue' \in Seq(Client)
    BY <1>4, AcceptEffect
  <2>2. 2 + Cardinality(Accepted) \in Nat
    BY Counted
  <2>3. max_fd' \in Nat /\ fd' \in [Client -> Nat]
    BY <2>1, <2>2 DEF Highest, Types
  <2>4. sock_list' \in Seq(Client)
    BY <2>1, AppendElements DEF Types
  <2>5. QED
    BY <1>4, <2>1, <2>3, <2>4 DEF Accept, Types
<1>5. CASE RecvHeader
  <2>1. reading' \subseteq Client
    BY <1>5, CurrentListed DEF RecvHeader
  <2>2. QED
    BY <1>5, <2>1 DEF RecvHeader, Types
<1>15. CASE RecvPayload
  <2>1. PICK c \in reading :
          /\ inbox[c] > 0
          /\ inbox' = [inbox EXCEPT ![c] = @ - 1]
    BY <1>15 DEF RecvPayload
  <2>2. /\ inbox' \in [Client -> 0 .. MaxInbox]
        /\ \A d \in Client : client[d] = "sending" => inbox'[d] < MaxInbox
    BY <2>1, BoundsAssumption DEF Types
  <2>3. QED
    BY <1>15, <2>2 DEF RecvPayload, Types
<1>6. CASE GiveUp
  <2>1. sock_list' \in Seq(Client)
    BY <1>6, GiveUpEffect
  <2>2. \/ UNCHANGED castVars
        \/ it' \in {it - 1, it} /\ outcome' = "torn" /\ UNCHANGED <<sending, listed, got>>
    BY <1>6, GiveUpEffect
  <2>3. /\ it' \in Int /\ sending' \in BOOLEAN /\ listed' \subseteq Client
        /\ got' \in [Client -> Nat] /\ outcome' \in {"whole", "torn", "threw"}
    BY <2>2 DEF Types, castVars
  <2>4. QED
    BY <1>6, <2>1, <2>3 DEF GiveUp, Types
<1>7. CASE StartSend
  <2>1. listed' \subseteq Client
    BY <1>7, Membership DEF StartSend, Types
  <2>2. QED
    BY <1>7, <2>1 DEF StartSend, Types
<1>8. CASE SendOne
  <2>1. PICK c \in At : got' = [got EXCEPT ![c] = @ + 1]
    BY <1>8 DEF SendOne
  <2>2. got' \in [Client -> Nat]
    BY <2>1, AtClients DEF Types
  <2>3. it' \in Int
    BY <1>8 DEF SendOne, Types
  <2>4. QED
    BY <1>8, <2>2, <2>3 DEF SendOne, Types
<1>9. CASE SendThrows
  BY <1>9 DEF SendThrows, Types
<1>10. CASE SendKills
  BY <1>10 DEF SendKills, Types
<1>11. CASE EndSend
  BY <1>11 DEF EndSend, Types
<1>12. CASE UNCHANGED vars
  BY <1>12 DEF vars, Types
<1>13. QED
  BY <1>1, <1>2, <1>3, <1>4, <1>5, <1>6, <1>7, <1>8, <1>9, <1>10, <1>11, <1>12, <1>14, <1>15
  DEF Next, PollMessage, SendMessage

\* Every step keeps the queue and the list free of duplicates.
LEMMA QueueStep == IInv /\ [Next]_vars => QueueInv'
<1> SUFFICES ASSUME Types, QueueInv, [Next]_vars PROVE QueueInv'
  BY DEF IInv
<1> USE DEF clientVars, sockVars, castVars
<1>1. ASSUME NEW c \in Client, Connect(c) PROVE QueueInv'
  <2>1. client[c] = "new" /\ fd[c] = 0 /\ c \notin ToSet(listen_queue)
    BY <1>1 DEF Connect, QueueInv
  <2>2. /\ IsInjective(listen_queue')
        /\ ToSet(listen_queue') = ToSet(listen_queue) \cup {c}
    BY <1>1, <2>1, AppendElements DEF Connect, Types, QueueInv
  <2>3. Accepted' = Accepted
    BY <1>1, SameSockets DEF Connect
  <2>4. client' = [client EXCEPT ![c] = "connected"] /\ UNCHANGED <<fd, sock_list, reading>>
    BY <1>1 DEF Connect
  <2>5. \A d \in ToSet(listen_queue) : d \in Client
    BY Membership DEF Types
  <2>6. QED
    BY <2>1, <2>2, <2>3, <2>4, <2>5 DEF QueueInv, Types
<1>2. ASSUME NEW c \in Client, ClientEnds(c) PROVE QueueInv'
  <2>1. /\ client[c] # "new"
        /\ \/ client' = [client EXCEPT ![c] = "cut"]
           \/ client' = [client EXCEPT ![c] = "closed"]
        /\ UNCHANGED <<listen_queue, fd, sock_list, reading>>
    BY <1>2 DEF ClientEnds
  <2>2. \A d \in Client : client'[d] = "new" <=> client[d] = "new"
    BY <2>1 DEF Types
  <2>3. \A d \in ToSet(listen_queue) : d \in Client
    BY Membership DEF Types
  <2>4. Accepted' = Accepted
    BY <2>1, SameSockets
  <2>5. QED
    BY <2>1, <2>2, <2>3, <2>4 DEF QueueInv
<1>8. ASSUME NEW c \in Client, ClientBegins(c) \/ ClientFinishes(c) PROVE QueueInv'
  <2>1. /\ client[c] # "new"
        /\ \/ client' = [client EXCEPT ![c] = "sending"]
           \/ client' = [client EXCEPT ![c] = "connected"]
        /\ UNCHANGED <<listen_queue, fd, sock_list, reading>>
    BY <1>8 DEF ClientBegins, ClientFinishes
  <2>2. \A d \in Client : client'[d] = "new" <=> client[d] = "new"
    BY <2>1 DEF Types
  <2>3. \A d \in ToSet(listen_queue) : d \in Client
    BY Membership DEF Types
  <2>4. Accepted' = Accepted
    BY <2>1, SameSockets
  <2>5. QED
    BY <2>1, <2>2, <2>3, <2>4 DEF QueueInv
<1>3. CASE Accept
  <2>1. PICK c \in Client \ Accepted :
           /\ client[c] # "new"
           /\ fd' = [fd EXCEPT ![c] = 2 + Cardinality(Accepted)]
           /\ sock_list' = Append(sock_list, c)
           /\ c \notin ToSet(sock_list)
           /\ ToSet(sock_list') = ToSet(sock_list) \cup {c}
           /\ Accepted' = Accepted \cup {c}
           /\ ToSet(listen_queue') = ToSet(listen_queue) \ {c}
           /\ IsInjective(listen_queue')
    BY <1>3, AcceptEffect
  <2>2. IsInjective(sock_list')
    BY <2>1, AppendElements DEF Types, QueueInv
  <2>3. \A d \in Client : d # c => fd'[d] = fd[d]
    BY <2>1 DEF Types
  <2>4. \A d \in ToSet(listen_queue) : d \in Client
    BY Membership DEF Types
  <2>5. client' = client /\ reading' = reading
    BY <1>3 DEF Accept
  <2>6. QED
    BY <2>1, <2>2, <2>3, <2>4, <2>5 DEF QueueInv
<1>4. CASE GiveUp
  <2>1. /\ IsInjective(sock_list')
        /\ ToSet(sock_list') \subseteq ToSet(sock_list)
        /\ Accepted' = Accepted
    BY <1>4, GiveUpEffect
  <2>2. UNCHANGED <<client, listen_queue, fd>> /\ reading' = {}
    BY <1>4 DEF GiveUp
  <2>3. QED
    BY <2>1, <2>2 DEF QueueInv
<1>5. CASE RecvHeader
  <2>1. /\ reading' \subseteq ToSet(sock_list) /\ \A c, d \in reading' : c = d
    BY <1>5, CurrentListed DEF RecvHeader
  <2>2. UNCHANGED <<client, listen_queue, fd, sock_list>>
    BY <1>5 DEF RecvHeader
  <2>3. QED
    BY <2>1, <2>2, SameSockets DEF QueueInv
<1>6. CASE RecvPayload
  BY <1>6, SameSockets DEF RecvPayload, QueueInv
<1>7. ASSUME UNCHANGED <<client, listen_queue, fd, sock_list, reading>> PROVE QueueInv'
  BY <1>7, SameSockets DEF QueueInv
<1>9. \/ \E c \in Client : Connect(c) \/ ClientBegins(c) \/ ClientFinishes(c) \/ ClientEnds(c)
      \/ Accept \/ RecvHeader \/ RecvPayload \/ GiveUp
      \/ UNCHANGED <<client, listen_queue, fd, sock_list, reading>>
  BY DEF Next, vars, PollMessage, SendMessage, StartSend, SendOne, SendThrows, SendKills,
         EndSend
<1>10. QED
  BY <1>1, <1>2, <1>3, <1>4, <1>5, <1>6, <1>7, <1>8, <1>9

\* Every step keeps the numbers.
LEMMA CountStep == IInv /\ [Next]_vars => CountInv'
<1> SUFFICES ASSUME Types, QueueInv, CountInv, [Next]_vars PROVE CountInv'
  BY DEF IInv
<1> USE DEF clientVars, sockVars, castVars
<1>1. CASE Accept
  <2>1. PICK c \in Client \ Accepted :
           /\ fd' = [fd EXCEPT ![c] = 2 + Cardinality(Accepted)]
           /\ max_fd' = Highest(2 + Cardinality(Accepted))
           /\ sock_list' = Append(sock_list, c)
           /\ GivenUp' = GivenUp
           /\ Cardinality(Accepted') = Cardinality(Accepted) + 1
    BY <1>1, AcceptEffect
  <2>2. Cardinality(Accepted) \in Nat
    BY Counted
  <2>3. Len(sock_list') = Len(sock_list) + 1
    BY <2>1, AppendElements DEF Types
  <2>4. max_fd' = 2 + Cardinality(Accepted)
    BY <2>1, <2>2 DEF Highest, CountInv, Types
  <2>5. \A d \in Client : fd'[d] <= max_fd'
    BY <2>1, <2>2, <2>4 DEF CountInv, Types
  <2>6. Len(sock_list') + Cardinality(GivenUp') = Cardinality(Accepted')
    BY <2>1, <2>2, <2>3, Counted DEF CountInv, Types
  <2>7. max_fd' \in 1 .. Cardinality(Accepted') + 1
    BY <2>1, <2>2, <2>4
  <2>8. QED
    BY <2>5, <2>6, <2>7 DEF CountInv
<1>2. CASE GiveUp
  <2>1. /\ Len(sock_list') = Len(sock_list) - 1
        /\ Accepted' = Accepted
        /\ Cardinality(GivenUp') = Cardinality(GivenUp) + 1
    BY <1>2, GiveUpEffect
  <2>2. UNCHANGED <<fd, max_fd>>
    BY <1>2 DEF GiveUp
  <2>3. Len(sock_list') + Cardinality(GivenUp') = Cardinality(Accepted')
    BY <2>1, Counted DEF CountInv, Types
  <2>4. QED
    BY <2>1, <2>2, <2>3 DEF CountInv
<1>3. ASSUME UNCHANGED <<fd, max_fd, sock_list>> PROVE CountInv'
  BY <1>3, SameSockets DEF CountInv
<1>4. Accept \/ GiveUp \/ UNCHANGED <<fd, max_fd, sock_list>>
  BY DEF Next, vars, PollMessage, SendMessage, Connect, ClientBegins, ClientFinishes,
         ClientEnds, RecvHeader, RecvPayload,
         StartSend, SendOne, SendThrows, SendKills, EndSend
<1>5. QED
  BY <1>1, <1>2, <1>3, <1>4

\* A client that has ended sends nothing more, so a socket given up stays empty.
LEMMA KeptStep == IInv /\ [Next]_vars => KeptInv'
<1> SUFFICES ASSUME Types, QueueInv, KeptInv, [Next]_vars PROVE KeptInv'
  BY DEF IInv
<1> USE DEF clientVars, sockVars, castVars
<1>0. GivenUp \subseteq Client
  BY DEF GivenUp, Accepted
<1>1. ASSUME NEW c \in Client, Connect(c) PROVE KeptInv'
  <2>1. c \notin GivenUp
    BY <1>1 DEF Connect, QueueInv, GivenUp, Accepted
  <2>2. GivenUp' = GivenUp
    BY <1>1, SameSockets DEF Connect
  <2>3. QED
    BY <1>0, <1>1, <2>1, <2>2 DEF Connect, KeptInv, Ended, Types
<1>2. ASSUME NEW c \in Client, ClientBegins(c) \/ ClientFinishes(c) PROVE KeptInv'
  <2>1. c \notin GivenUp
    BY <1>2 DEF ClientBegins, ClientFinishes, KeptInv, Ended
  <2>2. GivenUp' = GivenUp
    BY <1>2, SameSockets DEF ClientBegins, ClientFinishes
  <2>3. QED
    BY <1>0, <1>2, <2>1, <2>2 DEF ClientBegins, ClientFinishes, KeptInv, Ended, Types
<1>3. ASSUME NEW c \in Client, ClientEnds(c) PROVE KeptInv'
  <2>1. GivenUp' = GivenUp
    BY <1>3, SameSockets DEF ClientEnds
  <2>2. QED
    BY <1>0, <1>3, <2>1 DEF ClientEnds, KeptInv, Ended, Types
<1>4. CASE Accept
  <2>1. GivenUp' = GivenUp
    BY <1>4, AcceptEffect
  <2>2. QED
    BY <1>4, <2>1 DEF Accept, KeptInv, Ended
<1>5. CASE RecvPayload
  <2>1. PICK c \in reading : inbox' = [inbox EXCEPT ![c] = @ - 1]
    BY <1>5 DEF RecvPayload
  <2>2. c \notin GivenUp
    BY DEF GivenUp, QueueInv
  <2>3. GivenUp' = GivenUp
    BY <1>5, SameSockets DEF RecvPayload
  <2>4. QED
    BY <1>0, <1>5, <2>1, <2>2, <2>3 DEF RecvPayload, KeptInv, Ended, Types
<1>6. CASE GiveUp
  <2>1. PICK k \in 1 .. Len(sock_list) :
           /\ Ended(sock_list[k]) /\ inbox[sock_list[k]] = 0
           /\ GivenUp' = GivenUp \cup {sock_list[k]}
    BY <1>6, GiveUpEffect
  <2>2. UNCHANGED <<client, inbox>>
    BY <1>6 DEF GiveUp
  <2>3. QED
    BY <2>1, <2>2 DEF KeptInv, Ended
<1>7. ASSUME UNCHANGED <<client, inbox, fd, sock_list>> PROVE KeptInv'
  BY <1>7, SameSockets DEF KeptInv, Ended
<1>8. \/ \E c \in Client : Connect(c) \/ ClientBegins(c) \/ ClientFinishes(c) \/ ClientEnds(c)
      \/ Accept \/ RecvPayload \/ GiveUp
      \/ UNCHANGED <<client, inbox, fd, sock_list>>
  BY DEF Next, vars, PollMessage, SendMessage, RecvHeader, StartSend, SendOne, SendThrows, SendKills, EndSend
<1>9. QED
  BY <1>1, <1>2, <1>3, <1>4, <1>5, <1>6, <1>7, <1>8
\* Every step keeps the iterator within what was accepted and given up.
LEMMA IteratorStep == IInv /\ [Next]_vars => IteratorInv'
<1> SUFFICES ASSUME Types, QueueInv, CountInv, IteratorInv, [Next]_vars PROVE IteratorInv'
  BY DEF IInv
<1> USE DEF clientVars, sockVars, castVars
<1>0. PICK d \in 0 .. Cardinality(GivenUp) :
        /\ 1 - d <= it /\ it + d <= Cardinality(Accepted) + 1
        /\ \A c \in Client : got[c] <= it - 1 + d
  BY DEF IteratorInv
<1>1. /\ Cardinality(Accepted) \in Nat /\ Cardinality(GivenUp) \in Nat
      /\ it \in Int /\ d \in Nat /\ Len(sock_list) \in Nat
      /\ \A c \in Client : got[c] \in Nat
  BY Counted DEF Types
<1>2. CASE Accept
  <2>1. GivenUp' = GivenUp /\ Cardinality(Accepted') = Cardinality(Accepted) + 1
    BY <1>2, AcceptEffect
  <2>2. UNCHANGED <<it, got>>
    BY <1>2 DEF Accept
  <2>3. it' + d <= Cardinality(Accepted') + 1
    BY <1>0, <1>1, <2>1, <2>2
  <2>4. QED
    BY <1>0, <2>1, <2>2, <2>3 DEF IteratorInv
<1>3. CASE GiveUp
  <2>1. /\ Accepted' = Accepted /\ Cardinality(GivenUp') = Cardinality(GivenUp) + 1
        /\ it' \in {it - 1, it} /\ got' = got
    BY <1>3, GiveUpEffect
  <2>2. CASE it' = it
    <3>1. d \in 0 .. Cardinality(GivenUp')
      BY <1>1, <2>1
    <3>2. QED
      BY <1>0, <2>1, <2>2, <3>1 DEF IteratorInv
  <2>3. CASE it' = it - 1
    <3>1. d + 1 \in 0 .. Cardinality(GivenUp')
      BY <1>1, <2>1
    <3>2. 1 - (d + 1) <= it' /\ it' + (d + 1) <= Cardinality(Accepted') + 1
      BY <1>0, <1>1, <2>1, <2>3
    <3>3. \A c \in Client : got'[c] <= it' - 1 + (d + 1)
      BY <1>0, <1>1, <2>1, <2>3
    <3>4. QED
      BY <3>1, <3>2, <3>3 DEF IteratorInv
  <2>4. QED
    BY <2>1, <2>2, <2>3
<1>4. CASE StartSend
  <2>1. GivenUp' = GivenUp /\ Accepted' = Accepted
    BY <1>4, SameSockets DEF StartSend
  <2>2. it' = 1 /\ got' = [c \in Client |-> 0]
    BY <1>4 DEF StartSend
  <2>3. /\ 0 \in 0 .. Cardinality(GivenUp')
        /\ 1 - 0 <= it' /\ it' + 0 <= Cardinality(Accepted') + 1
        /\ \A c \in Client : got'[c] <= it' - 1 + 0
    BY <1>1, <2>1, <2>2
  <2>4. QED
    BY <2>3 DEF IteratorInv
<1>5. CASE SendOne
  <2>1. PICK c \in At : got' = [got EXCEPT ![c] = @ + 1]
    BY <1>5 DEF SendOne
  <2>2. GivenUp' = GivenUp /\ Accepted' = Accepted /\ it' = it + 1
    BY <1>5, SameSockets DEF SendOne
  <2>3. it + d <= Cardinality(Accepted)
    <3>1. CASE it <= Len(sock_list)
      BY <1>1, <3>1 DEF CountInv
    <3>2. CASE it < 1
      BY <1>1, <3>2, Counted
    <3>3. QED
      BY <1>1, <2>1, <3>1, <3>2, AtClients
  <2>4. \A b \in Client : got'[b] <= it' - 1 + d
    BY <1>0, <1>1, <2>1, <2>2 DEF Types
  <2>5. 1 - d <= it' /\ it' + d <= Cardinality(Accepted') + 1
    BY <1>0, <1>1, <2>2, <2>3
  <2>6. QED
    BY <2>2, <2>4, <2>5 DEF IteratorInv
<1>6. ASSUME UNCHANGED <<fd, sock_list, it, got>> PROVE IteratorInv'
  BY <1>6, SameSockets DEF IteratorInv
<1>7. Accept \/ GiveUp \/ StartSend \/ SendOne \/ UNCHANGED <<fd, sock_list, it, got>>
  BY DEF Next, vars, PollMessage, SendMessage, Connect, ClientBegins, ClientFinishes,
         ClientEnds, RecvHeader, RecvPayload,
         SendThrows, SendKills, EndSend
<1>8. QED
  BY <1>2, <1>3, <1>4, <1>5, <1>6, <1>7

\* Every step keeps the account of a broadcast that nothing disturbs.
LEMMA CastStep == IInv /\ [Next]_vars => CastInv'
<1> SUFFICES ASSUME Types, QueueInv, CastInv, [Next]_vars, outcome' = "whole"
             PROVE  /\ sending' =>
                         /\ listed' \subseteq ToSet(sock_list')
                         /\ it' \in 1 .. Len(sock_list') + 1
                         /\ \A k \in 1 .. Len(sock_list') :
                              got'[sock_list'[k]] = IF k < it' THEN 1 ELSE 0
                         /\ \A c \in Client \ ToSet(sock_list') : got'[c] = 0
                    /\ ~sending' =>
                         \A c \in Client : got'[c] \in (IF c \in listed' THEN {1} ELSE {0, 1})
  BY DEF IInv, CastInv
<1> USE DEF clientVars, sockVars, castVars
<1>1. /\ DOMAIN sock_list = 1 .. Len(sock_list) /\ Len(sock_list) \in Nat
      /\ \A k \in 1 .. Len(sock_list) : sock_list[k] \in Client
      /\ \A c : c \in ToSet(sock_list) <=> \E k \in 1 .. Len(sock_list) : sock_list[k] = c
      /\ it \in Int
  BY Membership DEF Types
<1>2. CASE Accept
  <2>1. PICK c \in Client \ Accepted :
           /\ sock_list' = Append(sock_list, c)
           /\ c \notin ToSet(sock_list)
           /\ ToSet(sock_list') = ToSet(sock_list) \cup {c}
    BY <1>2, AcceptEffect
  <2>2. UNCHANGED <<sending, it, listed, got, outcome>>
    BY <1>2 DEF Accept
  <2>3. CASE sending
    <3>1. /\ Len(sock_list') = Len(sock_list) + 1
          /\ \A k \in 1 .. Len(sock_list) : sock_list'[k] = sock_list[k]
          /\ sock_list'[Len(sock_list) + 1] = c
      BY <2>1, AppendProperties DEF Types
    <3>2. /\ listed \subseteq ToSet(sock_list)
          /\ it \in 1 .. Len(sock_list) + 1
          /\ \A k \in 1 .. Len(sock_list) : got[sock_list[k]] = IF k < it THEN 1 ELSE 0
          /\ \A b \in Client \ ToSet(sock_list) : got[b] = 0
      BY <2>2, <2>3 DEF CastInv
    <3>3. \A k \in 1 .. Len(sock_list') : got[sock_list'[k]] = IF k < it THEN 1 ELSE 0
      <4> TAKE k \in 1 .. Len(sock_list')
      <4>1. CASE k <= Len(sock_list)
        BY <1>1, <3>1, <3>2, <4>1
      <4>2. CASE k = Len(sock_list) + 1
        <5>1. got[sock_list'[k]] = 0
          BY <2>1, <3>1, <3>2, <4>2
        <5>2. ~(k < it)
          BY <1>1, <3>2, <4>2
        <5>3. QED
          BY <5>1, <5>2
      <4>3. QED
        BY <1>1, <3>1, <4>1, <4>2
    <3>4. it \in 1 .. Len(sock_list') + 1
      BY <1>1, <3>1, <3>2
    <3>5. QED
      BY <2>1, <2>2, <2>3, <3>2, <3>3, <3>4
  <2>4. QED
    BY <2>2, <2>3 DEF CastInv
<1>3. CASE GiveUp
  <2>1. ~sending /\ UNCHANGED castVars
    BY <1>3, GiveUpEffect
  <2>2. QED
    BY <2>1 DEF CastInv
<1>4. CASE StartSend
  <2>1. /\ sending' /\ it' = 1 /\ listed' = ToSet(sock_list)
        /\ got' = [c \in Client |-> 0] /\ sock_list' = sock_list
    BY <1>4 DEF StartSend
  <2>2. QED
    BY <1>1, <2>1
<1>5. CASE SendOne
  <2>1. /\ sending /\ it' = it + 1
        /\ UNCHANGED <<sock_list, sending, listed, outcome>>
    BY <1>5 DEF SendOne
  <2>2. /\ listed \subseteq ToSet(sock_list)
        /\ it \in 1 .. Len(sock_list) + 1
        /\ \A k \in 1 .. Len(sock_list) : got[sock_list[k]] = IF k < it THEN 1 ELSE 0
        /\ \A b \in Client \ ToSet(sock_list) : got[b] = 0
    BY <2>1 DEF CastInv
  <2>3. PICK c \in At : got' = [got EXCEPT ![c] = @ + 1]
    BY <1>5 DEF SendOne
  <2>4. it \in 1 .. Len(sock_list) /\ c = sock_list[it] /\ c \in Client
    BY <2>2, AtClients
  <2>5. \A k \in 1 .. Len(sock_list) : got'[sock_list[k]] = IF k < it + 1 THEN 1 ELSE 0
    <3> TAKE k \in 1 .. Len(sock_list)
    <3>1. CASE k = it
      BY <1>1, <2>2, <2>3, <2>4, <3>1 DEF Types
    <3>2. CASE k # it
      <4>1. sock_list[k] # c
        BY <1>1, <2>4, <3>2 DEF QueueInv, IsInjective
      <4>2. got'[sock_list[k]] = got[sock_list[k]]
        BY <1>1, <2>3, <4>1 DEF Types
      <4>3. k < it + 1 <=> k < it
        BY <1>1, <3>2
      <4>4. QED
        BY <2>2, <4>2, <4>3
    <3>3. QED
      BY <3>1, <3>2
  <2>6. \A b \in Client \ ToSet(sock_list) : got'[b] = 0
    BY <1>1, <2>2, <2>3, <2>4 DEF Types
  <2>7. it' \in 1 .. Len(sock_list) + 1
    BY <1>1, <2>1, <2>4
  <2>8. QED
    BY <2>1, <2>2, <2>5, <2>6, <2>7
<1>6. CASE EndSend
  <2>1. /\ sending /\ it = Len(sock_list) + 1 /\ ~sending'
        /\ UNCHANGED <<listed, got, outcome>>
    BY <1>6 DEF EndSend
  <2>2. /\ listed \subseteq ToSet(sock_list)
        /\ \A k \in 1 .. Len(sock_list) : got[sock_list[k]] = 1
        /\ \A b \in Client \ ToSet(sock_list) : got[b] = 0
    BY <1>1, <2>1 DEF CastInv
  <2>3. QED
    BY <1>1, <2>1, <2>2
<1>7. CASE SendThrows
  BY <1>7 DEF SendThrows
<1>8. ASSUME UNCHANGED <<sock_list, sending, it, listed, got, outcome>>
      PROVE  CastInv'
  BY <1>8 DEF CastInv
<1>9. \/ Accept \/ GiveUp \/ StartSend \/ SendOne \/ EndSend \/ SendThrows
      \/ UNCHANGED <<sock_list, sending, it, listed, got, outcome>>
  BY DEF Next, vars, PollMessage, SendMessage, Connect, ClientBegins, ClientFinishes,
         ClientEnds, RecvHeader, RecvPayload,
         SendKills
<1>10. QED
  BY <1>2, <1>3, <1>4, <1>5, <1>6, <1>7, <1>8, <1>9 DEF CastInv

\* The invariant holds in every state that can be reached.
LEMMA Inductive == Spec => []IInv
<1>1. IInv /\ [Next]_vars => IInv'
  BY TypesStep, QueueStep, CountStep, KeptStep, IteratorStep, CastStep DEF IInv
<1>2. QED
  BY IInvInit, <1>1, PTL DEF Spec

------------------------------------------------------------------------------
(***************************************************************************)
(* The theorems.                                                           *)
(***************************************************************************)

\* TypeCorrect: descriptors, the iterator and the number of times a client is
\* sent a message stay within the number of clients, however many there are
\* and whenever sockets are erased under the iterator (rpc.cpp:144, 189).
THEOREM TypeCorrect == Spec => []TypeOK
<1>1. IInv => TypeOK
  <2> SUFFICES ASSUME Types, QueueInv, CountInv, IteratorInv PROVE TypeOK
    BY DEF IInv
  <2> DEFINE N == Cardinality(Client)
  <2>1. /\ N \in Nat /\ Cardinality(Accepted) \in 0 .. N
        /\ Cardinality(GivenUp) \in 0 .. N
    BY Counted
  <2> HIDE DEF N
  <2>2. fd \in [Client -> 0 .. N + 1] /\ max_fd \in 1 .. N + 1
    <3>1. max_fd \in 1 .. N + 1
      BY <2>1 DEF CountInv
    <3>2. \A c \in Client : fd[c] \in 0 .. N + 1
      BY <2>1, <3>1 DEF Types, CountInv
    <3>3. QED
      BY <3>1, <3>2 DEF Types
  <2>3. it \in 1 - N .. N + 1 /\ got \in [Client -> 0 .. N]
    <3>1. PICK d \in 0 .. Cardinality(GivenUp) :
            /\ 1 - d <= it /\ it + d <= Cardinality(Accepted) + 1
            /\ \A c \in Client : got[c] <= it - 1 + d
      BY DEF IteratorInv
    <3>2. it \in Int /\ it \in 1 - N .. N + 1
      BY <2>1, <3>1 DEF Types
    <3>3. \A c \in Client : got[c] \in 0 .. N
      BY <2>1, <3>1, <3>2 DEF Types
    <3>4. QED
      BY <3>2, <3>3 DEF Types
  <2>4. QED
    BY <2>2, <2>3 DEF Types, QueueInv, TypeOK, N
<1>2. QED
  BY <1>1, Inductive, PTL

\* SocketsKeptAlways: giving a socket up never loses another one: select() is
\* asked about every accepted socket, once and within max_fd, until its client
\* has ended and everything it sent was received (rpc.cpp:33, 174, 189).
THEOREM SocketsKeptAlways == Spec => []SocketsKept
<1>1. IInv => SocketsKept
  BY DEF IInv, QueueInv, CountInv, KeptInv, GivenUp, Accepted, SocketsKept
<1>2. QED
  BY <1>1, Inductive, PTL

\* BroadcastOnceAlways: a SendMessage that no erased socket and no failure
\* disturbed reached every socket listed when it began exactly once, and the
\* sockets accepted meanwhile at most once (rpc.cpp:144).
THEOREM BroadcastOnceAlways == Spec => []BroadcastOnce
<1>1. IInv => BroadcastOnce
  BY DEF IInv, CastInv, BroadcastOnce
<1>2. QED
  BY <1>1, Inductive, PTL
=============================================================================
