-------------------------- MODULE ZmqBrokerProofs --------------------------
(***************************************************************************)
(* For any size of req_list, any settings and any number of views: the     *)
(* broker always has a free entry when it reads the pipe, it sends no view *)
(* more often than it may, and it loses track of none.                     *)
(***************************************************************************)
EXTENDS ZmqBroker, FiniteSetTheorems, SequenceTheorems, TLAPS

Fields == {"req_list", "req_count", "master_removed", "heartbeat_next",
           "liveness_remaining", "reconnect_next", "shutdown_time",
           "server_socket"}

Pending == [in_use : {TRUE}, seq_num : Nat, retry_at : Int,
            retries_remaining : Nat]

Shaped(b) ==
  /\ DOMAIN b = Fields
  /\ b.req_list \in [Indexes -> {Free} \cup Pending]
  /\ b.reconnect_next \in Nat

\* req_count counts the entries in use, and the pipe is closed at the limit.
Counted(b) == b.req_count = Cardinality(InUse(b))
Open(b) == ~b.master_removed => b.req_count # MaxOutstanding
Room(b) == Counted(b) /\ Open(b)

\* h is b, but for fields that have nothing to do with req_list
Same(h, b) ==
  /\ DOMAIN h = Fields /\ h.reconnect_next \in Nat
  /\ h.req_list = b.req_list /\ h.req_count = b.req_count
  /\ h.master_removed = b.master_removed

------------------------------------------------------------------------------
(* req_list *)

\* An entry is in use or is Free.
LEMMA EntryType ==
  ASSUME NEW b, Shaped(b), NEW i \in Indexes
  PROVE  /\ b.req_list[i] \in {Free} \cup Pending
         /\ i \in InUse(b) <=> b.req_list[i] \in Pending
         /\ i \notin InUse(b) <=> b.req_list[i] = Free
<1>1. b.req_list[i] \in {Free} \cup Pending
  BY DEF Shaped
<1>2. Free.in_use = FALSE /\ \A e \in Pending : e.in_use = TRUE
  BY Zenon DEF Free, Pending
<1> QED
  BY <1>1, <1>2 DEF InUse

\* A new entry
LEMMA ReqFields ==
  \A s, t, r : Req(s, t, r).seq_num = s /\ Req(s, t, r).retries_remaining = r
  BY Zenon DEF Req

\* The entries in use are finitely many, at most as many as there are.
LEMMA InUseSize ==
  ASSUME NEW b
  PROVE  /\ IsFiniteSet(InUse(b)) /\ Cardinality(InUse(b)) \in 0 .. MaxOutstanding
         /\ Cardinality(InUse(b)) # MaxOutstanding => InUse(b) # Indexes
<1>1. IsFiniteSet(Indexes) /\ Cardinality(Indexes) = MaxOutstanding
  <2>1. 0 \in Int /\ MaxOutstanding - 1 \in Int /\ MaxOutstanding \in Nat
        /\ MaxOutstanding - 1 - 0 + 1 = MaxOutstanding /\ ~(0 > MaxOutstanding - 1)
    BY BrokerAssumption
  <2> QED
    BY <2>1, FS_Interval DEF Indexes
<1>2. InUse(b) \subseteq Indexes
  BY DEF InUse
<1>3. IsFiniteSet(InUse(b)) /\ Cardinality(InUse(b)) <= MaxOutstanding
  BY <1>1, <1>2, FS_Subset
<1>4. Cardinality(InUse(b)) \in Nat
  BY <1>3, FS_CardinalityType
<1>5. MaxOutstanding \in Nat
  BY BrokerAssumption
<1> QED
  BY <1>1, <1>3, <1>4, <1>5

\* A set of indexes that is not empty has a first one, as the loops of the
\* broker find it.
LEMMA FirstIsIn ==
  ASSUME NEW S \in SUBSET Indexes, S # {}
  PROVE  First(S) \in S
<1> DEFINE R == OpToRel(<, Nat)
<1>1. IsWellFoundedOn(R, Nat)
  BY NatLessThanWellFounded, Zenon
<1>2. \A x, y \in Nat : x < y => <<x, y>> \in R
  BY Zenon DEF OpToRel
<1> HIDE DEF R
<1>3. \A i \in S : i \in Nat
  BY BrokerAssumption DEF Indexes
<1>4. S \subseteq Nat
  BY <1>3, Zenon
<1>5. PICK i \in S : \A j \in S : ~(<<j, i>> \in R)
  BY <1>1, <1>4, WFMin, Zenon
<1>6. \A j \in S : i \in Nat /\ j \in Nat /\ ~(j < i)
  BY <1>2, <1>3, <1>5, Zenon
<1>7. \A j \in S : i <= j
  BY <1>6
<1> QED
  BY <1>7, Zenon DEF First

------------------------------------------------------------------------------
(* The operations of the broker *)

\* A request that is settled frees its entry.
LEMMA UnusedRoom ==
  ASSUME NEW b, Shaped(b), Room(b), NEW i \in InUse(b)
  PROVE  LET h == ReqMarkUnused(b, i)
         IN  /\ Shaped(h) /\ Room(h) /\ InUse(h) = InUse(b) \ {i}
             /\ \A j \in InUse(h) : h.req_list[j] = b.req_list[j]
<1> DEFINE h == ReqMarkUnused(b, i)
<1>1. i \in Indexes
  BY DEF InUse
<1>2. /\ DOMAIN h = Fields /\ h.req_list = [b.req_list EXCEPT ![i] = Free]
      /\ h.req_count = b.req_count - 1 /\ h.master_removed = b.master_removed
      /\ h.reconnect_next = b.reconnect_next
  BY Zenon DEF Shaped, ReqMarkUnused, Fields
<1> HIDE DEF h
<1>3. Shaped(h)
  BY <1>1, <1>2, Zenon DEF Shaped
<1>4. \A j \in Indexes : h.req_list[j] = IF j = i THEN Free ELSE b.req_list[j]
  BY <1>1, <1>2, Zenon DEF Shaped
<1>5. InUse(h) = InUse(b) \ {i}
  BY <1>4 DEF InUse, Free
<1>6. Cardinality(InUse(h)) = Cardinality(InUse(b)) - 1
  BY <1>5, InUseSize, FS_RemoveElement, Zenon
<1>7. Room(h)
  BY <1>2, <1>6, InUseSize, BrokerAssumption DEF Room, Counted, Open
<1> QED
  BY <1>3, <1>4, <1>5, <1>7 DEF h, InUse

\* handle_reply frees the entry of the request, if there is one.
LEMMA ReplyRoom ==
  ASSUME NEW b, NEW s, Shaped(b), Room(b)
  PROVE  LET h == HandleReply(b, s)
         IN  /\ Shaped(h) /\ Room(h)
             /\ \/ h = b
                \/ \E i \in InUse(b) : /\ b.req_list[i].seq_num = s
                                       /\ h = ReqMarkUnused(b, i)
<1> DEFINE found == {i \in InUse(b) : b.req_list[i].seq_num = s}
           i == First(found)
<1>1. CASE found = {}
  BY <1>1, Zenon DEF HandleReply
<1>2. CASE found # {}
  <2>1. found \in SUBSET Indexes
    BY DEF InUse
  <2>2. i \in found
    BY <1>2, <2>1, FirstIsIn, Zenon
  <2>3. HandleReply(b, s) = ReqMarkUnused(b, i)
    BY <1>2, Zenon DEF HandleReply
  <2>4. i \in InUse(b) /\ b.req_list[i].seq_num = s
    BY <2>2, Zenon
  <2> HIDE DEF i
  <2>5. Shaped(ReqMarkUnused(b, i)) /\ Room(ReqMarkUnused(b, i))
    BY <2>4, UnusedRoom, Zenon
  <2> QED
    BY <2>3, <2>4, <2>5, Zenon
<1> QED
  BY <1>1, <1>2

\* The fields that handle_timeouts leaves, and the entries it leaves
LEMMA TimeoutFields ==
  ASSUME NEW b, Shaped(b)
  PROVE  LET h == HandleTimeouts(b)
         IN  /\ Shaped(h) /\ h.req_count = b.req_count - Cardinality(Abandoned(b))
             /\ h.master_removed = b.master_removed
             /\ InUse(h) = InUse(b) \ Abandoned(b)
             /\ \A i \in InUse(h) :
                  h.req_list[i] =
                    IF i \in Resent(b)
                    THEN Req(b.req_list[i].seq_num, RequestTimeout,
                             Decremented(b.req_list[i].retries_remaining))
                    ELSE b.req_list[i]
<1> DEFINE h == HandleTimeouts(b)
           E(i) == IF i \in Abandoned(b) THEN Free
                   ELSE IF i \in Resent(b)
                   THEN Req(b.req_list[i].seq_num, RequestTimeout,
                            Decremented(b.req_list[i].retries_remaining))
                   ELSE b.req_list[i]
<1>1. /\ DOMAIN h = Fields /\ h.req_list = [i \in Indexes |-> E(i)]
      /\ h.req_count = b.req_count - Cardinality(Abandoned(b))
      /\ h.master_removed = b.master_removed
      /\ h.reconnect_next = b.reconnect_next
  BY Zenon DEF Shaped, HandleTimeouts, Fields
<1> HIDE DEF h
<1>2. Abandoned(b) \subseteq InUse(b) /\ Resent(b) \subseteq InUse(b) \ Abandoned(b)
  BY DEF Abandoned, Expired, Resent
<1>3. ASSUME NEW i \in Resent(b)
      PROVE  E(i) \in Pending
  <2>1. i \in Indexes /\ i \in InUse(b) /\ i \notin Abandoned(b)
    BY <1>2 DEF InUse
  <2>2. b.req_list[i] \in Pending
    BY <2>1, EntryType, Zenon
  <2>3. b.req_list[i].seq_num \in Nat /\ b.req_list[i].retries_remaining \in Nat
    BY <2>2, Zenon DEF Pending
  <2>4. \A n \in Nat : Decremented(n) \in Nat
    BY DEF Decremented, Byte
  <2>5. RequestTimeout \in Int
    BY BrokerAssumption
  <2>6. Req(b.req_list[i].seq_num, RequestTimeout,
            Decremented(b.req_list[i].retries_remaining)) \in Pending
    BY <2>3, <2>4, <2>5, Zenon DEF Req, Pending
  <2> QED
    BY <2>1, <2>6, Zenon
<1>4. \A i \in Indexes : E(i) \in {Free} \cup Pending
  BY <1>3, EntryType, Zenon
<1>5. Shaped(h)
  BY <1>1, <1>4, Zenon DEF Shaped
<1>6. \A i \in Indexes : h.req_list[i] = E(i)
  BY <1>1, Zenon
<1>7. ASSUME NEW i \in Indexes
      PROVE  i \in InUse(h) <=> i \in InUse(b) /\ i \notin Abandoned(b)
  <2>1. i \in InUse(h) <=> E(i) \in Pending
    BY <1>5, <1>6, EntryType, Zenon
  <2>2. Free \notin Pending
    BY Zenon DEF Free, Pending
  <2> QED
    BY <1>2, <1>3, <2>1, <2>2, EntryType, Zenon
<1>8. InUse(h) = InUse(b) \ Abandoned(b)
  BY <1>7 DEF InUse
<1>9. ASSUME NEW i \in InUse(h)
      PROVE  h.req_list[i] = IF i \in Resent(b)
                             THEN Req(b.req_list[i].seq_num, RequestTimeout,
                                      Decremented(b.req_list[i].retries_remaining))
                             ELSE b.req_list[i]
  BY <1>6, <1>8, Zenon DEF InUse
<1> QED
  BY <1>1, <1>5, <1>8, <1>9, Zenon DEF h

\* handle_timeouts frees the entries of the requests it gives up.
LEMMA TimeoutRoom ==
  ASSUME NEW b, Shaped(b), Counted(b)
  PROVE  LET h == HandleTimeouts(b)
         IN  /\ Shaped(h) /\ Counted(h) /\ h.master_removed = b.master_removed
             /\ Open(b) => Open(h)
<1> DEFINE h == HandleTimeouts(b)
           A == Abandoned(b)
<1>1. /\ Shaped(h) /\ h.req_count = b.req_count - Cardinality(A)
      /\ h.master_removed = b.master_removed /\ InUse(h) = InUse(b) \ A
  BY TimeoutFields, Zenon
<1>2. A \subseteq InUse(b)
  BY DEF Abandoned, Expired
<1>3. IsFiniteSet(A) /\ Cardinality(A) \in Nat
  BY <1>2, InUseSize, FS_Subset, FS_CardinalityType
<1>4. Cardinality(InUse(b) \ A) = Cardinality(InUse(b)) - Cardinality(InUse(b) \cap A)
  BY InUseSize, FS_Difference, Zenon
<1>5. InUse(b) \cap A = A
  BY <1>2
<1> HIDE DEF h, A
<1>6. /\ b.req_count = Cardinality(InUse(b)) /\ Cardinality(InUse(b)) \in Nat
      /\ Cardinality(InUse(b)) <= MaxOutstanding /\ MaxOutstanding \in Nat
  BY InUseSize, BrokerAssumption DEF Counted
<1>7. Cardinality(InUse(h)) = Cardinality(InUse(b)) - Cardinality(A)
  BY <1>1, <1>4, <1>5, Zenon
<1>8. h.req_count = Cardinality(InUse(h))
  BY <1>1, <1>6, <1>7, Zenon
<1>9. Open(b) => Open(h)
  BY <1>1, <1>3, <1>6 DEF Open
<1> QED
  BY <1>1, <1>8, <1>9, Zenon DEF h, Counted

\* Time that passes frees no entry.
LEMMA ElapseFields ==
  ASSUME NEW b, Shaped(b), NEW k \in Nat
  PROVE  LET h == Elapse(b, k)
         IN  /\ Shaped(h) /\ h.req_count = b.req_count
             /\ h.master_removed = b.master_removed /\ InUse(h) = InUse(b)
             /\ \A i \in InUse(b) :
                  /\ h.req_list[i].seq_num = b.req_list[i].seq_num
                  /\ h.req_list[i].retries_remaining =
                       b.req_list[i].retries_remaining
<1> DEFINE h == Elapse(b, k)
           E(i) == Aged(b.req_list[i], k)
<1>1. /\ DOMAIN h = Fields /\ h.req_list = [i \in Indexes |-> E(i)]
      /\ h.req_count = b.req_count
      /\ h.master_removed = b.master_removed
      /\ h.reconnect_next = b.reconnect_next
  BY Zenon DEF Shaped, Elapse, Fields
<1> HIDE DEF h
<1>2. ASSUME NEW i \in Indexes
      PROVE  /\ E(i) \in {Free} \cup Pending
             /\ E(i) \in Pending <=> i \in InUse(b)
             /\ i \in InUse(b) => /\ E(i).seq_num = b.req_list[i].seq_num
                                  /\ E(i).retries_remaining =
                                       b.req_list[i].retries_remaining
  <2>1. CASE i \in InUse(b)
    <3>1. b.req_list[i] \in Pending /\ b.req_list[i].in_use
      BY <2>1, EntryType DEF InUse
    <3>2. b.req_list[i].retry_at \in Int
      BY <3>1, Zenon DEF Pending
    <3>3. Less(b.req_list[i].retry_at, k) \in Int
      BY <3>2 DEF Less, Never
    <3> QED
      BY <2>1, <3>1, <3>3, Zenon DEF Pending, Aged
  <2>2. CASE i \notin InUse(b)
    <3>1. b.req_list[i] = Free /\ ~b.req_list[i].in_use /\ Free \notin Pending
      BY <2>2, EntryType, Zenon DEF InUse, Free, Pending
    <3> QED
      BY <2>2, <3>1, Zenon DEF Aged
  <2> QED
    BY <2>1, <2>2
<1>3. Shaped(h)
  BY <1>1, <1>2, Zenon DEF Shaped
<1>4. \A i \in Indexes : h.req_list[i] = E(i)
  BY <1>1, Zenon
<1>5. \A i \in Indexes : i \in InUse(h) <=> i \in InUse(b)
  BY <1>2, <1>3, <1>4, EntryType, Zenon
<1>6. InUse(h) = InUse(b)
  BY <1>5 DEF InUse
<1>7. \A i \in InUse(b) : i \in Indexes
  BY DEF InUse
<1> QED
  BY <1>1, <1>2, <1>3, <1>4, <1>6, <1>7, Zenon DEF h

\* A view that is taken from the pipe finds a free entry.
LEMMA StoredFields ==
  ASSUME NEW b, Shaped(b), Room(b), ~b.master_removed, NEW s \in Nat
  PROVE  LET h == Stored(b, s)
         IN  /\ Shaped(h) /\ Counted(h)
             /\ \E i \in Indexes \ InUse(b) :
                  /\ InUse(h) = InUse(b) \cup {i}
                  /\ h.req_list[i] = Req(s, RequestTimeout, RequestRetries % Byte)
                  /\ \A j \in InUse(b) : h.req_list[j] = b.req_list[j]
<1> DEFINE h == Stored(b, s)
           i == First(Indexes \ InUse(b))
           req == Req(s, RequestTimeout, RequestRetries % Byte)
<1>1. Indexes \ InUse(b) # {}
  <2>1. InUse(b) # Indexes
    BY InUseSize, Zenon DEF Room, Counted, Open
  <2> QED
    BY <2>1 DEF InUse
<1>2. i \in Indexes \ InUse(b)
  BY <1>1, FirstIsIn, Zenon
<1> HIDE DEF i
<1>3. /\ DOMAIN h = Fields /\ h.req_list = [b.req_list EXCEPT ![i] = req]
      /\ h.req_count = b.req_count + 1 /\ h.reconnect_next = b.reconnect_next
  BY Zenon DEF Shaped, Stored, Send, Fields, i
<1> HIDE DEF h
<1>4. req \in Pending
  <2>1. RequestTimeout \in Int /\ RequestRetries % Byte \in Nat
    BY BrokerAssumption DEF Byte
  <2> QED
    BY <2>1, Zenon DEF Req, Pending
<1> HIDE DEF req
<1>5. Shaped(h)
  BY <1>2, <1>3, <1>4, Zenon DEF Shaped
<1>6. \A j \in Indexes : h.req_list[j] = IF j = i THEN req ELSE b.req_list[j]
  BY <1>2, <1>3, Zenon DEF Shaped
<1>7. \A j \in Indexes : j \in InUse(h) <=> j \in InUse(b) \/ j = i
  BY <1>4, <1>5, <1>6, EntryType, Zenon
<1>8. InUse(h) = InUse(b) \cup {i}
  BY <1>2, <1>7 DEF InUse
<1>9. Cardinality(InUse(h)) = Cardinality(InUse(b)) + 1
  BY <1>2, <1>8, InUseSize, FS_AddElement, Zenon
<1>10. Counted(h)
  BY <1>3, <1>9, Zenon DEF Counted, Room
<1>11. \A j \in InUse(b) : h.req_list[j] = b.req_list[j]
  BY <1>2, <1>6, Zenon DEF InUse
<1>12. h.req_list[i] = req
  BY <1>2, <1>6, Zenon
<1> QED
  BY <1>2, <1>5, <1>8, <1>10, <1>11, <1>12, Zenon DEF h, req

------------------------------------------------------------------------------
(* What is known of the views *)

\* The sends that a counter of r still allows, 256 of them if it is to wrap; a
\* request with this counter was sent k times.
Left(r) == IF r = 0 THEN Byte ELSE r
Chances(r, k) ==
  r \in 0 .. Byte - 1 /\ k \in 1 .. SendLimit /\ k + Left(r) = SendLimit + 1

\* There is at least one send.
LEMMA LimitType == SendLimit \in Nat \ {0}
  BY BrokerAssumption DEF SendLimit, Byte

\* A new request has all its chances but the one it was sent with.
LEMMA FirstChance == Chances(RequestRetries % Byte, 1)
<1>1. RequestRetries % Byte \in 0 .. Byte - 1
  BY BrokerAssumption DEF Byte
<1> QED
  BY <1>1 DEF Chances, Left, SendLimit, Byte

\* Each send takes one of them, and the counter reaches 0 with the last.
LEMMA NextChance ==
  ASSUME NEW r, NEW k, Chances(r, k)
  PROVE  /\ Decremented(r) # 0 => Chances(Decremented(r), k + 1)
         /\ Decremented(r) = 0 => k = SendLimit
<1>1. r \in 0 .. Byte - 1 /\ k \in 1 .. SendLimit /\ k + Left(r) = SendLimit + 1
      /\ SendLimit \in Nat \ {0}
  BY LimitType DEF Chances
<1> HIDE DEF SendLimit
<1>2. CASE r = 0
  <2>1. Decremented(r) = Byte - 1 /\ k = SendLimit + 1 - Byte
    BY <1>1, <1>2 DEF Decremented, Left, Byte
  <2> QED
    BY <1>1, <2>1 DEF Chances, Left, Byte
<1>3. CASE r # 0
  <2>1. Decremented(r) = r - 1 /\ k + r = SendLimit + 1
    BY <1>1, <1>3 DEF Decremented, Left, Byte
  <2> QED
    BY <1>1, <1>3, <2>1 DEF Chances, Left, Byte
<1> QED
  BY <1>2, <1>3

\* n is the first view that was not taken from the pipe, g holds the views that
\* reached the server, d the ones that were abandoned, h the sends of each.
Tracked(b, h, d, g, n) ==
  /\ h \in [Seqs -> Nat]
  /\ \A i \in InUse(b) :
       /\ b.req_list[i].seq_num \in Seqs /\ b.req_list[i].seq_num < n
       /\ Chances(b.req_list[i].retries_remaining, h[b.req_list[i].seq_num])
  /\ \A i, j \in InUse(b) :
       b.req_list[i].seq_num = b.req_list[j].seq_num => i = j
  /\ \A s \in Seqs :
       /\ s >= n => h[s] = 0
       /\ h[s] <= SendLimit
       /\ s \in d => h[s] = SendLimit
       /\ h[s] > 0 => s \in Outstanding(b) \/ s \in g \/ s \in d

Kept(b, h, d, g, n) ==
  /\ Shaped(b) /\ Counted(b)
  /\ Tracked(b, h, d, g, n)

\* Other fields of the broker do not matter, and time does not either.
LEMMA KeptAlike ==
  ASSUME NEW b, NEW h, NEW d, NEW g, NEW n, Kept(b, h, d, g, n),
         NEW c, Shaped(c), c.req_count = b.req_count, InUse(c) = InUse(b),
         \A i \in InUse(b) :
            /\ c.req_list[i].seq_num = b.req_list[i].seq_num
            /\ c.req_list[i].retries_remaining = b.req_list[i].retries_remaining,
         NEW f, g \subseteq f
  PROVE  Kept(c, h, d, f, n)
<1>1. Counted(c)
  BY DEF Kept, Counted
<1>2. Outstanding(c) = Outstanding(b)
  BY Zenon DEF Outstanding
<1>3. ASSUME Tracked(b, h, d, g, n)
      PROVE  Tracked(c, h, d, f, n)
  <2>1. ASSUME NEW i \in InUse(c), NEW j \in InUse(c),
               c.req_list[i].seq_num = c.req_list[j].seq_num
        PROVE  i = j
    <3>1. b.req_list[i].seq_num = b.req_list[j].seq_num
      BY <2>1, Zenon
    <3> QED
      BY <1>3, <3>1, Zenon DEF Tracked
  <2>2. ASSUME NEW i \in InUse(c)
        PROVE  /\ c.req_list[i].seq_num \in Seqs /\ c.req_list[i].seq_num < n
               /\ Chances(c.req_list[i].retries_remaining, h[c.req_list[i].seq_num])
    <3>1. /\ c.req_list[i].seq_num = b.req_list[i].seq_num
          /\ c.req_list[i].retries_remaining = b.req_list[i].retries_remaining
      BY Zenon
    <3>2. /\ b.req_list[i].seq_num \in Seqs /\ b.req_list[i].seq_num < n
          /\ Chances(b.req_list[i].retries_remaining, h[b.req_list[i].seq_num])
      BY <1>3, Zenon DEF Tracked
    <3> QED
      BY <3>1, <3>2, Zenon
  <2>3. \A s \in Seqs : h[s] > 0 => s \in Outstanding(c) \/ s \in f \/ s \in d
    BY <1>2, <1>3, Zenon DEF Tracked
  <2> QED
    BY <1>3, <2>1, <2>2, <2>3, Zenon DEF Tracked
<1> QED
  BY <1>1, <1>3, Zenon DEF Kept

\* Steps that leave req_list and its bookkeeping alone keep Kept, also when
\* the server gets more views.
LEMMA KeptSame ==
  ASSUME NEW b, NEW h, NEW d, NEW g, NEW n, Kept(b, h, d, g, n),
         NEW c, Same(c, b), NEW f, g \subseteq f
  PROVE  Kept(c, h, d, f, n) /\ (Open(b) => Open(c))
<1>1. Shaped(c) /\ InUse(c) = InUse(b)
  BY Zenon DEF Same, Shaped, Kept, InUse
<1>2. Open(b) => Open(c)
  BY Zenon DEF Same, Open
<1> QED
  BY <1>1, <1>2, KeptAlike, Zenon DEF Same

\* A reply to a view that reached the server settles it.
LEMMA KeptReply ==
  ASSUME NEW b, NEW h, NEW d, NEW g, NEW n, Kept(b, h, d, g, n), Open(b),
         NEW s \in g
  PROVE  Kept(HandleReply(b, s), h, d, g, n) /\ Open(HandleReply(b, s))
<1> DEFINE c == HandleReply(b, s)
<1>1. Shaped(b) /\ Room(b)
  BY Zenon DEF Kept, Room
<1>2. /\ Shaped(c) /\ Counted(c) /\ Open(c)
      /\ \/ c = b
         \/ \E i \in InUse(b) : b.req_list[i].seq_num = s /\ c = ReqMarkUnused(b, i)
  BY <1>1, ReplyRoom, Zenon DEF Room
<1> HIDE DEF c
<1>3. ASSUME Tracked(b, h, d, g, n), NEW i \in InUse(b),
             b.req_list[i].seq_num = s, c = ReqMarkUnused(b, i)
      PROVE  Tracked(c, h, d, g, n)
  <2>1. /\ InUse(c) = InUse(b) \ {i}
        /\ \A j \in InUse(c) : c.req_list[j] = b.req_list[j]
    BY <1>1, <1>3, UnusedRoom, Zenon
  <2>2. Outstanding(b) \subseteq Outstanding(c) \cup {s}
    BY <1>3, <2>1, Zenon DEF Outstanding
  <2>3. \A j, k \in InUse(c) :
          c.req_list[j].seq_num = c.req_list[k].seq_num => j = k
    <3> SUFFICES ASSUME NEW j \in InUse(c), NEW k \in InUse(c),
                        c.req_list[j].seq_num = c.req_list[k].seq_num
                 PROVE  j = k
      OBVIOUS
    <3>1. j \in InUse(b) /\ k \in InUse(b)
          /\ b.req_list[j].seq_num = b.req_list[k].seq_num
      BY <2>1, Zenon
    <3> QED
      BY <1>3, <3>1, Zenon DEF Tracked
  <2>4. \A j \in InUse(c) :
          /\ c.req_list[j].seq_num \in Seqs /\ c.req_list[j].seq_num < n
          /\ Chances(c.req_list[j].retries_remaining, h[c.req_list[j].seq_num])
    <3> SUFFICES ASSUME NEW j \in InUse(c)
                 PROVE  /\ c.req_list[j].seq_num \in Seqs
                        /\ c.req_list[j].seq_num < n
                        /\ Chances(c.req_list[j].retries_remaining,
                                   h[c.req_list[j].seq_num])
      OBVIOUS
    <3>1. j \in InUse(b) /\ c.req_list[j] = b.req_list[j]
      BY <2>1, Zenon
    <3> QED
      BY <1>3, <3>1, Zenon DEF Tracked
  <2>5. \A u \in Seqs : h[u] > 0 => u \in Outstanding(c) \/ u \in g \/ u \in d
    BY <1>3, <2>2, Zenon DEF Tracked
  <2> QED
    BY <1>3, <2>3, <2>4, <2>5, Zenon DEF Tracked
<1> QED
  BY <1>2, <1>3, Zenon DEF c, Kept

\* The histories after handle_timeouts
SentAlso(h, b) ==
  [s \in Seqs |->
     h[s] + Cardinality({i \in Resent(b) : b.req_list[i].seq_num = s})]
DroppedAlso(d, b) == d \cup {b.req_list[i].seq_num : i \in Abandoned(b)}

\* handle_timeouts takes a retry for each send, and gives up a view that was
\* sent as often as it may.
LEMMA TrackedTimeout ==
  ASSUME NEW b, NEW h, NEW d, NEW g, NEW n \in Nat, Shaped(b),
         Tracked(b, h, d, g, n)
  PROVE  Tracked(HandleTimeouts(b), SentAlso(h, b), DroppedAlso(d, b), g, n)
<1> DEFINE c == HandleTimeouts(b)
           h2 == SentAlso(h, b)
           d2 == DroppedAlso(d, b)
           Of(s) == {i \in Resent(b) : b.req_list[i].seq_num = s}
<1>1. /\ InUse(c) = InUse(b) \ Abandoned(b)
      /\ \A i \in InUse(c) :
           c.req_list[i] =
             IF i \in Resent(b)
             THEN Req(b.req_list[i].seq_num, RequestTimeout,
                      Decremented(b.req_list[i].retries_remaining))
             ELSE b.req_list[i]
  BY TimeoutFields, Zenon
<1> HIDE DEF c
<1>2. Resent(b) \subseteq InUse(c) /\ InUse(c) \subseteq InUse(b)
      /\ Abandoned(b) \subseteq InUse(b)
  BY <1>1 DEF Abandoned, Expired, Resent
<1>3. \A i \in InUse(b) :
        /\ b.req_list[i].seq_num \in Seqs /\ b.req_list[i].seq_num < n
        /\ Chances(b.req_list[i].retries_remaining, h[b.req_list[i].seq_num])
  BY Zenon DEF Tracked
<1>4. \A i, j \in InUse(b) :
        b.req_list[i].seq_num = b.req_list[j].seq_num => i = j
  BY Zenon DEF Tracked
<1>5. \A i \in Resent(b) : Decremented(b.req_list[i].retries_remaining) # 0
  BY Zenon DEF Resent, Abandoned
<1>6. \A i \in Resent(b) :
        Chances(Decremented(b.req_list[i].retries_remaining),
                h[b.req_list[i].seq_num] + 1)
  BY <1>2, <1>3, <1>5, NextChance, Zenon
<1>7. \A i \in Abandoned(b) : h[b.req_list[i].seq_num] = SendLimit
  <2>1. \A i \in Abandoned(b) : Decremented(b.req_list[i].retries_remaining) = 0
    BY Zenon DEF Abandoned
  <2> SUFFICES ASSUME NEW i \in Abandoned(b)
               PROVE  h[b.req_list[i].seq_num] = SendLimit
    OBVIOUS
  <2>2. i \in InUse(b)
    BY <1>2, Zenon
  <2>3. Chances(b.req_list[i].retries_remaining, h[b.req_list[i].seq_num])
    BY <1>3, <2>2, Zenon
  <2>4. Decremented(b.req_list[i].retries_remaining) = 0
    BY <2>1, Zenon
  <2> QED
    BY <2>3, <2>4, NextChance
<1>8. h \in [Seqs -> Nat]
  BY Zenon DEF Tracked
<1>9. ASSUME NEW i \in Resent(b)
      PROVE  h2[b.req_list[i].seq_num] = h[b.req_list[i].seq_num] + 1
  <2>1. Of(b.req_list[i].seq_num) = {i}
    BY <1>2, <1>4
  <2>2. Cardinality(Of(b.req_list[i].seq_num)) = 1
    BY <2>1, FS_Singleton, Zenon
  <2>3. b.req_list[i].seq_num \in Seqs
    BY <1>2, <1>3
  <2> QED
    BY <2>2, <2>3, Zenon DEF SentAlso
<1>10. ASSUME NEW s \in Seqs, \A i \in Resent(b) : b.req_list[i].seq_num # s
       PROVE  h2[s] = h[s]
  <2>1. Of(s) = {}
    BY <1>10
  <2>2. Cardinality(Of(s)) = 0
    BY <2>1, FS_EmptySet, Zenon
  <2>3. h2[s] = h[s] + 0
    BY <2>2, Zenon DEF SentAlso
  <2> QED
    BY <1>8, <2>3
<1>11. DOMAIN h2 = Seqs /\ h2 = [s \in Seqs |-> h2[s]]
  BY Zenon DEF SentAlso
<1> HIDE DEF h2
<1>12. \A s \in Seqs : h2[s] \in Nat
  BY <1>8, <1>9, <1>10
<1>13. h2 \in [Seqs -> Nat]
  BY <1>11, <1>12, Zenon
<1>14. ASSUME NEW i \in InUse(c)
       PROVE  /\ c.req_list[i].seq_num = b.req_list[i].seq_num
              /\ Chances(c.req_list[i].retries_remaining, h2[b.req_list[i].seq_num])
  <2> DEFINE s == b.req_list[i].seq_num
             r == b.req_list[i].retries_remaining
  <2>1. s \in Seqs /\ Chances(r, h[s])
    BY <1>2, <1>3, Zenon
  <2>2. CASE i \in Resent(b)
    <3>1. c.req_list[i] = Req(s, RequestTimeout, Decremented(r))
      BY <1>1, <2>2, Zenon
    <3>2. c.req_list[i].seq_num = s /\ c.req_list[i].retries_remaining = Decremented(r)
      BY <3>1, ReqFields
    <3>3. h2[s] = h[s] + 1 /\ Chances(Decremented(r), h[s] + 1)
      BY <1>6, <1>9, <2>2, Zenon
    <3> QED
      BY <3>2, <3>3, Zenon
  <2>3. CASE i \notin Resent(b)
    <3>1. c.req_list[i] = b.req_list[i]
      BY <1>1, <2>3, Zenon
    <3>2. h2[s] = h[s]
      BY <1>2, <1>4, <1>10, <2>1, <2>3, Zenon
    <3> QED
      BY <2>1, <3>1, <3>2, Zenon
  <2> QED
    BY <2>2, <2>3
<1>15. ASSUME NEW i \in InUse(c), NEW j \in InUse(c),
              c.req_list[i].seq_num = c.req_list[j].seq_num
       PROVE  i = j
  <2>1. b.req_list[i].seq_num = b.req_list[j].seq_num
    BY <1>14, <1>15, Zenon
  <2> QED
    BY <1>2, <1>4, <2>1, Zenon
<1>16. ASSUME NEW s \in Seqs
       PROVE  /\ s >= n => h2[s] = 0
              /\ h2[s] <= SendLimit
              /\ s \in d2 => h2[s] = SendLimit
              /\ h2[s] > 0 => s \in Outstanding(c) \/ s \in g \/ s \in d2
  <2>1. CASE \E i \in Resent(b) : b.req_list[i].seq_num = s
    <3>1. PICK i \in Resent(b) : b.req_list[i].seq_num = s
      BY <2>1
    <3>2. i \in InUse(c) /\ i \in InUse(b)
      BY <1>2
    <3>3. s \in Outstanding(c)
      BY <1>14, <3>1, <3>2, Zenon DEF Outstanding
    <3>4. s < n /\ s \in Int
      BY <1>3, <3>1, <3>2 DEF Seqs
    <3>5. h[s] \in Nat /\ h2[s] = h[s] + 1 /\ h[s] + 1 \in 1 .. SendLimit
      BY <1>6, <1>8, <1>9, <3>1, Zenon DEF Chances
    <3>6. s \notin d
      <4>1. h[s] # SendLimit
        BY <3>5, LimitType
      <4> QED
        BY <4>1, Zenon DEF Tracked
    <3>7. \A j \in Abandoned(b) : b.req_list[j].seq_num # s
      <4>1. i \notin Abandoned(b)
        BY Zenon DEF Resent
      <4> QED
        BY <1>2, <1>4, <3>1, <3>2, <4>1, Zenon
    <3>8. s \notin d2
      BY <3>6, <3>7, Zenon DEF DroppedAlso
    <3>9. ~(s >= n) /\ h2[s] <= SendLimit
      BY <3>4, <3>5, LimitType
    <3> QED
      BY <3>3, <3>8, <3>9, Zenon
  <2>2. CASE ~ \E i \in Resent(b) : b.req_list[i].seq_num = s
    <3>1. h2[s] = h[s]
      BY <1>10, <2>2
    <3>2. /\ s >= n => h[s] = 0
          /\ h[s] <= SendLimit
          /\ s \in d => h[s] = SendLimit
          /\ h[s] > 0 => s \in Outstanding(b) \/ s \in g \/ s \in d
      BY Zenon DEF Tracked
    <3>3. ASSUME s \in Outstanding(b)
          PROVE  s \in Outstanding(c) \/ s \in d2
      <4>1. PICK i \in InUse(b) : b.req_list[i].seq_num = s
        BY <3>3, Zenon DEF Outstanding
      <4>2. CASE i \in Abandoned(b)
        BY <4>1, <4>2, Zenon DEF DroppedAlso
      <4>3. CASE i \notin Abandoned(b)
        <5>1. i \in InUse(c)
          BY <1>1, <4>3
        <5>2. c.req_list[i].seq_num = s
          BY <1>14, <4>1, <5>1, Zenon
        <5> QED
          BY <5>1, <5>2 DEF Outstanding
      <4> QED
        BY <4>2, <4>3
    <3>4. s \in d => s \in d2
      BY Zenon DEF DroppedAlso
    <3>5. s \in d2 => h[s] = SendLimit
      BY <1>7, <3>2, Zenon DEF DroppedAlso
    <3> QED
      BY <3>1, <3>2, <3>3, <3>4, <3>5, Zenon
  <2> QED
    BY <2>1, <2>2
<1>17. ASSUME NEW i \in InUse(c)
       PROVE  /\ c.req_list[i].seq_num \in Seqs /\ c.req_list[i].seq_num < n
              /\ Chances(c.req_list[i].retries_remaining, h2[c.req_list[i].seq_num])
  <2>1. i \in InUse(b) /\ c.req_list[i].seq_num = b.req_list[i].seq_num
    BY <1>2, <1>14, Zenon
  <2>2. /\ b.req_list[i].seq_num \in Seqs /\ b.req_list[i].seq_num < n
        /\ Chances(c.req_list[i].retries_remaining, h2[b.req_list[i].seq_num])
    BY <1>3, <1>14, <2>1, Zenon
  <2> QED
    BY <2>1, <2>2, Zenon
<1> HIDE DEF d2
<1> QED
  BY <1>13, <1>14, <1>15, <1>16, <1>17, Zenon DEF Tracked, c, h2, d2

\* handle_timeouts, which sends again or abandons every request that is due,
\* keeps track of all of them.
LEMMA KeptTimeout ==
  ASSUME NEW b, NEW h, NEW d, NEW g, NEW n \in Nat, Kept(b, h, d, g, n)
  PROVE  LET c == HandleTimeouts(b)
         IN  /\ Kept(c, SentAlso(h, b), DroppedAlso(d, b), g, n)
             /\ c.master_removed = b.master_removed
             /\ Open(b) => Open(c)
<1>1. Shaped(b) /\ Counted(b)
  BY Zenon DEF Kept
<1>2. LET c == HandleTimeouts(b)
      IN  /\ Shaped(c) /\ Counted(c) /\ c.master_removed = b.master_removed
          /\ Open(b) => Open(c)
  BY <1>1, TimeoutRoom, Zenon
<1>3. Tracked(HandleTimeouts(b), SentAlso(h, b), DroppedAlso(d, b), g, n)
  BY <1>1, TrackedTimeout, Zenon DEF Kept
<1> QED
  BY <1>2, <1>3, Zenon DEF Kept

\* The next view from the pipe is tracked from its first send.
LEMMA KeptStored ==
  ASSUME NEW b, NEW h, NEW d, NEW g, NEW n \in Seqs, Kept(b, h, d, g, n),
         Open(b), ~b.master_removed
  PROVE  Kept(Stored(b, n), [h EXCEPT ![n] = @ + 1], d, g, n + 1)
<1> DEFINE c == Stored(b, n)
           h2 == [h EXCEPT ![n] = @ + 1]
<1>1. n \in Nat
  BY DEF Seqs
<1>2. /\ Shaped(c) /\ Counted(c)
      /\ \E i \in Indexes \ InUse(b) :
           /\ InUse(c) = InUse(b) \cup {i}
           /\ c.req_list[i] = Req(n, RequestTimeout, RequestRetries % Byte)
           /\ \A j \in InUse(b) : c.req_list[j] = b.req_list[j]
  BY <1>1, StoredFields, Zenon DEF Kept, Room
<1> HIDE DEF c
<1>3. PICK i \in Indexes \ InUse(b) :
           /\ InUse(c) = InUse(b) \cup {i}
           /\ c.req_list[i] = Req(n, RequestTimeout, RequestRetries % Byte)
           /\ \A j \in InUse(b) : c.req_list[j] = b.req_list[j]
  BY <1>2, Zenon
<1>4. Tracked(c, h2, d, g, n + 1)
  <2>1. Tracked(b, h, d, g, n)
    BY Zenon DEF Kept
  <2>2. SendLimit \in Nat \ {0}
    BY LimitType
  <2>3. c.req_list[i].seq_num = n
        /\ c.req_list[i].retries_remaining = RequestRetries % Byte
    BY <1>3, ReqFields
  <2>4. h \in [Seqs -> Nat] /\ h[n] = 0
    BY <1>1, <2>1 DEF Tracked
  <2>5. h2 \in [Seqs -> Nat] /\ h2[n] = 1
        /\ \A s \in Seqs : s # n => h2[s] = h[s]
    BY <2>4
  <2> HIDE DEF h2
  <2>6. ASSUME NEW j \in InUse(b)
        PROVE  /\ c.req_list[j].seq_num \in Seqs /\ c.req_list[j].seq_num < n
               /\ Chances(c.req_list[j].retries_remaining, h2[c.req_list[j].seq_num])
    <3> DEFINE s == b.req_list[j].seq_num
               r == b.req_list[j].retries_remaining
    <3>1. c.req_list[j] = b.req_list[j]
      BY <1>3, Zenon
    <3>2. s \in Seqs /\ s < n /\ Chances(r, h[s])
      BY <2>1, Zenon DEF Tracked
    <3>3. s # n
      BY <1>1, <3>2 DEF Seqs
    <3>4. h2[s] = h[s]
      BY <2>5, <3>2, <3>3, Zenon
    <3> QED
      BY <3>1, <3>2, <3>4, Zenon
  <2>7. ASSUME NEW j \in InUse(c)
        PROVE  /\ c.req_list[j].seq_num \in Seqs
               /\ c.req_list[j].seq_num < n + 1
               /\ Chances(c.req_list[j].retries_remaining, h2[c.req_list[j].seq_num])
    <3>1. CASE j = i
      <4>1. n < n + 1
        BY <1>1
      <4> QED
        BY <2>3, <2>5, <3>1, <4>1, FirstChance, Zenon
    <3>2. CASE j \in InUse(b)
      <4>1. c.req_list[j].seq_num < n => c.req_list[j].seq_num < n + 1
        BY <1>1, <2>6, <3>2 DEF Seqs
      <4> QED
        BY <2>6, <3>2, <4>1, Zenon
    <3> QED
      BY <1>3, <3>1, <3>2
  <2>8. ASSUME NEW j \in InUse(c), NEW k \in InUse(c),
               c.req_list[j].seq_num = c.req_list[k].seq_num
        PROVE  j = k
    <3>1. \A m \in InUse(b) : c.req_list[m].seq_num # n
      BY <1>1, <2>6 DEF Seqs
    <3>2. CASE j \in InUse(b) /\ k \in InUse(b)
      <4>1. b.req_list[j].seq_num = b.req_list[k].seq_num
        BY <1>3, <2>8, <3>2, Zenon
      <4> QED
        BY <2>1, <3>2, <4>1, Zenon DEF Tracked
    <3>3. CASE j = i \/ k = i
      BY <1>3, <2>3, <2>8, <3>1, <3>3, Zenon
    <3> QED
      BY <1>3, <3>2, <3>3, Zenon
  <2>9. Outstanding(c) = Outstanding(b) \cup {n}
    <3>1. \A j \in InUse(b) : c.req_list[j].seq_num = b.req_list[j].seq_num
      BY <1>3, Zenon
    <3> QED
      BY <1>3, <2>3, <3>1 DEF Outstanding
  <2>10. ASSUME NEW s \in Seqs
         PROVE  /\ s >= n + 1 => h2[s] = 0
                /\ h2[s] <= SendLimit
                /\ s \in d => h2[s] = SendLimit
                /\ h2[s] > 0 => s \in Outstanding(c) \/ s \in g \/ s \in d
    <3>1. /\ s >= n => h[s] = 0
          /\ h[s] <= SendLimit
          /\ s \in d => h[s] = SendLimit
          /\ h[s] > 0 => s \in Outstanding(b) \/ s \in g \/ s \in d
      BY <2>1, Zenon DEF Tracked
    <3>2. CASE s = n
      <4>1. n \notin d
        BY <2>2, <2>4, <3>1, <3>2
      <4>2. ~(n >= n + 1) /\ 1 <= SendLimit
        BY <1>1, <2>2
      <4> QED
        BY <2>5, <2>9, <3>2, <4>1, <4>2, Zenon
    <3>3. CASE s # n
      <4>1. h2[s] = h[s]
        BY <2>5, <3>3
      <4>2. s >= n + 1 => s >= n
        BY <1>1 DEF Seqs
      <4> QED
        BY <2>9, <3>1, <4>1, <4>2, Zenon
    <3> QED
      BY <3>2, <3>3
  <2> QED
    BY <2>5, <2>7, <2>8, <2>10, Zenon DEF Tracked
<1> QED
  BY <1>2, <1>4, Zenon DEF c, Kept

------------------------------------------------------------------------------
(* The invariant *)

\* The views that were taken from the pipe are the ones before Taken; the pipe
\* holds the others, in order.
Taken == seq_num - Len(pipe)
Piped ==
  /\ seq_num \in 0 .. MaxViews /\ pipe \in Seq(Nat) /\ Len(pipe) <= seq_num
  /\ \A k \in 1 .. Len(pipe) : pipe[k] = Taken + k - 1

\* What the server sends: it replies only to views that reached it.
Wire(g) == {Beat} \cup {Reply(s) : s \in g}

IInv ==
  /\ Piped
  /\ down \in Seq(Wire(got))
  /\ Kept(broker, sends, dropped, got, Taken) /\ Open(broker)

\* Sending a message touches the socket only.
LEMMA SendSame ==
  ASSUME NEW b, NEW m, Shaped(b)
  PROVE  Same(Send(b, m), b)
  BY Zenon DEF Send, Same, Shaped, Fields

\* The number of views taken from the pipe is a natural number.
LEMMA TakenType ==
  ASSUME Piped
  PROVE  Taken \in Nat
  BY LenProperties DEF Piped, Taken

\* A handler that fails leaves req_list as it is.
LEMMA QuitKept ==
  ASSUME NEW b, NEW h, NEW d, NEW g, NEW n, Kept(b, h, d, g, n), Open(b), Quit(b)
  PROVE  Kept(broker', h, d, g, n) /\ Open(broker')
<1>1. Same(broker', b)
  BY SendSame, Zenon DEF Quit, Kept
<1> QED
  BY <1>1, KeptSame, Zenon

\* The two histories are the ones of TrackedTimeout.
LEMMA TimedAlso ==
  ASSUME NEW h, NEW b, Timed(h, b)
  PROVE  sends' = SentAlso(h, b) /\ dropped' = DroppedAlso(dropped, b)
  BY Zenon DEF Timed, SentAlso, DroppedAlso

\* handle_timeouts at the end of a handler
LEMMA ResumeKept ==
  ASSUME NEW b, NEW g, NEW n \in Nat, Kept(b, sends, dropped, g, n), Open(b),
         Timed(sends, b), broker' = HandleTimeouts(b)
  PROVE  Kept(broker', sends', dropped', g, n) /\ Open(broker')
  BY KeptTimeout, TimedAlso, Zenon

\* A step that leaves the pipe and what the server sent
LEMMA PipeSame ==
  ASSUME IInv, UNCHANGED <<seq_num, pipe>>
  PROVE  Piped' /\ Taken' = Taken
  BY Zenon DEF IInv, Piped, Taken

\* handle_master_msg: the view taken from the pipe gets the free entry.
LEMMA MasterStep ==
  ASSUME IInv, HandleMaster
  PROVE  IInv'
<1> DEFINE n == Taken
<1>1. /\ Kept(broker, sends, dropped, got, n) /\ Open(broker)
      /\ Piped /\ down' \in Seq(Wire(got')) /\ got' = got
  BY Zenon DEF IInv, HandleMaster, server
<1>2. CASE IsShutdownTime(broker) /\ Quit(broker) /\ UNCHANGED <<pipe, history>>
  <2>1. UNCHANGED <<seq_num, pipe, sends, dropped>>
    BY <1>2, Zenon DEF HandleMaster, history
  <2>2. Piped' /\ Taken' = n
    BY <2>1, PipeSame, Zenon
  <2>3. Kept(broker', sends, dropped, got, n) /\ Open(broker')
    BY <1>1, <1>2, QuitKept, Zenon
  <2> QED
    BY <1>1, <2>1, <2>2, <2>3, Zenon DEF IInv
<1> DEFINE sent == Stored(broker, Head(pipe))
           timed == HandleTimeouts(sent)
           h == [sends EXCEPT ![Head(pipe)] = @ + 1]
           c == [timed EXCEPT !.master_removed = timed.req_count = MaxOutstanding]
<1>3. CASE /\ Resume(c) /\ Timed(h, sent) /\ pipe' = Tail(pipe)
  <2>1. ~broker.master_removed /\ pipe # <<>> /\ seq_num' = seq_num
    BY Zenon DEF HandleMaster
  <2>2. /\ seq_num \in 0 .. MaxViews /\ pipe \in Seq(Nat) /\ Len(pipe) <= seq_num
        /\ \A k \in 1 .. Len(pipe) : pipe[k] = n + k - 1
        /\ Len(pipe) \in Nat /\ Len(pipe) # 0 /\ n = seq_num - Len(pipe)
    BY <1>1, <2>1, EmptySeq, LenProperties DEF Piped, Taken
  <2>3. Head(pipe) = pipe[1]
    BY <2>1, <2>2, HeadTailProperties
  <2>4. /\ Tail(pipe) \in Seq(Nat) /\ Len(Tail(pipe)) = Len(pipe) - 1
        /\ \A k \in 1 .. Len(Tail(pipe)) : Tail(pipe)[k] = pipe[k + 1]
    BY <2>1, <2>2, HeadTailProperties
  <2>5. pipe[1] = n /\ n \in Seqs /\ n \in Nat /\ n + 1 \in Nat
    BY <2>2, BrokerAssumption DEF Seqs
  <2>6. Taken' = n + 1
    BY <1>3, <2>1, <2>2, <2>4 DEF Taken
  <2>7. ASSUME NEW k \in 1 .. Len(pipe')
        PROVE  pipe'[k] = Taken' + k - 1
    <3>1. k \in 1 .. Len(Tail(pipe)) /\ pipe'[k] = Tail(pipe)[k]
      BY <1>3, Zenon
    <3>2. k + 1 \in 1 .. Len(pipe) /\ k \in Nat
      BY <2>2, <2>4, <3>1
    <3>3. pipe'[k] = n + (k + 1) - 1
      BY <2>2, <2>4, <3>1, <3>2, Zenon
    <3> HIDE DEF n
    <3> QED
      BY <2>5, <2>6, <3>2, <3>3
  <2>8. Len(pipe') <= seq_num'
    BY <1>3, <2>1, <2>2, <2>4
  <2>9. Piped'
    BY <1>3, <2>1, <2>2, <2>4, <2>7, <2>8 DEF Piped
  <2> HIDE DEF n
  <2>10. Kept(sent, h, dropped, got, n + 1)
    BY <1>1, <2>1, <2>3, <2>5, KeptStored, Zenon
  <2> HIDE DEF sent, h
  <2>11. Kept(timed, sends', dropped', got, n + 1)
    <3>1. sends' = SentAlso(h, sent) /\ dropped' = DroppedAlso(dropped, sent)
      BY <1>3, TimedAlso, Zenon
    <3>2. Kept(timed, SentAlso(h, sent), DroppedAlso(dropped, sent), got, n + 1)
      BY <2>5, <2>10, KeptTimeout, Zenon
    <3> QED
      BY <3>1, <3>2, Zenon
  <2> HIDE DEF timed
  <2>12. /\ DOMAIN c = Fields /\ c.req_list = timed.req_list
         /\ c.req_count = timed.req_count
         /\ c.master_removed = (timed.req_count = MaxOutstanding)
         /\ c.reconnect_next = timed.reconnect_next
    BY <2>11, Zenon DEF Kept, Shaped, Fields
  <2>13. broker' = c
    BY <1>3, Zenon DEF Resume
  <2> HIDE DEF c
  <2>14. Shaped(c) /\ InUse(c) = InUse(timed) /\ Open(c)
    BY <2>11, <2>12, Zenon DEF Kept, Shaped, InUse, Open
  <2>15. Kept(c, sends', dropped', got, n + 1)
    BY <2>11, <2>12, <2>14, KeptAlike, Zenon
  <2> QED
    BY <1>1, <2>6, <2>9, <2>13, <2>14, <2>15, Zenon DEF IInv
<1> QED
  BY <1>2, <1>3, Zenon DEF HandleMaster

\* handle_server_msg: a reply frees the entry of its own request or none.
LEMMA ServerMsgStep ==
  ASSUME IInv, HandleServerMsg
  PROVE  IInv'
<1> DEFINE n == Taken
           m == Head(down)
           heard == [broker EXCEPT !.liveness_remaining = Liveness]
           replied == IF m.type = "REPLY" THEN HandleReply(heard, m.seq_num)
                                          ELSE heard
           b == [replied EXCEPT !.reconnect_next = ReconnectMin]
<1>1. /\ Kept(broker, sends, dropped, got, n) /\ Open(broker) /\ Shaped(broker)
      /\ down \in Seq(Wire(got)) /\ down # <<>> /\ got' = got
      /\ Piped' /\ Taken' = n /\ n \in Nat
  <2>1. UNCHANGED <<seq_num, pipe>> /\ Piped
    BY Zenon DEF IInv, HandleServerMsg
  <2> QED
    BY <2>1, PipeSame, TakenType, Zenon DEF IInv, HandleServerMsg, Kept
<1> HIDE DEF n
<1>2. CASE Quit(broker) /\ UNCHANGED <<down, history>>
  <2>1. Kept(broker', sends, dropped, got, n) /\ Open(broker')
    BY <1>1, <1>2, QuitKept, Zenon
  <2> QED
    BY <1>1, <1>2, <2>1, Zenon DEF IInv, history
<1>3. CASE /\ IF IsShutdownTime(b) THEN Quit(b) /\ UNCHANGED history
              ELSE Resume(Reopened(HandleTimeouts(b))) /\ Timed(sends, b)
           /\ down' = Tail(down)
  <2>1. m \in Wire(got) /\ Tail(down) \in Seq(Wire(got))
    BY <1>1, HeadTailProperties
  <2>2. m.type = "REPLY" => m.seq_num \in got
    BY <2>1 DEF Wire, Beat, Reply
  <2>3. Same(heard, broker)
    BY <1>1, Zenon DEF Same, Shaped, Fields
  <2> HIDE DEF m, heard
  <2>4. Kept(heard, sends, dropped, got, n) /\ Open(heard)
    BY <1>1, <2>3, KeptSame, Zenon
  <2>5. Kept(replied, sends, dropped, got, n) /\ Open(replied)
    BY <2>2, <2>4, KeptReply, Zenon
  <2> HIDE DEF replied
  <2>6. ReconnectMin \in Nat
    BY BrokerAssumption
  <2>7. Same(b, replied)
    BY <2>5, <2>6, Zenon DEF Same, Kept, Shaped, Fields
  <2> HIDE DEF b
  <2>8. Kept(b, sends, dropped, got, n) /\ Open(b)
    BY <2>5, <2>7, KeptSame, Zenon
  <2>9. CASE Quit(b) /\ UNCHANGED history
    <3>1. Kept(broker', sends, dropped, got, n) /\ Open(broker')
      BY <2>8, <2>9, QuitKept, Zenon
    <3> QED
      BY <1>1, <1>3, <2>1, <2>9, <3>1, Zenon DEF IInv, history
  <2>10. CASE Resume(Reopened(HandleTimeouts(b))) /\ Timed(sends, b)
    <3> DEFINE t == HandleTimeouts(b)
               c == Reopened(t)
    <3>1. Kept(t, sends', dropped', got, n) /\ Open(t)
      <4>1. sends' = SentAlso(sends, b) /\ dropped' = DroppedAlso(dropped, b)
        BY <2>10, TimedAlso, Zenon
      <4>2. /\ Kept(t, SentAlso(sends, b), DroppedAlso(dropped, b), got, n)
            /\ Open(t)
        BY <1>1, <2>8, KeptTimeout, Zenon
      <4> QED
        BY <4>1, <4>2, Zenon
    <3>2. broker' = c
      BY <2>10, Zenon DEF Resume
    <3> HIDE DEF t
    <3>3. /\ DOMAIN c = Fields /\ c.req_list = t.req_list
          /\ c.req_count = t.req_count /\ c.reconnect_next = t.reconnect_next
          /\ c.master_removed = (t.master_removed /\ t.req_count = MaxOutstanding)
      BY <3>1, Zenon DEF Reopened, Kept, Shaped, Fields
    <3> HIDE DEF c
    <3>4. Shaped(c) /\ InUse(c) = InUse(t) /\ Open(c)
      BY <3>1, <3>3, Zenon DEF Kept, Shaped, InUse, Open
    <3>5. Kept(c, sends', dropped', got, n)
      BY <3>1, <3>3, <3>4, KeptAlike, Zenon
    <3> QED
      BY <1>1, <1>3, <2>1, <3>2, <3>4, <3>5, Zenon DEF IInv
  <2> QED
    BY <1>3, <2>9, <2>10
<1> QED
  BY <1>2, <1>3, Zenon DEF HandleServerMsg

\* handle_signal_msg: being told to stop forgets no request.
LEMMA SignalStep ==
  ASSUME IInv, HandleSignal
  PROVE  IInv'
<1> DEFINE n == Taken
           told == [broker EXCEPT !.shutdown_time =
                                     IF @ = Never THEN Linger ELSE @]
<1>1. /\ Kept(broker, sends, dropped, got, n) /\ Open(broker) /\ Shaped(broker)
      /\ down' \in Seq(Wire(got')) /\ got' = got
      /\ Piped' /\ Taken' = n /\ n \in Nat
  <2>1. UNCHANGED <<seq_num, pipe>> /\ Piped
    BY Zenon DEF IInv, HandleSignal
  <2> QED
    BY <2>1, PipeSame, TakenType, Zenon DEF IInv, HandleSignal, Kept, server
<1> HIDE DEF n
<1>2. IF IsShutdownTime(told) THEN Quit(told) /\ UNCHANGED history
      ELSE Resume(HandleTimeouts(told)) /\ Timed(sends, told)
  BY Zenon DEF HandleSignal
<1>3. Same(told, broker)
  BY <1>1, Zenon DEF Same, Shaped, Fields
<1> HIDE DEF told
<1>4. Kept(told, sends, dropped, got, n) /\ Open(told)
  BY <1>1, <1>3, KeptSame, Zenon
<1>5. CASE Quit(told) /\ UNCHANGED history
  <2>1. Kept(broker', sends, dropped, got, n) /\ Open(broker')
    BY <1>4, <1>5, QuitKept, Zenon
  <2> QED
    BY <1>1, <1>5, <2>1, Zenon DEF IInv, history
<1>6. CASE Resume(HandleTimeouts(told)) /\ Timed(sends, told)
  <2>1. Kept(broker', sends', dropped', got, n) /\ Open(broker')
    BY <1>1, <1>4, <1>6, ResumeKept, Zenon DEF Resume
  <2> QED
    BY <1>1, <2>1, Zenon DEF IInv
<1> QED
  BY <1>2, <1>5, <1>6

\* handle_heartbeat_timer: reconnecting, timeouts and shutdown keep track of
\* every request.
LEMMA TimerStep ==
  ASSUME IInv, HandleTimer
  PROVE  IInv'
<1> DEFINE n == Taken
           beat == [broker EXCEPT !.liveness_remaining = @ - 1]
           slept == broker.reconnect_next
           timely == IF beat.heartbeat_next < 0
                     THEN [Send(beat, Beat) EXCEPT !.heartbeat_next = Interval]
                     ELSE beat
           renewed == Renewed(beat)
<1>1. /\ Kept(broker, sends, dropped, got, n) /\ Open(broker) /\ Shaped(broker)
      /\ down \in Seq(Wire(got)) /\ got' = got
      /\ Piped' /\ Taken' = n /\ n \in Nat
  <2>1. UNCHANGED <<seq_num, pipe>> /\ Piped
    BY Zenon DEF IInv, HandleTimer
  <2> QED
    BY <2>1, PipeSame, TakenType, Zenon DEF IInv, HandleTimer, Kept
<1> HIDE DEF n
<1>2. Same(beat, broker)
  BY <1>1, Zenon DEF Same, Shaped, Fields
<1>3. Kept(beat, sends, dropped, got, n) /\ Open(beat)
  BY <1>1, <1>2, KeptSame, Zenon
<1>4. \/ Quit(broker) /\ UNCHANGED <<down, sub, history>>
      \/ /\ Resume(HandleTimeouts(timely)) /\ Timed(sends, timely)
         /\ UNCHANGED <<down, sub>>
      \/ /\ Resume(Elapse(HandleTimeouts(renewed), slept))
         /\ Timed(sends, renewed) /\ down' = <<>>
  BY Zenon DEF HandleTimer
<1> HIDE DEF beat
<1>5. CASE Quit(broker) /\ UNCHANGED <<down, sub, history>>
  <2>1. Kept(broker', sends, dropped, got, n) /\ Open(broker')
    BY <1>1, <1>5, QuitKept, Zenon
  <2> QED
    BY <1>1, <1>5, <2>1, Zenon DEF IInv, history
<1>6. CASE /\ Resume(HandleTimeouts(timely)) /\ Timed(sends, timely)
           /\ UNCHANGED <<down, sub>>
  <2>1. Same(timely, beat)
    BY <1>3, Zenon DEF Same, Kept, Shaped, Send, Fields
  <2> HIDE DEF timely
  <2>2. Kept(timely, sends, dropped, got, n) /\ Open(timely)
    BY <1>3, <2>1, KeptSame, Zenon
  <2>3. Kept(broker', sends', dropped', got, n) /\ Open(broker')
    BY <1>1, <1>6, <2>2, ResumeKept, Zenon DEF Resume
  <2> QED
    BY <1>1, <1>6, <2>3, Zenon DEF IInv
<1>7. CASE /\ Resume(Elapse(HandleTimeouts(renewed), slept))
           /\ Timed(sends, renewed) /\ down' = <<>>
  <2> DEFINE t == HandleTimeouts(renewed)
             c == Elapse(t, slept)
  <2>1. Same(renewed, beat)
    <3>1. beat.reconnect_next \in Nat /\ 2 * beat.reconnect_next \in Nat
      BY <1>3 DEF Kept, Shaped
    <3> QED
      BY <1>3, <3>1, Zenon DEF Same, Kept, Shaped, Renewed, Connected, Fields
  <2> HIDE DEF renewed
  <2>2. Kept(renewed, sends, dropped, got, n) /\ Open(renewed)
    BY <1>3, <2>1, KeptSame, Zenon
  <2>3. Kept(t, sends', dropped', got, n) /\ Open(t)
    <3>1. /\ sends' = SentAlso(sends, renewed)
          /\ dropped' = DroppedAlso(dropped, renewed)
      BY <1>7, TimedAlso, Zenon
    <3>2. /\ Kept(t, SentAlso(sends, renewed), DroppedAlso(dropped, renewed), got, n)
          /\ Open(t)
      BY <1>1, <2>2, KeptTimeout, Zenon
    <3> QED
      BY <3>1, <3>2, Zenon
  <2>4. broker' = c /\ slept \in Nat
    BY <1>1, <1>7, Zenon DEF Resume, Shaped
  <2> HIDE DEF t, slept
  <2>5. /\ Shaped(c) /\ c.req_count = t.req_count
        /\ c.master_removed = t.master_removed /\ InUse(c) = InUse(t)
        /\ \A i \in InUse(t) :
             /\ c.req_list[i].seq_num = t.req_list[i].seq_num
             /\ c.req_list[i].retries_remaining = t.req_list[i].retries_remaining
    BY <2>3, <2>4, ElapseFields, Zenon DEF Kept
  <2> HIDE DEF c
  <2>6. Kept(c, sends', dropped', got, n)
    BY <2>3, <2>5, KeptAlike, Zenon
  <2>7. Open(c)
    BY <2>3, <2>5, Zenon DEF Open
  <2>8. down' \in Seq(Wire(got'))
    BY <1>7
  <2> QED
    BY <1>1, <2>4, <2>6, <2>7, <2>8, Zenon DEF IInv
<1> QED
  BY <1>4, <1>5, <1>6, <1>7, Zenon

\* A reply is on its way only for a view that reached the server.
LEMMA ServerRecvStep ==
  ASSUME IInv, ServerRecv
  PROVE  IInv'
<1> DEFINE m == Head(broker.server_socket)
           n == Taken
<1>1. /\ Kept(broker, sends, dropped, got, n) /\ Open(broker) /\ Shaped(broker)
      /\ down \in Seq(Wire(got)) /\ sends' = sends /\ dropped' = dropped
      /\ Piped' /\ Taken' = n
  <2>1. UNCHANGED <<seq_num, pipe, sends, dropped>>
    BY Zenon DEF ServerRecv, client, history
  <2> QED
    BY <2>1, PipeSame, Zenon DEF IInv, Kept
<1> HIDE DEF n
<1>2. /\ down' = IF m.type = "VIEW" THEN Append(down, Reply(m.seq_num)) ELSE down
      /\ got' = IF m.type = "VIEW" THEN got \cup {m.seq_num} ELSE got
      /\ broker' = [broker EXCEPT !.server_socket = Tail(@)]
  BY Zenon DEF ServerRecv
<1>3. got \subseteq got'
  BY <1>2
<1>4. Same(broker', broker)
  BY <1>1, <1>2, Zenon DEF Same, Shaped, Fields
<1>5. Kept(broker', sends, dropped, got', n) /\ Open(broker')
  BY <1>1, <1>3, <1>4, KeptSame, Zenon
<1>6. Wire(got) \subseteq Wire(got')
  BY <1>3, Zenon DEF Wire
<1>7. m.type = "VIEW" => Reply(m.seq_num) \in Wire(got')
  BY <1>2 DEF Wire
<1>8. down \in Seq(Wire(got'))
  BY <1>1, <1>6
<1>9. down' \in Seq(Wire(got'))
  BY <1>2, <1>7, <1>8, AppendProperties, Zenon
<1> QED
  BY <1>1, <1>5, <1>9, Zenon DEF IInv

\* A server that dies loses messages but makes up no reply.
LEMMA ServerCrashStep ==
  ASSUME IInv, ServerCrash
  PROVE  IInv'
<1> DEFINE n == Taken
<1>1. /\ Kept(broker, sends, dropped, got, n) /\ Open(broker) /\ Shaped(broker)
      /\ down \in Seq(Wire(got)) /\ got' = got
      /\ sends' = sends /\ dropped' = dropped /\ Piped' /\ Taken' = n
  <2>1. UNCHANGED <<seq_num, pipe, sends, dropped, got>>
    BY Zenon DEF ServerCrash, client, history
  <2> QED
    BY <2>1, PipeSame, Zenon DEF IInv, Kept
<1> HIDE DEF n
<1>2. PICK m \in 0 .. Len(broker.server_socket) :
        broker' = [broker EXCEPT !.server_socket = SubSeq(@, m + 1, Len(@))]
  BY Zenon DEF ServerCrash
<1>3. Same(broker', broker)
  BY <1>1, <1>2, Zenon DEF Same, Shaped, Fields
<1>4. Kept(broker', sends, dropped, got, n) /\ Open(broker')
  BY <1>1, <1>3, KeptSame, Zenon
<1>5. PICK k \in 0 .. Len(down) : down' = SubSeq(down, 1, k)
  BY Zenon DEF ServerCrash
<1>6. SubSeq(down, 1, k) \in Seq(Wire(got))
  <2>1. Len(down) \in Nat /\ \A j \in 1 .. k : j \in 1 .. Len(down)
    BY <1>1, LenProperties
  <2>2. \A j \in 1 .. k : down[j] \in Wire(got)
    BY <1>1, <2>1, ElementOfSeq, Zenon
  <2> QED
    BY <2>1, <2>2
<1> QED
  BY <1>1, <1>4, <1>5, <1>6, Zenon DEF IInv

\* Time passing changes only the expiry of requests.
LEMMA TickStep ==
  ASSUME IInv, Tick
  PROVE  IInv'
<1> DEFINE n == Taken
           t == Elapse(broker, 1)
           c == [t EXCEPT !.heartbeat_next = IF @ < 0 THEN @ ELSE @ - 1]
<1>1. /\ Kept(broker, sends, dropped, got, n) /\ Open(broker) /\ Shaped(broker)
      /\ down' \in Seq(Wire(got')) /\ got' = got
      /\ sends' = sends /\ dropped' = dropped /\ Piped' /\ Taken' = n
  <2>1. UNCHANGED <<seq_num, pipe, sends, dropped, got, down>>
    BY Zenon DEF Tick, client, history, server
  <2> QED
    BY <2>1, PipeSame, Zenon DEF IInv, Kept
<1> HIDE DEF n
<1>2. broker' = c
  BY Zenon DEF Tick
<1>3. /\ Shaped(t) /\ t.req_count = broker.req_count
      /\ t.master_removed = broker.master_removed /\ InUse(t) = InUse(broker)
      /\ \A i \in InUse(broker) :
           /\ t.req_list[i].seq_num = broker.req_list[i].seq_num
           /\ t.req_list[i].retries_remaining =
                broker.req_list[i].retries_remaining
  BY <1>1, ElapseFields
<1> HIDE DEF t
<1>4. Kept(t, sends, dropped, got, n)
  BY <1>1, <1>3, KeptAlike, Zenon
<1>5. Open(t)
  BY <1>1, <1>3, Zenon DEF Open
<1>6. Same(c, t)
  BY <1>3, Zenon DEF Same, Shaped, Fields
<1> HIDE DEF c
<1>7. Kept(c, sends, dropped, got, n) /\ Open(c)
  BY <1>4, <1>5, <1>6, KeptSame, Zenon
<1> QED
  BY <1>1, <1>2, <1>7, Zenon DEF IInv

\* A view goes to the end of the pipe, with the next number.
LEMMA SendViewStep ==
  ASSUME IInv, ClientSendView
  PROVE  IInv'
<1>1. /\ seq_num \in 0 .. MaxViews /\ pipe \in Seq(Nat) /\ Len(pipe) <= seq_num
      /\ \A k \in 1 .. Len(pipe) : pipe[k] = Taken + k - 1
      /\ Len(pipe) \in Nat /\ Taken = seq_num - Len(pipe)
      /\ seq_num < MaxViews /\ pipe' = Append(pipe, seq_num)
      /\ seq_num' = seq_num + 1 /\ MaxViews \in Nat
  BY LenProperties, BrokerAssumption DEF IInv, Piped, Taken, ClientSendView
<1>2. /\ pipe' \in Seq(Nat) /\ Len(pipe') = Len(pipe) + 1
      /\ \A k \in 1 .. Len(pipe) : pipe'[k] = pipe[k]
      /\ pipe'[Len(pipe) + 1] = seq_num
  BY <1>1, AppendProperties
<1>3. Taken' = Taken
  BY <1>1, <1>2 DEF Taken
<1>4. ASSUME NEW k \in 1 .. Len(pipe')
      PROVE  pipe'[k] = Taken' + k - 1
  <2>1. CASE k \in 1 .. Len(pipe)
    BY <1>1, <1>2, <1>3, <2>1, Zenon
  <2>2. CASE k = Len(pipe) + 1
    <3>1. pipe'[k] = seq_num
      BY <1>2, <2>2
    <3> QED
      BY <1>1, <1>3, <2>2, <3>1
  <2> QED
    BY <1>1, <1>2, <2>1, <2>2
<1>5. seq_num' \in 0 .. MaxViews /\ Len(pipe') <= seq_num'
  BY <1>1, <1>2
<1>6. Piped'
  BY <1>2, <1>4, <1>5, Zenon DEF Piped
<1>7. UNCHANGED <<broker, down, got, sends, dropped>>
  BY Zenon DEF ClientSendView, reactor, server, history
<1> QED
  BY <1>3, <1>6, <1>7, Zenon DEF IInv

\* A heartbeat of the server is no reply.
LEMMA ServerBeatStep ==
  ASSUME IInv, ServerBeat
  PROVE  IInv'
<1>1. UNCHANGED <<seq_num, pipe, broker, got, sends, dropped>>
      /\ down' = Append(down, Beat)
  BY Zenon DEF ServerBeat, client, reactor, history
<1>2. Piped' /\ Taken' = Taken
  BY <1>1, PipeSame, Zenon
<1>3. Beat \in Wire(got) /\ down \in Seq(Wire(got))
  BY Zenon DEF Wire, IInv
<1>4. down' \in Seq(Wire(got))
  BY <1>1, <1>3, AppendProperties, Zenon
<1> QED
  BY <1>1, <1>2, <1>4, Zenon DEF IInv

\* The other steps change nothing the invariant is about.
LEMMA OtherStep ==
  ASSUME IInv, UNCHANGED <<seq_num, pipe, broker, down, got, sends, dropped>>
  PROVE  IInv'
  BY PipeSame, Zenon DEF IInv

\* Every step of the client, the broker and the server preserves IInv.
LEMMA Inductive ==
  IInv /\ [Next]_vars => IInv'
<1> SUFFICES ASSUME IInv, [Next]_vars
             PROVE  IInv'
  OBVIOUS
<1>1. CASE ClientSendView
  BY <1>1, SendViewStep
<1>2. CASE ClientRecvView \/ ClientStop
  BY <1>2, OtherStep, Zenon
     DEF ClientRecvView, ClientStop, reactor, server, history
<1>3. CASE HandleMaster
  BY <1>3, MasterStep
<1>4. CASE HandleServerMsg
  BY <1>4, ServerMsgStep
<1>5. CASE HandleServerSubMsg
  BY <1>5, OtherStep, Zenon DEF HandleServerSubMsg, reactor, history
<1>6. CASE HandleSignal
  BY <1>6, SignalStep
<1>7. CASE HandleTimer
  BY <1>7, TimerStep
<1>8. CASE ServerRecv
  BY <1>8, ServerRecvStep
<1>9. CASE ServerBeat
  BY <1>9, ServerBeatStep
<1>10. CASE ServerPublish \/ ServerStart
  BY <1>10, OtherStep, Zenon
     DEF ServerPublish, ServerStart, client, reactor, history
<1>11. CASE ServerCrash
  BY <1>11, ServerCrashStep
<1>12. CASE Tick
  BY <1>12, TickStep
<1>13. CASE UNCHANGED vars
  BY <1>13, OtherStep, Zenon DEF vars, client, reactor, server, history
<1> QED
  BY <1>1, <1>2, <1>3, <1>4, <1>5, <1>6, <1>7, <1>8, <1>9, <1>10, <1>11,
     <1>12, <1>13, Zenon DEF Next

\* IInv holds when the broker starts.
LEMMA Initially ==
  Init => IInv
<1> SUFFICES ASSUME Init
             PROVE  IInv
  OBVIOUS
<1>1. /\ seq_num = 0 /\ pipe = <<>> /\ down = <<>> /\ got = {} /\ dropped = {}
      /\ sends = [s \in Seqs |-> 0]
  BY Zenon DEF Init
<1>2. /\ DOMAIN broker = Fields /\ broker.req_list = [i \in Indexes |-> Free]
      /\ broker.req_count = 0 /\ broker.master_removed = FALSE
      /\ broker.reconnect_next = ReconnectMin
  BY Zenon DEF Init, Connected, Fields
<1>3. Shaped(broker)
  <2>1. ReconnectMin \in Nat
    BY BrokerAssumption
  <2> QED
    BY <1>2, <2>1, Zenon DEF Shaped
<1>4. InUse(broker) = {}
  <2>1. \A i \in Indexes : broker.req_list[i] = Free
    BY <1>2, Zenon
  <2>2. \A i \in Indexes : i \notin InUse(broker)
    BY <1>3, <2>1, EntryType, Zenon
  <2> QED
    BY <2>2 DEF InUse
<1>5. Counted(broker)
  BY <1>2, <1>4, FS_EmptySet, Zenon DEF Counted
<1>6. Open(broker)
  BY <1>2, BrokerAssumption DEF Open
<1>7. Len(pipe) = 0 /\ Taken = 0 /\ Piped
  <2>1. pipe \in Seq(Nat) /\ Len(pipe) = 0
    BY <1>1
  <2>2. Taken = 0
    <3>1. Taken = 0 - 0
      BY <1>1, <2>1, Zenon DEF Taken
    <3> QED
      BY <3>1
  <2>3. 0 \in 0 .. MaxViews /\ 0 <= 0 /\ \A k \in 1 .. 0 : FALSE
    BY BrokerAssumption
  <2> QED
    BY <1>1, <2>1, <2>2, <2>3, Zenon DEF Piped
<1>8. Tracked(broker, sends, dropped, got, Taken)
  <2>1. \A s \in Seqs : sends[s] = 0 /\ ~(0 > 0) /\ 0 <= SendLimit
                         /\ s \notin dropped
    BY <1>1, LimitType
  <2>2. sends \in [Seqs -> Nat]
    BY <1>1
  <2> QED
    BY <1>4, <2>1, <2>2, Zenon DEF Tracked
<1>9. down \in Seq(Wire(got))
  BY <1>1
<1> QED
  BY <1>3, <1>5, <1>6, <1>7, <1>8, <1>9, Zenon DEF IInv, Kept

\* IInv holds throughout.
LEMMA Invariant == Spec => []IInv
  BY Initially, Inductive, PTL DEF Spec

------------------------------------------------------------------------------
(* The theorems *)

\* For req_list of any size, and however the server behaves: req_count is the
\* number of entries in use, and handle_master_msg, which asserts that there is
\* a free entry, is called only when there is one.
THEOREM MasterFindsRoom == Spec => []RoomForMaster
<1>1. IInv => RoomForMaster
  <2> SUFFICES ASSUME IInv
               PROVE  RoomForMaster
    OBVIOUS
  <2>1. Counted(broker) /\ Open(broker)
    BY Zenon DEF IInv, Kept
  <2> QED
    BY <2>1, InUseSize, Zenon DEF Counted, Open, RoomForMaster
<1> QED
  BY <1>1, Invariant, PTL

\* Whatever request_retries is set to, a view is sent at most SendLimit times
\* over all retries and reconnects, and abandoned only after that many sends.
THEOREM SendsAreBounded == Spec => []BoundedSends
<1>1. IInv => BoundedSends
  BY Zenon DEF IInv, Kept, Tracked, BoundedSends
<1> QED
  BY <1>1, Invariant, PTL

\* A view the broker took from the pipe is in req_list until it has reached the
\* server or has been sent as often as request_retries allows.
THEOREM ViewsAreAccountedFor == Spec => []NoneForgotten
<1>1. IInv => NoneForgotten
  BY Zenon DEF IInv, Kept, Tracked, NoneForgotten
<1> QED
  BY <1>1, Invariant, PTL
==============================================================================
