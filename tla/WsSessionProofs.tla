--------------------------- MODULE WsSessionProofs ---------------------------
(***************************************************************************)
(* Proofs about WsSession, for any topics and any number of calls, runs,   *)
(* failures and queued messages.                                           *)
(*                                                                         *)
(* What the code relies on is how many operations of the current           *)
(* connection there are: started, or completed with the handler still on   *)
(* the strand.  An operation is a token; the tokens of a connection fall   *)
(* into five classes, and a class never has more than one.                 *)
(***************************************************************************)
EXTENDS WsSession, FiniteSetTheorems, SequenceTheorems, TLAPS

Chain == {"resolve", "connect", "tls", "handshake"}
Reads == {"read"}
Writes == {"write"}
Pings == {"ping"}
Waits == {"reconnect"}
Classes == {Chain, Reads, Writes, Pings, Waits}

\* The tokens of the current connection: operations, and places on the strand.
Ops(x, K) == {op \in x.ops : op.kind \in K /\ op.gen = x.generation}
Places(x, K) ==
  {i \in DOMAIN x.strand :
     x.strand[i].kind \in K /\ x.strand[i].gen = x.generation}

Has(x, K) == Ops(x, K) # {} \/ Places(x, K) # {}
Lone(x, K) ==
  /\ \A o, p \in Ops(x, K) : o = p
  /\ \A i, j \in Places(x, K) : i = j
  /\ Ops(x, K) = {} \/ Places(x, K) = {}

Unsubs == {Unsub(t) : t \in Topics}
Subs == {Sub(t) : t \in Topics}

\* A handler of an operation is of a connection that was begun; a sendUnsub task
\* carries its message.
Sound(h, generation) ==
  /\ h.kind \in Kinds => h.gen <= generation
  /\ h.kind = "sendUnsub" => h.what \in Unsubs

WellFormed(x) ==
  /\ x \in Session /\ IsFiniteSet(x.ops)
  /\ \A op \in x.ops : op.gen <= x.generation
  /\ \A i \in DOMAIN x.strand : Sound(x.strand[i], x.generation)
  /\ \A K \in Classes : Lone(x, K)

\* A ping wait that was cancelled, its handler still to come; a task that begins
\* a connection; a subscription on its way to the venue or in the queue.
LostPing(x) == \E i \in Places(x, Pings) : ~x.strand[i].ok
Starts(x) == {i \in DOMAIN x.strand : x.strand[i].kind = "startConnect"}
OneStart(x) == \A i, j \in Starts(x) : i = j
SubWritten(x) == \E op \in Ops(x, Writes) : op.what \in Subs
SubQueued(x) == \E i \in DOMAIN x.outboundQueue : x.outboundQueue[i] \in Subs

\* A read or write of the connection has failed, its handler still to come.
Broken(x) == \E i \in Places(x, Reads \cup Writes) : ~x.strand[i].ok

\* Nothing but operations and strand tells x from y.
SameMembers(x, y) ==
  /\ y.generation = x.generation /\ y.connected = x.connected
  /\ y.authenticated = x.authenticated /\ y.userClosed = x.userClosed
  /\ y.reconnectScheduled = x.reconnectScheduled
  /\ y.writeInFlight = x.writeInFlight /\ y.sockClosed = x.sockClosed
  /\ y.reconnectDelayS = x.reconnectDelayS /\ y.ackGen = x.ackGen
  /\ y.subscriptions = x.subscriptions /\ y.pendingTopics = x.pendingTopics
  /\ y.outboundQueue = x.outboundQueue

-----------------------------------------------------------------------------
(* Sets as sequences, and tokens on a longer strand.                       *)

LEMMA SetToSeqOK ==
  ASSUME NEW S, IsFiniteSet(S)
  PROVE  /\ SetToSeq(S) \in Seq(S)
         /\ \A e \in S : \E i \in 1..Len(SetToSeq(S)) : SetToSeq(S)[i] = e
         /\ \A i, j \in 1..Len(SetToSeq(S)) :
              SetToSeq(S)[i] = SetToSeq(S)[j] => i = j
<1> DEFINE n == Cardinality(S)
           F == {f \in [1..n -> S] : IsInjective(f)}
           q == SetToSeq(S)
<1>1. n \in Nat /\ ExistsBijection(1..n, S)
  BY FS_CardinalityType
<1>2. PICK f : f \in [1..n -> S] /\ IsInjective(f)
  BY <1>1 DEF ExistsBijection, Bijection, Injection
<1>3. q \in [1..n -> S] /\ IsInjective(q)
  BY <1>2 DEF SetToSeq
<1>4. q \in Seq(S) /\ Len(q) = n
  <2>1. q \in Seq(S)
    BY <1>1, <1>3, SeqDef
  <2>2. DOMAIN q = 1..Len(q) /\ Len(q) \in Nat
    BY <2>1, LenProperties
  <2>3. QED
    BY <1>1, <1>3, <2>1, <2>2
<1>5. q \in Surjection(1..n, S)
  <2>1. IsFiniteSet(1..n) /\ Cardinality(1..n) = n
    BY <1>1, FS_Interval
  <2>2. q \in Injection(1..n, S)
    BY <1>3 DEF Injection
  <2>3. QED
    BY <2>1, <2>2, FS_Injection
<1>6. \A e \in S : \E i \in 1..n : q[i] = e
  BY <1>5 DEF Surjection
<1>7. QED
  BY <1>3, <1>4, <1>6 DEF IsInjective

Longer(x, y, q) ==
  /\ \A i \in DOMAIN x.strand :
       i \in DOMAIN y.strand /\ y.strand[i] = x.strand[i]
  /\ \A i \in DOMAIN y.strand :
       \/ i \in DOMAIN x.strand
       \/ /\ i - Len(x.strand) \in 1..Len(q)
          /\ y.strand[i] = q[i - Len(x.strand)]
  /\ \A i \in 1..Len(q) :
       /\ Len(x.strand) + i \in DOMAIN y.strand
       /\ Len(x.strand) + i \notin DOMAIN x.strand
       /\ y.strand[Len(x.strand) + i] = q[i]

LEMMA AppendedPlaces ==
  ASSUME NEW x, NEW y, x \in Session, y \in Session,
         NEW q \in Seq(Handler), y.strand = x.strand \o q
  PROVE  Longer(x, y, q)
<1>1. x.strand \in Seq(Handler) /\ y.strand \in Seq(Handler)
  BY DEF Session
<1>2. /\ Len(y.strand) = Len(x.strand) + Len(q)
      /\ \A i \in 1..Len(x.strand) + Len(q) :
           y.strand[i] = IF i <= Len(x.strand) THEN x.strand[i]
                                               ELSE q[i - Len(x.strand)]
  BY <1>1, ConcatProperties
<1>3. /\ DOMAIN x.strand = 1..Len(x.strand) /\ Len(x.strand) \in Nat
      /\ DOMAIN y.strand = 1..Len(y.strand) /\ Len(y.strand) \in Nat
      /\ Len(q) \in Nat
  BY <1>1, LenProperties
<1>4. QED
  BY <1>2, <1>3 DEF Longer

-----------------------------------------------------------------------------
(* What happens to tokens: the strand's first handler is taken, ...         *)

LEMMA OpenMeans ==
  ASSUME NEW x
  PROVE  IsOpen(x) <=> ~x.sockClosed /\ ~x.userClosed /\ ~Broken(x)
BY DEF IsOpen, Broken, Places, Reads, Writes

\* y is x without the first handler of its strand, h.
Taken(x, y, h) ==
  /\ WellFormed(y) /\ SameMembers(x, y) /\ y.ops = x.ops
  /\ h \in Handler /\ Sound(h, x.generation)
  /\ \A K \in Classes :
       /\ h.kind \in K /\ h.gen = x.generation => Has(x, K) /\ ~Has(y, K)
       /\ ~(h.kind \in K /\ h.gen = x.generation) =>
            (Has(y, K) <=> Has(x, K))
  /\ LostPing(y) => LostPing(x)
  /\ h.kind = "ping" /\ h.gen = x.generation /\ ~h.ok => LostPing(x)
  /\ Broken(y) => Broken(x)
  /\ Broken(x) => \/ Broken(y)
                  \/ /\ h.kind \in {"read", "write"} /\ ~h.ok
                     /\ h.gen = x.generation
  /\ Starts(y) # {} => Starts(x) # {}
  /\ h.kind = "startConnect" => Starts(x) # {}
  /\ OneStart(x) => OneStart(y)
  /\ OneStart(x) /\ h.kind = "startConnect" => Starts(y) = {}
  /\ SubWritten(y) <=> SubWritten(x)

LEMMA TakeOK ==
  ASSUME NEW x, WellFormed(x), x.strand # <<>>,
         NEW y, y = [x EXCEPT !.strand = Tail(@)],
         NEW h, h = Head(x.strand)
  PROVE  Taken(x, y, h)
<1>1. x \in Session /\ x.strand \in Seq(Handler)
  BY DEF WellFormed, Session
<1>2. /\ h \in Handler /\ Tail(x.strand) \in Seq(Handler)
      /\ Len(Tail(x.strand)) = Len(x.strand) - 1
      /\ \A i \in 1..Len(Tail(x.strand)) : Tail(x.strand)[i] = x.strand[i + 1]
  BY <1>1, HeadTailProperties
<1>3. /\ y \in Session /\ SameMembers(x, y) /\ y.ops = x.ops
      /\ y.strand = Tail(x.strand)
  BY <1>1, <1>2 DEF Session, SameMembers
<1>4. /\ DOMAIN x.strand = 1..Len(x.strand) /\ Len(x.strand) \in Nat
      /\ DOMAIN y.strand = 1..Len(y.strand) /\ Len(y.strand) \in Nat
  BY <1>1, <1>2, <1>3, LenProperties
<1>5. Len(x.strand) >= 1 /\ h = x.strand[1]
  BY <1>1, <1>4, EmptySeq
<1>6. /\ \A i \in DOMAIN y.strand : /\ i + 1 \in DOMAIN x.strand
                                     /\ y.strand[i] = x.strand[i + 1]
      /\ \A i \in DOMAIN x.strand :
           \/ i = 1
           \/ i - 1 \in DOMAIN y.strand /\ y.strand[i - 1] = x.strand[i]
  <2>1. \A i \in 1..Len(y.strand) : y.strand[i] = x.strand[i + 1]
    BY <1>2, <1>3
  <2>2. Len(y.strand) = Len(x.strand) - 1
    BY <1>2, <1>3
  <2>3. ASSUME NEW i \in DOMAIN y.strand
        PROVE  i + 1 \in DOMAIN x.strand /\ y.strand[i] = x.strand[i + 1]
    BY <1>4, <2>1, <2>2
  <2>4. ASSUME NEW i \in DOMAIN x.strand, i # 1
        PROVE  i - 1 \in DOMAIN y.strand /\ y.strand[i - 1] = x.strand[i]
    <3>1. i \in Int /\ i - 1 \in 1..Len(y.strand)
      BY <1>4, <2>2, <2>4
    <3>2. y.strand[i - 1] = x.strand[(i - 1) + 1]
      BY <2>1, <3>1
    <3>3. QED
      BY <1>4, <3>1, <3>2
  <2>5. QED
    BY <2>3, <2>4
<1>7. 1 \in DOMAIN x.strand /\ y.generation = x.generation
  BY <1>3, <1>4, <1>5 DEF SameMembers
<1>8. /\ \A i \in DOMAIN y.strand : i \in Nat /\ i # 0
      /\ \A i \in DOMAIN x.strand : i \in Nat
  BY <1>4
<1>9. ASSUME NEW K
      PROVE  /\ Ops(y, K) = Ops(x, K)
             /\ \A i \in Places(y, K) : i + 1 \in Places(x, K)
             /\ \A i \in Places(x, K) : i = 1 \/ i - 1 \in Places(y, K)
             /\ 1 \in Places(x, K) <=> h.kind \in K /\ h.gen = x.generation
             /\ \A i \in Places(y, K) : i \in Nat /\ i # 0
  BY <1>3, <1>5, <1>6, <1>7, <1>8 DEF Ops, Places
<1>10. ASSUME NEW K \in Classes
       PROVE  /\ Lone(y, K)
              /\ h.kind \in K /\ h.gen = x.generation => Has(x, K) /\ ~Has(y, K)
              /\ ~(h.kind \in K /\ h.gen = x.generation) =>
                   (Has(y, K) <=> Has(x, K))
  <2>1. Lone(x, K)
    BY DEF WellFormed
  <2>2. Lone(y, K)
    <3>1. ASSUME NEW i \in Places(y, K), NEW j \in Places(y, K) PROVE i = j
      <4>1. /\ i + 1 \in Places(x, K) /\ j + 1 \in Places(x, K)
            /\ i \in Nat /\ j \in Nat
        BY <1>9
      <4>2. i + 1 = j + 1
        BY <2>1, <4>1 DEF Lone
      <4>3. QED
        BY <4>1, <4>2
    <3>2. Ops(y, K) = {} \/ Places(y, K) = {}
      BY <1>9, <2>1 DEF Lone
    <3>3. QED
      BY <1>9, <2>1, <3>1, <3>2 DEF Lone
  <2>3. ASSUME h.kind \in K, h.gen = x.generation
        PROVE  Has(x, K) /\ ~Has(y, K)
    <3>1. 1 \in Places(x, K)
      BY <1>9, <2>3
    <3>2. Ops(y, K) = {}
      BY <1>9, <2>1, <3>1 DEF Lone
    <3>3. ASSUME NEW i \in Places(y, K) PROVE FALSE
      <4>1. i + 1 \in Places(x, K) /\ i \in Nat /\ i # 0
        BY <1>9
      <4>2. i + 1 = 1
        BY <2>1, <3>1, <4>1 DEF Lone
      <4>3. QED
        BY <4>1, <4>2
    <3>4. QED
      BY <3>1, <3>2, <3>3 DEF Has
  <2>4. ASSUME ~(h.kind \in K /\ h.gen = x.generation)
        PROVE  Has(y, K) <=> Has(x, K)
    BY <1>9, <2>4 DEF Has
  <2>5. QED
    BY <2>2, <2>3, <2>4
<1>11. /\ \A i \in DOMAIN y.strand : Sound(y.strand[i], y.generation)
       /\ Sound(h, x.generation)
  BY <1>5, <1>6, <1>7 DEF WellFormed
<1>12. WellFormed(y)
  BY <1>3, <1>7, <1>10, <1>11 DEF WellFormed
<1>13. /\ LostPing(y) => LostPing(x)
       /\ h.kind = "ping" /\ h.gen = x.generation /\ ~h.ok => LostPing(x)
  <2>1. \A i \in Places(y, Pings) : y.strand[i] = x.strand[i + 1]
    BY <1>6 DEF Places
  <2>2. QED
    BY <1>5, <1>9, <2>1 DEF LostPing, Pings
<1>14. /\ Broken(y) => Broken(x)
       /\ Broken(x) => \/ Broken(y)
                       \/ /\ h.kind \in {"read", "write"} /\ ~h.ok
                          /\ h.gen = x.generation
  <2> DEFINE K == Reads \cup Writes
  <2>1. \A i \in Places(y, K) : y.strand[i] = x.strand[i + 1]
    BY <1>6 DEF Places
  <2>2. \A i \in Places(x, K) : i = 1 \/ y.strand[i - 1] = x.strand[i]
    BY <1>6 DEF Places
  <2>3. 1 \in Places(x, K) <=>
          h.kind \in {"read", "write"} /\ h.gen = x.generation
    BY <1>9 DEF Reads, Writes
  <2> HIDE DEF K
  <2>4. Broken(x) <=> \E i \in Places(x, K) : ~x.strand[i].ok
    BY DEF Broken, K
  <2>5. Broken(y) <=> \E i \in Places(y, K) : ~y.strand[i].ok
    BY DEF Broken, K
  <2>6. Broken(y) => Broken(x)
    <3>1. \A i \in Places(y, K) : i + 1 \in Places(x, K)
      BY <1>9
    <3>2. QED
      BY <2>1, <2>4, <2>5, <3>1
  <2>7. ASSUME NEW i \in Places(x, K), ~x.strand[i].ok
        PROVE  \/ Broken(y)
               \/ /\ h.kind \in {"read", "write"} /\ ~h.ok
                  /\ h.gen = x.generation
    <3>1. CASE i = 1
      BY <1>5, <2>3, <2>7, <3>1
    <3>2. CASE i # 1
      <4>1. i - 1 \in Places(y, K)
        BY <1>9, <3>2
      <4>2. QED
        BY <2>2, <2>5, <2>7, <3>2, <4>1
    <3>3. QED
      BY <3>1, <3>2
  <2>8. QED
    BY <2>4, <2>6, <2>7
<1>15. /\ \A i \in Starts(y) : i + 1 \in Starts(x) /\ i \in Nat /\ i # 0
       /\ h.kind = "startConnect" => 1 \in Starts(x)
  BY <1>5, <1>6, <1>7, <1>8 DEF Starts
<1>16. OneStart(x) => OneStart(y)
  <2>1. ASSUME OneStart(x), NEW i \in Starts(y), NEW j \in Starts(y) PROVE i = j
    <3>1. /\ i + 1 \in Starts(x) /\ j + 1 \in Starts(x)
          /\ i \in Nat /\ j \in Nat
      BY <1>15
    <3>2. i + 1 = j + 1
      BY <2>1, <3>1 DEF OneStart
    <3>3. QED
      BY <3>1, <3>2
  <2>2. QED
    BY <2>1 DEF OneStart
<1>17. OneStart(x) /\ h.kind = "startConnect" => Starts(y) = {}
  <2>1. ASSUME OneStart(x), h.kind = "startConnect", NEW i \in Starts(y)
        PROVE  FALSE
    <3>1. i + 1 \in Starts(x) /\ 1 \in Starts(x) /\ i \in Nat /\ i # 0
      BY <1>15, <2>1
    <3>2. i + 1 = 1
      BY <2>1, <3>1 DEF OneStart
    <3>3. QED
      BY <3>1, <3>2
  <2>2. QED
    BY <2>1
<1>18. SubWritten(y) <=> SubWritten(x)
  BY <1>9 DEF SubWritten
<1>19. QED
  BY <1>2, <1>3, <1>10, <1>11, <1>12, <1>13, <1>14, <1>15, <1>16, <1>17, <1>18
     DEF Taken

\* The handlers in q are those of the operations in M, each once.
Carries(q, M) ==
  /\ \A i \in 1..Len(q) : \E op \in M : q[i].kind = op.kind /\ q[i].gen = op.gen
  /\ \A op \in M : \E i \in 1..Len(q) : q[i].kind = op.kind /\ q[i].gen = op.gen
  /\ \A i, j \in 1..Len(q) :
       q[i].kind = q[j].kind /\ q[i].gen = q[j].gen => i = j

\* What that does to x, q being the handlers that are new on the strand.
Moved(x, y, q) ==
  /\ WellFormed(y) /\ SameMembers(x, y)
  /\ \A K \in Classes : Has(y, K) <=> Has(x, K)
  /\ LostPing(y) =>
       \/ LostPing(x)
       \/ \E i \in 1..Len(q) :
            q[i].kind = "ping" /\ q[i].gen = x.generation /\ ~q[i].ok
  /\ Broken(x) => Broken(y)
  /\ Broken(y) =>
       \/ Broken(x)
       \/ \E i \in 1..Len(q) : q[i].kind \in {"read", "write"} /\ ~q[i].ok
  /\ Starts(y) = Starts(x)
  /\ SubWritten(y) => SubWritten(x)

\* ... operations move to the strand: they are cancelled, or one completes.
LEMMA MovedOK ==
  ASSUME NEW x, WellFormed(x), NEW M, M \subseteq x.ops,
         NEW q \in Seq(Handler), Carries(q, M),
         NEW y, y = [x EXCEPT !.ops = @ \ M, !.strand = @ \o q]
  PROVE  Moved(x, y, q)
<1> DEFINE n == Len(x.strand)
<1> USE DEF Carries
<1>1. x \in Session /\ x.strand \in Seq(Handler)
  BY DEF WellFormed, Session
<1>2. x.strand \o q \in Seq(Handler)
  BY <1>1, ConcatProperties
<1>3. /\ y \in Session /\ SameMembers(x, y) /\ y.ops = x.ops \ M
      /\ y.strand = x.strand \o q
  BY <1>1, <1>2 DEF Session, SameMembers
<1>4. y.generation = x.generation
  BY <1>3 DEF SameMembers
<1>5. /\ \A i \in DOMAIN x.strand :
           i \in DOMAIN y.strand /\ y.strand[i] = x.strand[i]
      /\ \A i \in DOMAIN y.strand :
           \/ i \in DOMAIN x.strand
           \/ i - n \in 1..Len(q) /\ y.strand[i] = q[i - n]
      /\ \A i \in 1..Len(q) :
           /\ n + i \in DOMAIN y.strand /\ n + i \notin DOMAIN x.strand
           /\ y.strand[n + i] = q[i]
  <2>1. Longer(x, y, q)
    BY <1>1, <1>3, AppendedPlaces
  <2>2. QED
    BY <2>1 DEF Longer
<1>6. n \in Nat /\ \A i \in DOMAIN y.strand : i \in Int
  BY <1>1, <1>2, <1>3, LenProperties
<1>7. \A op \in M : op.kind \in Kinds /\ op.gen \in Nat /\ op.gen <= x.generation
  BY <1>1 DEF WellFormed, Session
<1>8. \A i \in 1..Len(q) :
        q[i].kind \in Kinds /\ q[i].gen <= x.generation
  BY <1>7
<1>9. \A i \in DOMAIN y.strand : Sound(y.strand[i], y.generation)
  <2>1. ASSUME NEW i \in 1..Len(q) PROVE Sound(q[i], x.generation)
    BY <1>8 DEF Sound, Kinds, Timers
  <2>2. QED
    BY <1>4, <1>5, <2>1 DEF WellFormed
<1>10. ASSUME NEW K
       PROVE  /\ Ops(y, K) = Ops(x, K) \ M
              /\ Places(x, K) \subseteq Places(y, K)
              /\ \A i \in Places(y, K) :
                   \/ i \in Places(x, K)
                   \/ /\ i - n \in 1..Len(q) /\ y.strand[i] = q[i - n]
                      /\ q[i - n].kind \in K /\ q[i - n].gen = x.generation
              /\ \A i \in 1..Len(q) :
                   q[i].kind \in K /\ q[i].gen = x.generation =>
                     n + i \in Places(y, K)
  BY <1>3, <1>4, <1>5 DEF Ops, Places
<1>11. ASSUME NEW K \in Classes
       PROVE  Lone(y, K) /\ (Has(y, K) <=> Has(x, K))
  <2>1. Lone(x, K)
    BY DEF WellFormed
  <2>2. \A i \in 1..Len(q) : q[i].kind \in K /\ q[i].gen = x.generation =>
          \E op \in Ops(x, K) \cap M : q[i].kind = op.kind /\ q[i].gen = op.gen
    BY DEF Ops
  <2>3. \A op \in Ops(x, K) \cap M : \E i \in 1..Len(q) :
          /\ q[i].kind = op.kind /\ q[i].gen = op.gen /\ q[i].kind \in K
          /\ q[i].gen = x.generation
    BY DEF Ops
  <2>4. Has(y, K) <=> Has(x, K)
    BY <1>10, <2>2, <2>3 DEF Has
  <2>5. Ops(y, K) = {} \/ Places(y, K) = {}
    BY <1>10, <2>1, <2>2 DEF Lone
  <2>6. ASSUME NEW i \in Places(y, K), NEW j \in Places(y, K) PROVE i = j
    <3>1. CASE i \in Places(x, K) /\ j \in Places(x, K)
      BY <2>1, <3>1 DEF Lone
    <3>2. CASE i \notin Places(x, K) /\ j \notin Places(x, K)
      <4>1. /\ i - n \in 1..Len(q) /\ j - n \in 1..Len(q)
            /\ q[i - n].kind \in K /\ q[i - n].gen = x.generation
            /\ q[j - n].kind \in K /\ q[j - n].gen = x.generation
        BY <1>10, <3>2
      <4>2. PICK o \in Ops(x, K) \cap M :
              q[i - n].kind = o.kind /\ q[i - n].gen = o.gen
        BY <2>2, <4>1
      <4>3. PICK p \in Ops(x, K) \cap M :
              q[j - n].kind = p.kind /\ q[j - n].gen = p.gen
        BY <2>2, <4>1
      <4>4. o = p
        BY <2>1 DEF Lone
      <4>5. i - n = j - n
        BY <4>1, <4>2, <4>3, <4>4
      <4>6. i \in Int /\ j \in Int
        BY <1>6 DEF Places
      <4>7. QED
        BY <1>6, <4>5, <4>6
    <3>3. CASE (i \in Places(x, K)) # (j \in Places(x, K))
      <4>1. Places(x, K) # {}
        BY <3>3
      <4>2. \E k \in {i, j} :
              /\ k - n \in 1..Len(q) /\ q[k - n].kind \in K
              /\ q[k - n].gen = x.generation
        BY <1>10, <3>3
      <4>3. Ops(x, K) # {}
        BY <2>2, <4>2
      <4>4. QED
        BY <2>1, <4>1, <4>3 DEF Lone
    <3>4. QED
      BY <3>1, <3>2, <3>3
  <2>7. QED
    BY <1>10, <2>1, <2>4, <2>5, <2>6 DEF Lone
<1>12. WellFormed(y)
  <2>1. IsFiniteSet(y.ops) /\ \A op \in y.ops : op.gen <= y.generation
    BY <1>3, <1>4, FS_Subset DEF WellFormed
  <2>2. QED
    BY <1>3, <1>9, <1>11, <2>1 DEF WellFormed
<1>13. ASSUME LostPing(y)
       PROVE  \/ LostPing(x)
              \/ \E i \in 1..Len(q) :
                   q[i].kind = "ping" /\ q[i].gen = x.generation /\ ~q[i].ok
  <2>1. \A i \in Places(x, Pings) : y.strand[i] = x.strand[i]
    BY <1>5 DEF Places
  <2>2. PICK i \in Places(y, Pings) : ~y.strand[i].ok
    BY <1>13 DEF LostPing
  <2>3. CASE i \in Places(x, Pings)
    BY <2>1, <2>2, <2>3 DEF LostPing
  <2>4. CASE i \notin Places(x, Pings)
    <3>1. /\ i - n \in 1..Len(q) /\ y.strand[i] = q[i - n]
          /\ q[i - n].kind \in Pings /\ q[i - n].gen = x.generation
      BY <1>10, <2>4
    <3>2. QED
      BY <2>2, <3>1 DEF Pings
  <2>5. QED
    BY <2>3, <2>4
<1>14. /\ Broken(x) => Broken(y)
       /\ Broken(y) =>
            \/ Broken(x)
            \/ \E i \in 1..Len(q) : q[i].kind \in {"read", "write"} /\ ~q[i].ok
  <2>1. \A i \in Places(x, Reads \cup Writes) : y.strand[i] = x.strand[i]
    BY <1>5 DEF Places
  <2>2. Broken(x) => Broken(y)
    BY <1>10, <2>1 DEF Broken
  <2>3. ASSUME Broken(y)
        PROVE  \/ Broken(x)
               \/ \E i \in 1..Len(q) : q[i].kind \in {"read", "write"} /\ ~q[i].ok
    <3>1. PICK i \in Places(y, Reads \cup Writes) : ~y.strand[i].ok
      BY <2>3 DEF Broken
    <3>2. CASE i \in Places(x, Reads \cup Writes)
      BY <2>1, <3>1, <3>2 DEF Broken
    <3>3. CASE i \notin Places(x, Reads \cup Writes)
      <4>1. /\ i - n \in 1..Len(q) /\ y.strand[i] = q[i - n]
            /\ q[i - n].kind \in Reads \cup Writes
        BY <1>10, <3>3
      <4>2. QED
        BY <3>1, <4>1 DEF Reads, Writes
    <3>4. QED
      BY <3>2, <3>3
  <2>4. QED
    BY <2>2, <2>3
<1>15. Starts(y) = Starts(x)
  <2>1. \A i \in 1..Len(q) : q[i].kind # "startConnect"
    BY <1>8 DEF Kinds, Timers
  <2>2. QED
    BY <1>5, <2>1 DEF Starts
<1>16. SubWritten(y) => SubWritten(x)
  BY <1>10 DEF SubWritten
<1>17. QED
  BY <1>3, <1>11, <1>12, <1>13, <1>14, <1>15, <1>16 DEF Moved

LEMMA CancelOK ==
  ASSUME NEW x, WellFormed(x), NEW kind \in {"ping", "reconnect", "resolve"}
  PROVE  /\ WellFormed(Cancel(x, kind)) /\ SameMembers(x, Cancel(x, kind))
         /\ \A K \in Classes : Has(Cancel(x, kind), K) <=> Has(x, K)
         /\ kind # "ping" => (LostPing(Cancel(x, kind)) => LostPing(x))
         /\ Ops(x, {kind}) = {} => (LostPing(Cancel(x, kind)) => LostPing(x))
         /\ Broken(Cancel(x, kind)) <=> Broken(x)
         /\ Starts(Cancel(x, kind)) = Starts(x)
         /\ SubWritten(Cancel(x, kind)) => SubWritten(x)
         /\ \A op \in Cancel(x, kind).ops : op.kind # kind
<1> DEFINE W == {op \in x.ops : op.kind = kind}
           R == {Ready(op, FALSE, Nothing) : op \in W}
           q == SetToSeq(R)
           y == Cancel(x, kind)
<1>1. x \in Session /\ IsFiniteSet(x.ops)
  BY DEF WellFormed
<1>2. \A op \in W : /\ op.kind \in Kinds /\ op.gen \in Nat
                    /\ Ready(op, FALSE, Nothing) \in Handler
                    /\ Ready(op, FALSE, Nothing).kind = op.kind
                    /\ Ready(op, FALSE, Nothing).gen = op.gen
                    /\ ~Ready(op, FALSE, Nothing).ok
  BY <1>1 DEF Session, Handler, Payloads, Ready
<1>3. IsFiniteSet(R)
  <2>1. IsFiniteSet(W)
    BY <1>1, FS_Subset
  <2>2. [op \in W |-> Ready(op, FALSE, Nothing)] \in Surjection(W, R)
    BY DEF Surjection
  <2>3. QED
    BY <2>1, <2>2, FS_Surjection
<1>4. /\ q \in Seq(R)
      /\ \A e \in R : \E i \in 1..Len(q) : q[i] = e
      /\ \A i, j \in 1..Len(q) : q[i] = q[j] => i = j
  BY <1>3, SetToSeqOK
<1>5. q \in Seq(Handler)
  <2>1. R \subseteq Handler
    BY <1>2
  <2>2. QED
    BY <1>4, <2>1, SeqMonotonic
<1>6. \A i \in 1..Len(q) : \E op \in W : q[i] = Ready(op, FALSE, Nothing)
  <2>1. \A i \in 1..Len(q) : q[i] \in R
    BY <1>4, ElementOfSeq
  <2>2. QED
    BY <2>1
<1>7. \A op \in W : \E i \in 1..Len(q) : q[i] = Ready(op, FALSE, Nothing)
  <2>1. \A op \in W : Ready(op, FALSE, Nothing) \in R
    OBVIOUS
  <2>2. QED
    BY <1>4, <2>1
<1>9. y = [x EXCEPT !.ops = @ \ W, !.strand = @ \o q]
  BY DEF Cancel
<1>10. W \subseteq x.ops
  OBVIOUS
<1>w. \A op \in W : op.kind = kind /\ op \in x.ops
  OBVIOUS
<1> HIDE DEF W, R, q, y
<1>8. Carries(q, W)
  <2>1. \A i, j \in 1..Len(q) :
          q[i].kind = q[j].kind /\ q[i].gen = q[j].gen => i = j
    <3>1. ASSUME NEW i \in 1..Len(q), NEW j \in 1..Len(q),
                 q[i].kind = q[j].kind, q[i].gen = q[j].gen
          PROVE  i = j
      <4>1. PICK o \in W : q[i] = Ready(o, FALSE, Nothing)
        BY <1>6
      <4>2. PICK p \in W : q[j] = Ready(p, FALSE, Nothing)
        BY <1>6
      <4>3. o.kind = p.kind /\ o.gen = p.gen
        BY <1>2, <3>1, <4>1, <4>2
      <4>4. q[i] = q[j]
        BY <4>1, <4>2, <4>3 DEF Ready
      <4>5. QED
        BY <1>4, <4>4
    <3>2. QED
      BY <3>1
  <2>2. ASSUME NEW i \in 1..Len(q)
        PROVE  \E op \in W : q[i].kind = op.kind /\ q[i].gen = op.gen
    <3>1. PICK op \in W : q[i] = Ready(op, FALSE, Nothing)
      BY <1>6
    <3>2. QED
      BY <1>2, <3>1
  <2>3. \A op \in W : \E i \in 1..Len(q) : q[i].kind = op.kind /\ q[i].gen = op.gen
    BY <1>2, <1>7
  <2>4. QED
    BY <2>1, <2>2, <2>3 DEF Carries
<1>12. Moved(x, y, q)
  BY <1>5, <1>8, <1>9, <1>10, MovedOK
<1>11. /\ WellFormed(y) /\ SameMembers(x, y)
       /\ \A K \in Classes : Has(y, K) <=> Has(x, K)
       /\ LostPing(y) =>
            \/ LostPing(x)
            \/ \E i \in 1..Len(q) :
                 q[i].kind = "ping" /\ q[i].gen = x.generation /\ ~q[i].ok
       /\ Broken(x) => Broken(y)
       /\ Broken(y) =>
            \/ Broken(x)
            \/ \E i \in 1..Len(q) : q[i].kind \in {"read", "write"} /\ ~q[i].ok
       /\ Starts(y) = Starts(x)
       /\ SubWritten(y) => SubWritten(x)
  BY <1>12 DEF Moved
<1>13. \A i \in 1..Len(q) : q[i].kind = kind
  BY <1>2, <1>6, <1>w
<1>14. Broken(y) <=> Broken(x)
  BY <1>11, <1>13
<1>15. kind # "ping" => (LostPing(y) => LostPing(x))
  BY <1>11, <1>13
<1>16. Ops(x, {kind}) = {} => (LostPing(y) => LostPing(x))
  <2>1. \A i \in 1..Len(q) : \E op \in W : q[i].gen = op.gen
    BY <1>8 DEF Carries
  <2>2. QED
    BY <1>11, <1>w, <2>1 DEF Ops
<1>17. \A op \in y.ops : op.kind # kind
  BY <1>1, <1>9 DEF W, Session
<1>18. QED
  BY <1>11, <1>14, <1>15, <1>16, <1>17 DEF y

\* An operation completes.
LEMMA CompletesOK ==
  ASSUME NEW x, WellFormed(x), NEW op \in x.ops, NEW ok \in BOOLEAN,
         NEW what \in Payloads,
         NEW y, y = [x EXCEPT !.ops = @ \ {op},
                              !.strand = Append(@, Ready(op, ok, what))]
  PROVE  Moved(x, y, <<Ready(op, ok, what)>>)
<1> DEFINE h == Ready(op, ok, what)
<1>1. x \in Session /\ x.strand \in Seq(Handler)
  BY DEF WellFormed, Session
<1>2. h \in Handler /\ h.kind = op.kind /\ h.gen = op.gen
  BY <1>1 DEF Session, Handler, Ready
<1> HIDE DEF h
<1>3. Append(x.strand, h) = x.strand \o <<h>>
  BY <1>1, <1>2, AppendIsConcat
<1>4. <<h>> \in Seq(Handler) /\ Len(<<h>>) = 1 /\ <<h>>[1] = h
  BY <1>2
<1>5. Carries(<<h>>, {op})
  BY <1>2, <1>4 DEF Carries
<1>6. y = [x EXCEPT !.ops = @ \ {op}, !.strand = @ \o <<h>>]
  BY <1>3 DEF h
<1>7. Moved(x, y, <<h>>)
  BY <1>4, <1>5, <1>6, MovedOK
<1>8. QED
  BY <1>7 DEF h

\* The tasks of q join the strand.
Posted(x, y, q) ==
  /\ WellFormed(y) /\ SameMembers(x, y) /\ y.ops = x.ops
  /\ \A K \in Classes : Has(y, K) <=> Has(x, K)
  /\ LostPing(y) <=> LostPing(x)
  /\ Broken(y) <=> Broken(x)
  /\ SubWritten(y) <=> SubWritten(x)
  /\ (\A i \in 1..Len(q) : q[i].kind # "startConnect") => Starts(y) = Starts(x)

\* Tasks are posted.
LEMMA PostedOK ==
  ASSUME NEW x, WellFormed(x), NEW q \in Seq(Handler),
         \A i \in 1..Len(q) : q[i].kind \in TaskKinds /\ Sound(q[i], x.generation),
         NEW y, y = [x EXCEPT !.strand = @ \o q]
  PROVE  Posted(x, y, q)
<1>1. x \in Session /\ x.strand \in Seq(Handler)
  BY DEF WellFormed, Session
<1>2. /\ y \in Session /\ SameMembers(x, y) /\ y.ops = x.ops
      /\ y.strand = x.strand \o q
  BY <1>1, ConcatProperties DEF Session, SameMembers
<1>3. y.generation = x.generation
  BY <1>2 DEF SameMembers
<1>4. /\ \A i \in DOMAIN x.strand :
           i \in DOMAIN y.strand /\ y.strand[i] = x.strand[i]
      /\ \A i \in DOMAIN y.strand :
           \/ i \in DOMAIN x.strand
           \/ /\ i - Len(x.strand) \in 1..Len(q)
              /\ y.strand[i] = q[i - Len(x.strand)]
  BY <1>1, <1>2, AppendedPlaces DEF Longer
<1>5. ASSUME NEW K, K \cap TaskKinds = {}
      PROVE  Ops(y, K) = Ops(x, K) /\ Places(y, K) = Places(x, K)
  BY <1>2, <1>3, <1>4, <1>5 DEF Ops, Places
<1>6. \A K \in Classes : K \cap TaskKinds = {}
  BY DEF Classes, Chain, Reads, Writes, Pings, Waits, TaskKinds
<1>7. \A K \in Classes : Lone(y, K) /\ (Has(y, K) <=> Has(x, K))
  BY <1>5, <1>6 DEF Lone, Has, WellFormed
<1>8. WellFormed(y)
  BY <1>2, <1>3, <1>4, <1>7 DEF WellFormed
<1>9. LostPing(y) <=> LostPing(x)
  <2>1. Places(y, Pings) = Places(x, Pings)
    BY <1>5 DEF Pings, TaskKinds
  <2>2. QED
    BY <1>4, <2>1 DEF LostPing, Places
<1>10. Broken(y) <=> Broken(x)
  <2>1. Places(y, Reads \cup Writes) = Places(x, Reads \cup Writes)
    BY <1>5 DEF Reads, Writes, TaskKinds
  <2>2. QED
    BY <1>4, <2>1 DEF Broken, Places
<1>11. SubWritten(y) <=> SubWritten(x)
  BY <1>2, <1>3 DEF SubWritten, Ops
<1>12. (\A i \in 1..Len(q) : q[i].kind # "startConnect") => Starts(y) = Starts(x)
  BY <1>4 DEF Starts
<1>13. QED
  BY <1>2, <1>7, <1>8, <1>9, <1>10, <1>11, <1>12 DEF Posted

\* Tokens of x and y are the same.
Still(x, y) ==
  /\ WellFormed(y)
  /\ \A K \in Classes : Has(y, K) <=> Has(x, K)
  /\ LostPing(y) <=> LostPing(x)
  /\ Broken(y) <=> Broken(x)
  /\ Starts(y) = Starts(x)
  /\ SubWritten(y) <=> SubWritten(x)

LEMMA StillOK ==
  ASSUME NEW x, WellFormed(x), NEW y \in Session,
         y.ops = x.ops, y.strand = x.strand, y.generation = x.generation
  PROVE  Still(x, y)
<1>1. \A K : Ops(y, K) = Ops(x, K) /\ Places(y, K) = Places(x, K)
  BY DEF Ops, Places
<1>2. QED
  BY <1>1 DEF Still, WellFormed, Lone, Has, LostPing, Broken, Starts, SubWritten

\* An operation of class K is started: y has its token and those of x.
Gains(x, y, K) ==
  /\ WellFormed(y) /\ Has(y, K)
  /\ \A L \in Classes : L # K => (Has(y, L) <=> Has(x, L))
  /\ LostPing(y) => LostPing(x)
  /\ Broken(y) <=> Broken(x)
  /\ Starts(y) = Starts(x)

LEMMA StartedOK ==
  ASSUME NEW x, WellFormed(x), NEW K \in Classes, NEW kind \in K, ~Has(x, K),
         NEW what \in Payloads,
         NEW y \in Session, y.ops = x.ops \cup {Op(kind, x.generation, what)},
         y.strand = x.strand, y.generation = x.generation
  PROVE  /\ Gains(x, y, K)
         /\ SubWritten(y) <=>
              SubWritten(x) \/ (kind = "write" /\ what \in Subs)
<1> DEFINE op == Op(kind, x.generation, what)
<1>1. /\ op.kind = kind /\ op.gen = x.generation /\ op.what = what
      /\ y.ops = x.ops \cup {op}
  BY DEF Op
<1> HIDE DEF op
<1>2. ASSUME NEW L
      PROVE  /\ Places(y, L) = Places(x, L)
             /\ Ops(y, L) = IF kind \in L THEN Ops(x, L) \cup {op} ELSE Ops(x, L)
  BY <1>1 DEF Places, Ops
<1>3. \A L \in Classes : kind \in L <=> L = K
  BY DEF Classes, Chain, Reads, Writes, Pings, Waits
<1>4. Lone(y, K) /\ Has(y, K)
  BY <1>2 DEF Lone, Has
<1>5. \A L \in Classes : L # K => Lone(y, L) /\ (Has(y, L) <=> Has(x, L))
  BY <1>2, <1>3 DEF Lone, Has, WellFormed
<1>6. IsFiniteSet(y.ops) /\ \A o \in y.ops : o.gen <= y.generation
  <2>1. IsFiniteSet(y.ops)
    BY <1>1, FS_AddElement DEF WellFormed
  <2>2. x.generation \in Nat
    BY DEF WellFormed, Session
  <2>3. QED
    BY <1>1, <2>1, <2>2 DEF WellFormed
<1>7. WellFormed(y)
  BY <1>4, <1>5, <1>6 DEF WellFormed
<1>8. /\ LostPing(y) <=> LostPing(x)
      /\ Broken(y) <=> Broken(x)
      /\ Starts(y) = Starts(x)
  BY <1>2 DEF LostPing, Broken, Starts
<1>9. SubWritten(y) <=> SubWritten(x) \/ (kind = "write" /\ what \in Subs)
  BY <1>1, <1>2 DEF SubWritten, Writes
<1>10. QED
  BY <1>4, <1>5, <1>7, <1>8, <1>9 DEF Gains

\* A connection is begun: its only token is the first stage of the chain.
LEMMA BegunOK ==
  ASSUME NEW x, WellFormed(x), NEW y \in Session,
         y.generation = x.generation + 1, y.strand = x.strand,
         y.ops = x.ops \cup {Op("resolve", x.generation + 1, Nothing)}
  PROVE  /\ WellFormed(y) /\ Has(y, Chain)
         /\ \A K \in Classes : K # Chain => ~Has(y, K)
         /\ ~LostPing(y) /\ ~Broken(y) /\ ~SubWritten(y)
         /\ Starts(y) = Starts(x)
<1> DEFINE op == Op("resolve", x.generation + 1, Nothing)
<1>1. /\ op.kind = "resolve" /\ op.gen = x.generation + 1
      /\ y.ops = x.ops \cup {op}
  BY DEF Op
<1> HIDE DEF op
<1>2. /\ x.generation \in Nat /\ \A o \in x.ops : o.gen \in Nat
      /\ x.strand \in Seq(Handler) /\ DOMAIN x.strand = 1..Len(x.strand)
  BY LenProperties DEF WellFormed, Session
<1>3. \A i \in DOMAIN x.strand : x.strand[i] \in Handler /\ x.strand[i].gen \in Nat
  <2>1. \A i \in DOMAIN x.strand : x.strand[i] \in Handler
    BY <1>2, ElementOfSeq
  <2>2. QED
    BY <2>1 DEF Handler
<1>4. \A K : Ops(y, K) = IF "resolve" \in K THEN {op} ELSE {}
  BY <1>1, <1>2 DEF Ops, WellFormed
<1>5. ASSUME NEW K, K \subseteq Kinds PROVE Places(y, K) = {}
  <2>1. \A i \in DOMAIN x.strand :
          x.strand[i].kind \in K => x.strand[i].gen <= x.generation
    BY <1>5 DEF WellFormed, Sound
  <2>2. QED
    BY <1>2, <1>3, <2>1 DEF Places
<1>6. \A K \in Classes :
        K \subseteq Kinds /\ ("resolve" \in K <=> K = Chain)
  BY DEF Classes, Chain, Reads, Writes, Pings, Waits, Kinds, Timers
<1>7. \A K \in Classes : Lone(y, K) /\ (Has(y, K) <=> K = Chain)
  BY <1>4, <1>5, <1>6 DEF Lone, Has
<1>8. /\ IsFiniteSet(y.ops) /\ \A o \in y.ops : o.gen <= y.generation
      /\ \A i \in DOMAIN y.strand : Sound(y.strand[i], y.generation)
  BY <1>1, <1>2, <1>3, FS_AddElement DEF WellFormed, Sound
<1>9. WellFormed(y)
  BY <1>7, <1>8 DEF WellFormed
<1>10. /\ Places(y, Pings) = {} /\ Places(y, Reads \cup Writes) = {}
       /\ Ops(y, Writes) = {}
  BY <1>4, <1>5 DEF Pings, Reads, Writes, Kinds, Timers
<1>11. QED
  BY <1>7, <1>9, <1>10 DEF LostPing, Broken, SubWritten, Starts, Classes

-----------------------------------------------------------------------------
(* The functions the handlers are made of: sending.                        *)

NoStuck(x) == x.connected /\ x.outboundQueue # <<>> => x.writeInFlight \/ ~IsOpen(x)

\* writeInFlight tells of the write of the connection that is up.
WriteTold(x) == x.connected => (x.writeInFlight <=> Has(x, Writes))

LetIn(x) == x.connected /\ (AuthRequired => x.authenticated)

\* y is x after messages were queued and the queue pumped.
Sent(x, y) ==
  /\ WellFormed(y) /\ WriteTold(y)
  /\ y.generation = x.generation /\ y.connected = x.connected
  /\ y.authenticated = x.authenticated /\ y.userClosed = x.userClosed
  /\ y.reconnectScheduled = x.reconnectScheduled
  /\ y.sockClosed = x.sockClosed
  /\ y.reconnectDelayS = x.reconnectDelayS /\ y.ackGen = x.ackGen
  /\ \A K \in Classes : K # Writes => (Has(y, K) <=> Has(x, K))
  /\ LostPing(y) => LostPing(x)
  /\ Broken(y) <=> Broken(x)
  /\ Starts(y) = Starts(x)
  /\ SubWritten(y) \/ SubQueued(y) => SubWritten(x) \/ SubQueued(x) \/ LetIn(x)
  /\ NoStuck(y) \/ (y = x /\ AuthRequired /\ ~x.authenticated)
  /\ x.subscriptions \cap x.pendingTopics = {} =>
       y.subscriptions \cap y.pendingTopics = {}

LEMMA MessagesOK ==
  /\ Messages \subseteq Payloads /\ Nothing \in Payloads
  /\ Login \in Messages /\ Ping \in Messages
  /\ Subs \subseteq Messages /\ Unsubs \subseteq Messages
  /\ Login \notin Subs /\ Ping \notin Subs
  /\ \A u \in Unsubs : u \notin Subs
BY DEF Messages, Payloads, Subs, Unsubs, Login, Ping, Sub, Unsub, Nothing

LEMMA PumpOK ==
  ASSUME NEW x, WellFormed(x), WriteTold(x)
  PROVE  /\ Sent(x, Pump(x)) /\ NoStuck(Pump(x))
         /\ ~x.connected => Pump(x) = x
         /\ SubWritten(Pump(x)) => SubWritten(x) \/ SubQueued(x)
         /\ SubQueued(Pump(x)) => SubQueued(x)
         /\ Pump(x).subscriptions = x.subscriptions
         /\ Pump(x).pendingTopics = x.pendingTopics
<1> DEFINE y == Pump(x)
<1>0. x \in Session
  BY DEF WellFormed
<1>1. CASE x.writeInFlight \/ ~x.connected \/ ~IsOpen(x) \/ x.outboundQueue = <<>>
  <2>1. y = x
    BY <1>1 DEF Pump
  <2>2. QED
    BY <1>1, <2>1 DEF Sent, NoStuck
<1>2. CASE ~(x.writeInFlight \/ ~x.connected \/ ~IsOpen(x) \/ x.outboundQueue = <<>>)
  <2> DEFINE msg == Head(x.outboundQueue)
  <2>1. x.outboundQueue \in Seq(Messages) /\ x.outboundQueue # <<>>
    BY <1>0, <1>2 DEF Session
  <2>2. /\ msg \in Messages /\ Tail(x.outboundQueue) \in Seq(Messages)
        /\ Len(Tail(x.outboundQueue)) = Len(x.outboundQueue) - 1
        /\ \A i \in 1..Len(Tail(x.outboundQueue)) :
             Tail(x.outboundQueue)[i] = x.outboundQueue[i + 1]
    BY <2>1, HeadTailProperties
  <2>3. y = [x EXCEPT !.writeInFlight = TRUE, !.outboundQueue = Tail(@),
                      !.ops = @ \cup {Op("write", x.generation, msg)}]
    BY <1>2 DEF Pump
  <2>4. Op("write", x.generation, msg) \in [kind : Kinds, gen : Nat, what : Payloads]
    BY <1>0, <2>2, MessagesOK DEF Session, Op, Kinds
  <2>5. /\ y \in Session /\ y.writeInFlight
        /\ y.outboundQueue = Tail(x.outboundQueue)
        /\ y.ops = x.ops \cup {Op("write", x.generation, msg)}
        /\ y.strand = x.strand /\ y.generation = x.generation
        /\ y.connected = x.connected /\ y.authenticated = x.authenticated
        /\ y.userClosed = x.userClosed /\ y.sockClosed = x.sockClosed
        /\ y.reconnectScheduled = x.reconnectScheduled
        /\ y.reconnectDelayS = x.reconnectDelayS /\ y.ackGen = x.ackGen
        /\ y.subscriptions = x.subscriptions
        /\ y.pendingTopics = x.pendingTopics
    <3> HIDE DEF y
    <3>1. x.ops \cup {Op("write", x.generation, msg)}
            \subseteq [kind : Kinds, gen : Nat, what : Payloads]
      BY <1>0, <2>4 DEF Session
    <3>2. Tail(x.outboundQueue) \in Seq(Messages)
      BY <2>2
    <3> HIDE DEF msg
    <3>3. y \in Session
      BY <1>0, <2>3, <3>1, <3>2 DEF Session
    <3>4. QED
      BY <1>0, <2>3, <3>3 DEF Session
  <2> HIDE DEF y
  <2>6. Writes \in Classes /\ "write" \in Writes /\ ~Has(x, Writes)
    BY <1>2 DEF Classes, Writes, WriteTold
  <2>7. Gains(x, y, Writes) /\ (SubWritten(y) <=> SubWritten(x) \/ msg \in Subs)
    BY <2>2, <2>5, <2>6, StartedOK, MessagesOK
  <2>8. /\ SubQueued(y) => SubQueued(x)
        /\ msg \in Subs => SubQueued(x)
    <3>1. /\ DOMAIN x.outboundQueue = 1..Len(x.outboundQueue)
          /\ Len(x.outboundQueue) \in Nat \ {0}
          /\ DOMAIN y.outboundQueue = 1..Len(y.outboundQueue)
          /\ Len(y.outboundQueue) \in Nat
      BY <2>1, <2>2, <2>5, LenProperties, EmptySeq
    <3>2. msg = x.outboundQueue[1] /\ 1 \in DOMAIN x.outboundQueue
      BY <2>1, <3>1
    <3>3. \A i \in DOMAIN y.outboundQueue :
            /\ i + 1 \in DOMAIN x.outboundQueue
            /\ y.outboundQueue[i] = x.outboundQueue[i + 1]
      BY <2>2, <2>5, <3>1
    <3>4. QED
      BY <3>2, <3>3 DEF SubQueued
  <2>9. WriteTold(y) /\ NoStuck(y)
    BY <2>5, <2>7 DEF WriteTold, NoStuck, Gains
  <2>10. Sent(x, y)
    BY <2>5, <2>7, <2>8, <2>9 DEF Sent, Gains
  <2>11. QED
    BY <1>2, <2>5, <2>7, <2>8, <2>9, <2>10 DEF y
<1>3. QED
  BY <1>1, <1>2

LEMMA EnqueuedOK ==
  ASSUME NEW x, WellFormed(x), WriteTold(x), x.connected,
         NEW msg \in Messages, msg \notin Subs
  PROVE  /\ Sent(x, Pump(EnqueueOp(x, msg))) /\ NoStuck(Pump(EnqueueOp(x, msg)))
         /\ Pump(EnqueueOp(x, msg)).subscriptions = x.subscriptions
         /\ Pump(EnqueueOp(x, msg)).pendingTopics = x.pendingTopics
<1> DEFINE z == EnqueueOp(x, msg)
           y == Pump(z)
<1>0. x \in Session /\ x.outboundQueue \in Seq(Messages)
  BY DEF WellFormed, Session
<1>1. /\ Append(x.outboundQueue, msg) \in Seq(Messages)
      /\ Len(Append(x.outboundQueue, msg)) = Len(x.outboundQueue) + 1
      /\ \A i \in 1..Len(x.outboundQueue) :
           Append(x.outboundQueue, msg)[i] = x.outboundQueue[i]
      /\ Append(x.outboundQueue, msg)[Len(x.outboundQueue) + 1] = msg
  BY <1>0, AppendProperties
<1>2. /\ z \in Session /\ z.outboundQueue = Append(x.outboundQueue, msg)
      /\ z.ops = x.ops /\ z.strand = x.strand /\ z.generation = x.generation
      /\ z.connected = x.connected /\ z.authenticated = x.authenticated
      /\ z.userClosed = x.userClosed /\ z.sockClosed = x.sockClosed
      /\ z.reconnectScheduled = x.reconnectScheduled
      /\ z.writeInFlight = x.writeInFlight
      /\ z.reconnectDelayS = x.reconnectDelayS /\ z.ackGen = x.ackGen
      /\ z.subscriptions = x.subscriptions /\ z.pendingTopics = x.pendingTopics
  <2>1. z = [x EXCEPT !.outboundQueue = Append(x.outboundQueue, msg)]
    BY DEF EnqueueOp
  <2> HIDE DEF z
  <2>2. QED
    BY <1>0, <1>1, <2>1 DEF Session
<1> HIDE DEF z, y
<1>3. SubQueued(z) => SubQueued(x)
  <2>1. /\ DOMAIN x.outboundQueue = 1..Len(x.outboundQueue)
        /\ Len(x.outboundQueue) \in Nat
        /\ DOMAIN z.outboundQueue = 1..Len(z.outboundQueue)
    BY <1>0, <1>1, <1>2, LenProperties
  <2>2. \A i \in DOMAIN z.outboundQueue :
          \/ i \in DOMAIN x.outboundQueue /\ z.outboundQueue[i] = x.outboundQueue[i]
          \/ z.outboundQueue[i] = msg
    BY <1>1, <1>2, <2>1
  <2>3. QED
    BY <2>2 DEF SubQueued
<1>4. Still(x, z)
  BY <1>2, StillOK
<1>5. WellFormed(z) /\ WriteTold(z)
  BY <1>2, <1>4 DEF Still, WriteTold, Classes
<1>6. /\ Sent(z, y) /\ NoStuck(y)
      /\ y.subscriptions = z.subscriptions /\ y.pendingTopics = z.pendingTopics
      /\ SubWritten(y) => SubWritten(z) \/ SubQueued(z)
      /\ SubQueued(y) => SubQueued(z)
  BY <1>5, PumpOK DEF y
<1>7. Sent(x, y)
  BY <1>2, <1>3, <1>4, <1>6 DEF Sent, Still
<1>8. QED
  BY <1>2, <1>6, <1>7 DEF y, z

LEMMA FlushOK ==
  ASSUME NEW x, WellFormed(x), WriteTold(x)
  PROVE  /\ Sent(x, FlushTopics(x))
         /\ ~x.connected => FlushTopics(x) = x
         /\ LetIn(x) => NoStuck(FlushTopics(x))
<1>0. x \in Session /\ x.outboundQueue \in Seq(Messages)
  BY DEF WellFormed, Session
<1>1. CASE ~LetIn(x)
  <2>1. FlushTopics(x) = x /\ (x.connected => AuthRequired /\ ~x.authenticated)
    BY <1>1 DEF FlushTopics, LetIn
  <2>2. QED
    BY <1>1, <2>1 DEF Sent, NoStuck, WriteTold
<1>2. CASE LetIn(x)
  <2> DEFINE R == {Sub(t) : t \in x.pendingTopics}
             q == x.outboundQueue \o SetToSeq(R)
             z == [x EXCEPT !.subscriptions = @ \cup x.pendingTopics,
                            !.pendingTopics = {}, !.outboundQueue = q]
             y == Pump(z)
  <2>1. FlushTopics(x) = y
    BY <1>2 DEF FlushTopics, LetIn
  <2>2. IsFiniteSet(R)
    <3>1. IsFiniteSet(x.pendingTopics)
      BY <1>0, WsAssumption, FS_Subset DEF WsAssumption, Session
    <3>2. [t \in x.pendingTopics |-> Sub(t)] \in Surjection(x.pendingTopics, R)
      BY DEF Surjection
    <3>3. QED
      BY <3>1, <3>2, FS_Surjection
  <2>3. q \in Seq(Messages)
    <3>1. SetToSeq(R) \in Seq(R) /\ R \subseteq Messages
      BY <1>0, <2>2, SetToSeqOK DEF Session, Messages
    <3>2. SetToSeq(R) \in Seq(Messages)
      BY <3>1, SeqMonotonic
    <3>3. QED
      BY <1>0, <3>2, ConcatProperties
  <2> HIDE DEF q
  <2>4. /\ z \in Session
        /\ z.ops = x.ops /\ z.strand = x.strand /\ z.generation = x.generation
        /\ z.connected = x.connected /\ z.authenticated = x.authenticated
        /\ z.userClosed = x.userClosed /\ z.sockClosed = x.sockClosed
        /\ z.reconnectScheduled = x.reconnectScheduled
        /\ z.writeInFlight = x.writeInFlight
        /\ z.reconnectDelayS = x.reconnectDelayS /\ z.ackGen = x.ackGen
        /\ z.pendingTopics = {}
    BY <1>0, <2>3 DEF Session
  <2> HIDE DEF z, y
  <2>5. Still(x, z)
    BY <2>4, StillOK
  <2>6. WellFormed(z) /\ WriteTold(z)
    BY <2>4, <2>5 DEF Still, WriteTold, Classes
  <2>7. /\ Sent(z, y) /\ NoStuck(y)
        /\ y.subscriptions = z.subscriptions /\ y.pendingTopics = z.pendingTopics
    BY <2>6, PumpOK DEF y
  <2>8. Sent(x, y)
    BY <1>2, <2>4, <2>5, <2>7 DEF Sent, Still
  <2>9. QED
    BY <1>2, <2>1, <2>7, <2>8 DEF LetIn
<1>3. QED
  BY <1>1, <1>2

-----------------------------------------------------------------------------
(* The functions the handlers are made of: timers, reads, errors, connecting. *)

LEMMA ArmOK ==
  ASSUME NEW x, WellFormed(x), NEW kind \in {"ping", "reconnect"}, ~Has(x, {kind})
  PROVE  /\ Gains(x, Arm(x, kind), {kind}) /\ SameMembers(x, Arm(x, kind))
         /\ SubWritten(Arm(x, kind)) => SubWritten(x)
<1> DEFINE z == Cancel(x, kind)
           y == Arm(x, kind)
<1>1. /\ WellFormed(z) /\ SameMembers(x, z)
      /\ \A K \in Classes : Has(z, K) <=> Has(x, K)
      /\ Ops(x, {kind}) = {} => (LostPing(z) => LostPing(x))
      /\ Broken(z) <=> Broken(x)
      /\ Starts(z) = Starts(x)
      /\ SubWritten(z) => SubWritten(x)
  BY CancelOK
<1>2. {kind} \in Classes /\ kind \in Kinds
  BY DEF Classes, Pings, Waits, Kinds, Timers
<1>3. x.generation = z.generation /\ z \in Session
  BY <1>1 DEF SameMembers, WellFormed
<1>4. y = [z EXCEPT !.ops = @ \cup {Op(kind, z.generation, Nothing)}]
  BY <1>3 DEF Arm
<1> HIDE DEF z, y
<1>5. Op(kind, z.generation, Nothing) \in [kind : Kinds, gen : Nat, what : Payloads]
  BY <1>2, <1>3, MessagesOK DEF Session, Op
<1>6. /\ y \in Session /\ SameMembers(z, y) /\ y.strand = z.strand
      /\ y.generation = z.generation
      /\ y.ops = z.ops \cup {Op(kind, z.generation, Nothing)}
  BY <1>3, <1>4, <1>5 DEF Session, SameMembers
<1>7. ~Has(z, {kind})
  BY <1>1, <1>2
<1>8. /\ Gains(z, y, {kind})
      /\ SubWritten(y) <=> SubWritten(z) \/ (kind = "write" /\ Nothing \in Subs)
  BY <1>1, <1>2, <1>6, <1>7, StartedOK, MessagesOK
<1>9. Ops(x, {kind}) = {}
  BY DEF Has
<1>10. Gains(x, y, {kind})
  BY <1>1, <1>8, <1>9 DEF Gains
<1>11. SameMembers(x, y)
  BY <1>1, <1>6 DEF SameMembers
<1>12. QED
  BY <1>1, <1>8, <1>10, <1>11 DEF y

LEMMA AsyncReadOK ==
  ASSUME NEW x, WellFormed(x), ~Has(x, Reads)
  PROVE  /\ Gains(x, AsyncRead(x), Reads) /\ SameMembers(x, AsyncRead(x))
         /\ SubWritten(AsyncRead(x)) => SubWritten(x)
<1> DEFINE y == AsyncRead(x)
<1>1. x \in Session
  BY DEF WellFormed
<1>2. Reads \in Classes /\ "read" \in Reads /\ "read" \in Kinds
  BY DEF Classes, Reads, Kinds
<1>3. y = [x EXCEPT !.ops = @ \cup {Op("read", x.generation, Nothing)}]
  BY DEF AsyncRead
<1>4. Op("read", x.generation, Nothing) \in [kind : Kinds, gen : Nat, what : Payloads]
  BY <1>1, <1>2, MessagesOK DEF Session, Op
<1> HIDE DEF y
<1>5. /\ y \in Session /\ SameMembers(x, y) /\ y.strand = x.strand
      /\ y.generation = x.generation
      /\ y.ops = x.ops \cup {Op("read", x.generation, Nothing)}
  BY <1>1, <1>3, <1>4 DEF Session, SameMembers
<1>6. /\ Gains(x, y, Reads)
      /\ SubWritten(y) <=> SubWritten(x) \/ ("read" = "write" /\ Nothing \in Subs)
  BY <1>2, <1>5, StartedOK, MessagesOK
<1>7. QED
  BY <1>5, <1>6 DEF y

\* y is x after its connection was torn down and the reconnect timer armed.
TornDown(x, y) ==
  /\ WellFormed(y) /\ Has(y, Waits)
  /\ \A K \in Classes : K # Waits => (Has(y, K) <=> Has(x, K))
  /\ y.generation = x.generation /\ y.ackGen = x.ackGen
  /\ ~y.connected /\ ~y.authenticated /\ ~y.writeInFlight
  /\ y.reconnectScheduled /\ y.sockClosed /\ ~x.userClosed /\ ~y.userClosed
  /\ y.reconnectDelayS >= x.reconnectDelayS
  /\ y.outboundQueue = <<>>
  /\ y.subscriptions = {} /\ y.pendingTopics = x.pendingTopics \cup x.subscriptions
  /\ Starts(y) = Starts(x)
  /\ SubWritten(y) => SubWritten(x)

LEMMA DoubledOK ==
  ASSUME NEW d \in {1, 2, 4, 8, 16, 30}
  PROVE  Min({2 * d, 30}) \in {1, 2, 4, 8, 16, 30} /\ Min({2 * d, 30}) >= d
<1> DEFINE m == IF 2 * d <= 30 THEN 2 * d ELSE 30
<1>1. m \in {2 * d, 30} /\ \A e \in {2 * d, 30} : m <= e
  OBVIOUS
<1>2. \A e \in {2 * d, 30} : (\A f \in {2 * d, 30} : e <= f) => e = m
  OBVIOUS
<1>3. Min({2 * d, 30}) = m
  BY <1>1, <1>2 DEF Min
<1>4. QED
  BY <1>3

LEMMA HandleErrorOK ==
  ASSUME NEW x, WellFormed(x), NEW gen, Has(x, Waits) => x.reconnectScheduled
  PROVE  IF gen # x.generation \/ x.reconnectScheduled \/ x.userClosed
         THEN HandleError(x, gen) = x
         ELSE TornDown(x, HandleError(x, gen))
<1>1. CASE gen # x.generation \/ x.reconnectScheduled \/ x.userClosed
  BY <1>1 DEF HandleError
<1>2. CASE ~(gen # x.generation \/ x.reconnectScheduled \/ x.userClosed)
  <2> DEFINE d == Min({2 * x.reconnectDelayS, 30})
             c == Cancel(x, "ping")
             z == [c EXCEPT
                     !.reconnectScheduled = TRUE, !.connected = FALSE,
                     !.authenticated = FALSE, !.writeInFlight = FALSE,
                     !.outboundQueue = <<>>, !.sockClosed = TRUE,
                     !.pendingTopics = @ \cup c.subscriptions,
                     !.subscriptions = {},
                     !.reconnectDelayS = d]
             y == Arm(z, "reconnect")
  <2>1. /\ WellFormed(c) /\ SameMembers(x, c)
        /\ \A K \in Classes : Has(c, K) <=> Has(x, K)
        /\ Broken(c) <=> Broken(x)
        /\ Starts(c) = Starts(x)
        /\ SubWritten(c) => SubWritten(x)
    BY CancelOK
  <2>2. x \in Session /\ c \in Session
    BY <2>1 DEF WellFormed
  <2>3. HandleError(x, gen) = y
    <3>1. c.subscriptions = x.subscriptions /\ c.reconnectDelayS = x.reconnectDelayS
      BY <2>1 DEF SameMembers
    <3>2. QED
      BY <1>2, <3>1 DEF HandleError
  <2>4. d \in {1, 2, 4, 8, 16, 30} /\ d >= x.reconnectDelayS
    BY <2>2, DoubledOK DEF Session
  <2>5. <<>> \in Seq(Messages)
    OBVIOUS
  <2> HIDE DEF c, d
  <2>6. /\ z \in Session
        /\ z.ops = c.ops /\ z.strand = c.strand /\ z.generation = c.generation
        /\ ~z.connected /\ ~z.authenticated /\ ~z.writeInFlight
        /\ z.userClosed = c.userClosed /\ z.sockClosed
        /\ z.reconnectScheduled /\ z.outboundQueue = <<>>
        /\ z.reconnectDelayS = d /\ z.ackGen = c.ackGen
        /\ z.pendingTopics = c.pendingTopics \cup c.subscriptions
        /\ z.subscriptions = {}
    <3>1. /\ c.subscriptions \in SUBSET Topics /\ c.pendingTopics \in SUBSET Topics
          /\ DOMAIN c = {"generation", "connected", "authenticated",
                        "reconnectScheduled", "userClosed", "writeInFlight",
                        "reconnectDelayS", "subscriptions", "pendingTopics",
                        "outboundQueue", "sockClosed", "ackGen", "ops", "strand"}
      BY <2>2 DEF Session
    <3>2. z \in Session
      BY <2>2, <2>4, <2>5, <3>1 DEF Session
    <3>3. QED
      BY <3>1, <3>2
  <2> HIDE DEF z, y
  <2>7. Still(c, z)
    BY <2>1, <2>6, StillOK
  <2>8. ~Has(z, {"reconnect"})
    BY <1>2, <2>1, <2>7 DEF Still, Classes, Waits
  <2>9. /\ Gains(z, y, Waits) /\ SameMembers(z, y)
        /\ SubWritten(y) => SubWritten(z)
    BY <2>7, <2>8, ArmOK DEF Still, Waits, y
  <2>10. TornDown(x, y)
    <3>1. \A K \in Classes : K # Waits => (Has(y, K) <=> Has(x, K))
      BY <2>1, <2>7, <2>9 DEF Gains, Still
    <3>2. WellFormed(y) /\ Has(y, Waits)
      BY <2>9 DEF Gains
    <3>3. Starts(y) = Starts(x) /\ (SubWritten(y) => SubWritten(x))
      BY <2>1, <2>7, <2>9 DEF Gains, Still
    <3>4. QED
      BY <1>2, <2>1, <2>4, <2>6, <2>9, <3>1, <3>2, <3>3 DEF TornDown, SameMembers
  <2>11. QED
    BY <1>2, <2>3, <2>10
<1>3. QED
  BY <1>1, <1>2

LEMMA StartConnectOK ==
  ASSUME NEW x, WellFormed(x), ~x.userClosed
  PROVE  /\ WellFormed(StartConnect(x)) /\ Has(StartConnect(x), Chain)
         /\ \A K \in Classes : K # Chain => ~Has(StartConnect(x), K)
         /\ ~LostPing(StartConnect(x)) /\ ~SubWritten(StartConnect(x))
         /\ Starts(StartConnect(x)) = Starts(x)
         /\ StartConnect(x).generation = x.generation + 1
         /\ ~StartConnect(x).connected /\ ~StartConnect(x).authenticated
         /\ ~StartConnect(x).writeInFlight /\ ~StartConnect(x).userClosed
         /\ StartConnect(x).reconnectScheduled = x.reconnectScheduled
         /\ StartConnect(x).reconnectDelayS = x.reconnectDelayS
         /\ StartConnect(x).ackGen = x.ackGen
         /\ StartConnect(x).subscriptions = x.subscriptions
         /\ StartConnect(x).pendingTopics = x.pendingTopics
         /\ StartConnect(x).outboundQueue = x.outboundQueue
<1> DEFINE y == StartConnect(x)
           op == Op("resolve", x.generation + 1, Nothing)
<1>1. x \in Session
  BY DEF WellFormed
<1>2. y = [x EXCEPT !.generation = x.generation + 1, !.connected = FALSE,
             !.authenticated = FALSE, !.writeInFlight = FALSE,
             !.sockClosed = FALSE, !.ops = @ \cup {op}]
  BY DEF StartConnect
<1>3. op \in [kind : Kinds, gen : Nat, what : Payloads] /\ x.generation + 1 \in Nat
  BY <1>1, MessagesOK DEF Session, Op, Kinds
<1> HIDE DEF y, op
<1>4. /\ y \in Session /\ y.generation = x.generation + 1
      /\ ~y.connected /\ ~y.authenticated /\ ~y.writeInFlight
      /\ y.userClosed = x.userClosed
      /\ y.reconnectScheduled = x.reconnectScheduled
      /\ y.reconnectDelayS = x.reconnectDelayS /\ y.ackGen = x.ackGen
      /\ y.subscriptions = x.subscriptions /\ y.pendingTopics = x.pendingTopics
      /\ y.outboundQueue = x.outboundQueue /\ y.strand = x.strand
      /\ y.ops = x.ops \cup {op}
  BY <1>1, <1>2, <1>3 DEF Session
<1>5. /\ WellFormed(y) /\ Has(y, Chain)
      /\ \A K \in Classes : K # Chain => ~Has(y, K)
      /\ ~LostPing(y) /\ ~Broken(y) /\ ~SubWritten(y)
      /\ Starts(y) = Starts(x)
  BY <1>4, BegunOK DEF op
<1>6. QED
  BY <1>4, <1>5 DEF y

-----------------------------------------------------------------------------
(* What holds of the session between two handlers.                         *)

\* However often run() is called: while a chain is connecting, nothing else of
\* this connection is under way; writeInFlight tells of the write; the reconnect
\* timer is armed only without a connection.
Stages(x) ==
  /\ Has(x, Chain) => /\ ~x.connected /\ ~x.writeInFlight
                      /\ \A K \in Classes : K # Chain => ~Has(x, K)
  /\ WriteTold(x)
  /\ Has(x, Waits) => x.reconnectScheduled /\ ~x.connected
  /\ x.authenticated => x.ackGen = x.generation
  /\ LostPing(x) => ~x.connected \/ x.userClosed
  /\ x.subscriptions \cap x.pendingTopics = {}

\* With one call of run(): no operation is ever missing, and the queue belongs to
\* the connection that is up.
Alone(x) ==
  /\ OneStart(x)
  /\ Starts(x) # {} => x.generation = 0
  /\ x.generation = 0 => /\ ~x.connected /\ ~x.reconnectScheduled
                         /\ \A K \in Classes : ~Has(x, K)
  /\ x.reconnectScheduled => Has(x, Waits)
  /\ ~x.connected => x.outboundQueue = <<>>
  /\ AuthRequired /\ (SubWritten(x) \/ SubQueued(x)) => x.ackGen = x.generation
Served(x) == x.connected /\ ~x.userClosed => Has(x, Reads) /\ Has(x, Pings)
Single(x) == Alone(x) /\ Served(x) /\ NoStuck(x)

\* What a step never does.
Later(x, y) ==
  /\ x.userClosed => /\ y.userClosed /\ y.generation = x.generation
                     /\ y.connected => x.connected
  /\ y.reconnectDelayS < x.reconnectDelayS =>
       (AuthRequired => y.ackGen = y.generation)
  /\ y.generation = x.generation /\ x.ackGen = x.generation =>
       y.ackGen = y.generation

After(x, y) ==
  WellFormed(y) /\ Stages(y) /\ (Single(x) => Single(y)) /\ Later(x, y)

LEMMA DelayOK ==
  ASSUME NEW x, WellFormed(x)
  PROVE  x.reconnectDelayS \in Nat /\ x.reconnectDelayS >= 1
         /\ x.generation \in Nat /\ ~(x.reconnectDelayS < x.reconnectDelayS)
BY DEF WellFormed, Session

\* The handler did nothing, and was not one the session needs.
LEMMA SkipOK ==
  ASSUME NEW x, NEW y, NEW h, WellFormed(x), Stages(x), Taken(x, y, h),
         ~(h.kind = "write" /\ h.gen = x.generation)
  PROVE  /\ WellFormed(y) /\ Stages(y) /\ Later(x, y)
         /\ (h.kind \in {"read", "ping", "reconnect"} /\ h.gen = x.generation =>
               /\ y.userClosed \/ ~y.connected
               /\ h.kind # "reconnect")
              => (Single(x) => Single(y))
         /\ ~(h.kind = "reconnect" /\ h.gen = x.generation) =>
              (Single(x) => Alone(y))
<1>1. WellFormed(y) /\ SameMembers(x, y)
  BY DEF Taken
<1>2. /\ Chain \in Classes /\ Reads \in Classes /\ Writes \in Classes
      /\ Pings \in Classes /\ Waits \in Classes
  BY DEF Classes
<1>3. \A K \in Classes : Has(y, K) => Has(x, K)
  BY DEF Taken
<1>4. Has(y, Writes) <=> Has(x, Writes)
  BY <1>2 DEF Taken, Writes
<1>5. Stages(y)
  BY <1>1, <1>2, <1>3, <1>4 DEF Stages, Taken, SameMembers, WriteTold
<1>6. Later(x, y)
  BY <1>1, DelayOK DEF Later, SameMembers
<1>7. ASSUME ~(h.kind = "reconnect" /\ h.gen = x.generation), Single(x)
      PROVE  Alone(y)
  <2>1. y.reconnectScheduled => Has(y, Waits)
    BY <1>1, <1>2, <1>7 DEF Single, Alone, Taken, SameMembers, Waits
  <2>2. /\ OneStart(y) /\ (Starts(y) # {} => y.generation = 0)
        /\ y.generation = 0 => /\ ~y.connected /\ ~y.reconnectScheduled
                               /\ \A K \in Classes : ~Has(y, K)
    BY <1>1, <1>3, <1>7 DEF Single, Alone, Taken, SameMembers
  <2>3. /\ ~y.connected => y.outboundQueue = <<>>
        /\ AuthRequired /\ (SubWritten(y) \/ SubQueued(y)) =>
             y.ackGen = y.generation
    BY <1>1, <1>7 DEF Single, Alone, Taken, SameMembers, SubQueued
  <2>4. QED
    BY <2>1, <2>2, <2>3 DEF Alone
<1>8. ASSUME h.kind \in {"read", "ping", "reconnect"} /\ h.gen = x.generation =>
               /\ y.userClosed \/ ~y.connected
               /\ h.kind # "reconnect",
             Single(x)
      PROVE  Served(y) /\ NoStuck(y)
  <2>1. Served(y)
    BY <1>1, <1>2, <1>8 DEF Single, Served, Taken, SameMembers, Reads, Pings
  <2>2. NoStuck(y)
    BY <1>1, <1>8, OpenMeans DEF Single, Taken, SameMembers, NoStuck
  <2>3. QED
    BY <2>1, <2>2
<1>9. QED
  BY <1>1, <1>5, <1>6, <1>7, <1>8 DEF Single

\* The connection was torn down.
LEMMA TornOK ==
  ASSUME NEW x, NEW y, WellFormed(x), TornDown(x, y), ~Has(x, Chain)
  PROVE  /\ WellFormed(y) /\ Stages(y)
         /\ OneStart(x) /\ (Starts(x) # {} => x.generation = 0)
              /\ x.generation # 0
              /\ (AuthRequired /\ SubWritten(x) => x.ackGen = x.generation)
            => Single(y)
<1>1. Chain \in Classes /\ Waits \in Classes /\ Chain # Waits
  BY DEF Classes, Chain, Waits
<1>2. ~Has(y, Chain)
  BY <1>1 DEF TornDown
<1>3. Stages(y)
  BY <1>2 DEF TornDown, Stages, WriteTold
<1>4. ~SubQueued(y) /\ NoStuck(y)
  BY DEF TornDown, SubQueued, NoStuck
<1>5. OneStart(x) => OneStart(y)
  BY DEF TornDown, OneStart
<1>6. QED
  BY <1>3, <1>4, <1>5 DEF TornDown, Single, Alone, Served

-----------------------------------------------------------------------------
(* The handlers.  x is the session before, z the one without the handler.  *)

LEMMA StaleOK ==
  ASSUME NEW x, NEW z, NEW h, WellFormed(x), Stages(x), Taken(x, z, h),
         h.kind \in Kinds => h.gen # z.generation
  PROVE  After(x, z)
<1>1. h.kind \in {"read", "ping", "reconnect", "write"} => h.gen # x.generation
  BY DEF Taken, SameMembers, Kinds, Timers
<1>2. QED
  BY <1>1, SkipOK DEF After, Taken

\* A stage, a read or a ping wait of this connection ends in an error.
LEMMA ErrorOK ==
  ASSUME NEW x, NEW z, NEW h, WellFormed(x), Stages(x), Taken(x, z, h),
         h.gen = z.generation, h.kind \in Chain \cup {"read", "ping"}
  PROVE  After(x, HandleError(z, h.gen))
<1> DEFINE y == HandleError(z, h.gen)
<1>1. /\ WellFormed(z) /\ Stages(z) /\ Later(x, z)
      /\ (h.kind \in {"read", "ping"} => z.userClosed \/ ~z.connected)
           => (Single(x) => Single(z))
  BY SkipOK DEF Taken, SameMembers, Chain
<1>2. SameMembers(x, z) /\ h.gen = x.generation
  BY DEF Taken, SameMembers
<1>3. Chain \in Classes /\ Reads \in Classes /\ Pings \in Classes /\ Waits \in Classes
  BY DEF Classes
<1>4. \E K \in {Chain, Reads, Pings} : h.kind \in K
  BY DEF Reads, Pings
<1>5. ~Has(z, Chain) /\ \E K \in {Chain, Reads, Pings} : Has(x, K)
  <2>1. PICK K \in {Chain, Reads, Pings} : h.kind \in K
    BY <1>4
  <2>2. Has(x, K) /\ ~Has(z, K)
    BY <1>2, <1>3, <2>1 DEF Taken
  <2>3. CASE K = Chain
    BY <2>2, <2>3
  <2>4. CASE K # Chain
    BY <1>2, <1>3, <2>1, <2>2, <2>4 DEF Taken, Stages
  <2>5. QED
    BY <2>2, <2>3, <2>4
<1>6. Has(z, Waits) => z.reconnectScheduled
  BY <1>1 DEF Stages
<1>7. IF z.reconnectScheduled \/ z.userClosed THEN y = z ELSE TornDown(z, y)
  BY <1>1, <1>6, HandleErrorOK
<1> HIDE DEF y
<1>8. CASE z.reconnectScheduled \/ z.userClosed
  <2>1. Single(x) => z.userClosed \/ ~z.connected
    BY <1>2, <1>8 DEF Single, Alone, Served, Stages, SameMembers
  <2>2. QED
    BY <1>1, <1>7, <1>8, <2>1 DEF After, y
<1>9. CASE ~(z.reconnectScheduled \/ z.userClosed)
  <2>1. TornDown(z, y)
    BY <1>7, <1>9
  <2>2. Later(x, y)
    BY <1>1, <1>2, <1>9, <2>1, DelayOK DEF Later, SameMembers, TornDown
  <2>3. ASSUME Single(x)
        PROVE  /\ OneStart(z) /\ (Starts(z) # {} => z.generation = 0)
               /\ z.generation # 0
               /\ AuthRequired /\ SubWritten(z) => z.ackGen = z.generation
    BY <1>2, <1>3, <1>5, <2>3 DEF Single, Alone, Served, Taken, SameMembers
  <2>4. QED
    BY <1>1, <1>5, <2>1, <2>2, <2>3, TornOK DEF After, y
<1>10. QED
  BY <1>8, <1>9

LEMMA StageOK ==
  ASSUME NEW x, NEW z, NEW h, WellFormed(x), Stages(x), Taken(x, z, h),
         h.kind \in DOMAIN NextStage
  PROVE  After(x, OnStage(z, h))
<1> DEFINE y == OnStage(z, h)
           op == Op(NextStage[h.kind], z.generation, Nothing)
<1>0. h.kind \in Chain /\ h.kind \in Kinds
  BY DEF NextStage, Chain, Kinds
<1>1. CASE h.gen # z.generation
  BY <1>1, StaleOK DEF OnStage
<1>2. CASE h.gen = z.generation /\ ~h.ok
  BY <1>0, <1>2, ErrorOK DEF OnStage
<1>3. CASE h.gen = z.generation /\ h.ok
  <2>1. /\ WellFormed(z) /\ z \in Session /\ SameMembers(x, z)
        /\ h.gen = x.generation
    BY <1>3 DEF Taken, SameMembers, WellFormed
  <2>2. y = [z EXCEPT !.ops = @ \cup {op},
                      !.sockClosed = IF h.kind = "resolve" THEN FALSE ELSE @]
    BY <1>3 DEF OnStage
  <2>3. NextStage[h.kind] \in Chain /\ NextStage[h.kind] \in Kinds
    BY DEF NextStage, Chain, Kinds
  <2>4. op \in [kind : Kinds, gen : Nat, what : Payloads]
    BY <2>1, <2>3, MessagesOK DEF Session, Op
  <2> DEFINE closed == IF h.kind = "resolve" THEN FALSE ELSE z.sockClosed
  <2>5. closed \in BOOLEAN
    BY <2>1 DEF Session
  <2> HIDE DEF y, op, closed
  <2>6. y = [z EXCEPT !.ops = z.ops \cup {op}, !.sockClosed = closed]
    BY <2>2 DEF closed
  <2>7. /\ y \in Session /\ y.ops = z.ops \cup {op} /\ y.strand = z.strand
        /\ y.generation = z.generation /\ y.connected = z.connected
        /\ y.authenticated = z.authenticated /\ y.userClosed = z.userClosed
        /\ y.reconnectScheduled = z.reconnectScheduled
        /\ y.writeInFlight = z.writeInFlight
        /\ y.reconnectDelayS = z.reconnectDelayS /\ y.ackGen = z.ackGen
        /\ y.subscriptions = z.subscriptions
        /\ y.pendingTopics = z.pendingTopics
        /\ y.outboundQueue = z.outboundQueue
    BY <2>1, <2>4, <2>5, <2>6 DEF Session
  <2>8. /\ Chain \in Classes /\ Reads \in Classes /\ Writes \in Classes
        /\ Pings \in Classes /\ Waits \in Classes /\ Waits # Chain
        /\ Writes # Chain
    BY DEF Classes, Chain, Waits, Writes
  <2>9. ~Has(z, Chain) /\ Has(x, Chain)
    BY <1>0, <2>1, <2>8 DEF Taken
  <2>10. /\ Gains(z, y, Chain)
         /\ SubWritten(y) <=>
              SubWritten(z) \/ (NextStage[h.kind] = "write" /\ Nothing \in Subs)
    BY <2>1, <2>3, <2>7, <2>8, <2>9, StartedOK, MessagesOK DEF op
  <2>11. /\ ~x.connected /\ ~x.writeInFlight
         /\ \A K \in Classes : K # Chain => ~Has(x, K) /\ ~Has(z, K) /\ ~Has(y, K)
    BY <1>0, <2>8, <2>9, <2>10 DEF Stages, Taken, Gains, Chain, Classes,
       Reads, Writes, Pings, Waits
  <2>12. Stages(y)
    BY <2>1, <2>7, <2>8, <2>11 DEF Stages, SameMembers, WriteTold
  <2>13. ASSUME Single(x) PROVE Single(y)
    <3>1. x.generation # 0
      BY <2>8, <2>9, <2>13 DEF Single, Alone, Served
    <3>2. OneStart(y) /\ (Starts(y) # {} => y.generation = 0)
      BY <2>1, <2>7, <2>10, <2>13 DEF Single, Alone, Served, Taken, Gains, SameMembers, OneStart
    <3>3. ~y.connected /\ ~y.reconnectScheduled /\ y.outboundQueue = <<>>
      BY <2>1, <2>7, <2>8, <2>11, <2>13 DEF Single, Alone, Served, SameMembers
    <3>4. ~SubWritten(y) /\ ~SubQueued(y) /\ NoStuck(y)
      BY <2>8, <2>11, <3>3 DEF SubWritten, SubQueued, NoStuck, Has
    <3>5. QED
      BY <2>1, <2>7, <3>1, <3>2, <3>3, <3>4 DEF Single, Alone, Served, SameMembers
  <2>14. Later(x, y)
    BY <2>1, <2>7, DelayOK DEF Later, SameMembers
  <2>15. QED
    BY <2>10, <2>12, <2>13, <2>14 DEF After, Gains, y
<1>4. h.ok \in BOOLEAN
  BY DEF Taken, Handler
<1>5. QED
  BY <1>1, <1>2, <1>3, <1>4

LEMMA HandshakeOK ==
  ASSUME NEW x, NEW z, NEW h, WellFormed(x), Stages(x), Taken(x, z, h),
         h.kind = "handshake"
  PROVE  After(x, OnHandshake(z, h))
<1>0. h.kind \in Chain /\ h.kind \in Kinds /\ h.ok \in BOOLEAN
  BY DEF Chain, Kinds, Taken, Handler
<1>1. CASE h.gen # z.generation
  BY <1>1, StaleOK DEF OnHandshake
<1>2. CASE h.gen = z.generation /\ ~h.ok
  BY <1>0, <1>2, ErrorOK DEF OnHandshake
<1>3. CASE h.gen = z.generation /\ h.ok /\ z.userClosed
  <2>1. OnHandshake(z, h) = z
    BY <1>3 DEF OnHandshake
  <2>2. QED
    BY <1>3, <2>1, SkipOK DEF After, Taken
<1>4. CASE h.gen = z.generation /\ h.ok /\ ~z.userClosed
  <2> DEFINE u == [z EXCEPT !.connected = TRUE]
             up == Arm(u, "ping")
             v == IF AuthRequired THEN SendLogin(up) ELSE FlushTopics(up)
             y == AsyncRead(v)
  <2>1. /\ WellFormed(z) /\ z \in Session /\ SameMembers(x, z)
        /\ h.gen = x.generation
    BY <1>4 DEF Taken, SameMembers, WellFormed
  <2>2. OnHandshake(z, h) = y
    BY <1>4 DEF OnHandshake
  <2>3. /\ Chain \in Classes /\ Reads \in Classes /\ Writes \in Classes
        /\ Pings \in Classes /\ Waits \in Classes
        /\ Reads # Writes /\ Reads # Pings /\ Chain # Reads /\ Chain # Writes
        /\ Chain # Pings /\ Chain # Waits /\ Waits # Reads /\ Waits # Writes
        /\ Waits # Pings /\ Writes # Pings
    BY DEF Classes, Chain, Waits, Writes, Reads, Pings
  <2>4. ~Has(z, Chain) /\ Has(x, Chain)
    BY <1>0, <2>1, <2>3 DEF Taken
  <2>5. /\ ~x.connected /\ ~x.writeInFlight
        /\ \A K \in Classes : ~Has(z, K)
    BY <1>0, <2>3, <2>4 DEF Stages, Taken, Chain, Classes, Reads, Writes, Pings, Waits
  <2>6. /\ u \in Session /\ u.ops = z.ops /\ u.strand = z.strand
        /\ u.generation = z.generation /\ u.connected
        /\ u.authenticated = z.authenticated /\ u.userClosed = z.userClosed
        /\ u.reconnectScheduled = z.reconnectScheduled
        /\ u.writeInFlight = z.writeInFlight
        /\ u.reconnectDelayS = z.reconnectDelayS /\ u.ackGen = z.ackGen
        /\ u.subscriptions = z.subscriptions
        /\ u.pendingTopics = z.pendingTopics
        /\ u.outboundQueue = z.outboundQueue
    BY <2>1 DEF Session
  <2> HIDE DEF u
  <2>7. Still(z, u)
    BY <2>1, <2>6, StillOK
  <2>8. ~Has(u, {"ping"}) /\ WellFormed(u)
    BY <2>3, <2>5, <2>7 DEF Still, Pings
  <2>9. /\ Gains(u, up, Pings) /\ SameMembers(u, up)
        /\ SubWritten(up) => SubWritten(u)
    BY <2>8, ArmOK DEF Pings
  <2> HIDE DEF up
  <2>10. /\ up.connected /\ ~up.writeInFlight /\ WellFormed(up)
         /\ Has(up, Pings) /\ \A K \in Classes : K # Pings => ~Has(up, K)
    BY <2>1, <2>5, <2>6, <2>7, <2>9 DEF SameMembers, Gains, Still
  <2>11. WriteTold(up)
    BY <2>3, <2>10 DEF WriteTold
  <2>12. Sent(up, v) /\ (~AuthRequired => NoStuck(v)) /\ (AuthRequired => NoStuck(v))
    <3>1. CASE AuthRequired
      <4>1. v = Pump(EnqueueOp(up, Login))
        BY <3>1 DEF SendLogin
      <4>2. QED
        BY <2>10, <2>11, <3>1, <4>1, EnqueuedOK, MessagesOK
    <3>2. CASE ~AuthRequired
      <4>1. v = FlushTopics(up) /\ LetIn(up)
        BY <2>10, <3>2 DEF LetIn
      <4>2. QED
        BY <2>10, <2>11, <3>2, <4>1, FlushOK
    <3>3. QED
      BY <3>1, <3>2
  <2> HIDE DEF v
  <2>13. /\ WellFormed(v) /\ ~Has(v, Reads) /\ ~Has(v, Chain) /\ ~Has(v, Waits)
         /\ Has(v, Pings)
    BY <2>3, <2>10, <2>12 DEF Sent
  <2>14. /\ Gains(v, y, Reads) /\ SameMembers(v, y)
         /\ SubWritten(y) => SubWritten(v)
    BY <2>13, AsyncReadOK
  <2> HIDE DEF y
  <2>15. /\ Has(y, Reads) /\ Has(y, Pings) /\ ~Has(y, Chain) /\ ~Has(y, Waits)
         /\ Has(y, Writes) <=> Has(v, Writes)
    BY <2>3, <2>13, <2>14 DEF Gains
  <2>16. /\ y.connected /\ y.generation = x.generation /\ ~y.userClosed
         /\ y.authenticated = x.authenticated /\ y.ackGen = x.ackGen
         /\ y.reconnectScheduled = x.reconnectScheduled
         /\ y.reconnectDelayS = x.reconnectDelayS
    BY <1>4, <2>1, <2>6, <2>9, <2>10, <2>12, <2>14 DEF SameMembers, Sent
  <2>17. ~LostPing(y) /\ WriteTold(y)
    <3>1. LostPing(y) => LostPing(z)
      BY <2>7, <2>9, <2>12, <2>14 DEF Gains, Sent, Still
    <3>2. ~LostPing(z)
      BY <2>3, <2>5 DEF LostPing, Has
    <3>3. WriteTold(y)
      BY <2>12, <2>14, <2>15 DEF Sent, WriteTold, SameMembers
    <3>4. QED
      BY <3>1, <3>2, <3>3
  <2>18. Stages(y)
    <3>1. x.subscriptions \cap x.pendingTopics = {}
          /\ (x.authenticated => x.ackGen = x.generation)
      BY DEF Stages
    <3>2. v.subscriptions \cap v.pendingTopics = {}
      BY <2>1, <2>6, <2>9, <2>12, <3>1 DEF SameMembers, Sent
    <3>3. y.subscriptions \cap y.pendingTopics = {}
      BY <2>14, <3>2 DEF SameMembers
    <3>4. QED
      BY <2>15, <2>16, <2>17, <3>1, <3>3 DEF Stages
  <2>19. ASSUME Single(x) PROVE Single(y)
    <3>1. x.generation # 0 /\ ~x.reconnectScheduled /\ x.outboundQueue = <<>>
      BY <2>3, <2>4, <2>5, <2>19 DEF Single, Alone, Served, Stages
    <3>2. OneStart(y) /\ (Starts(y) # {} => y.generation = 0)
      BY <2>1, <2>7, <2>9, <2>12, <2>14, <2>16, <2>19
         DEF Single, Alone, Served, Taken, Gains, Sent, Still, OneStart
    <3>3. NoStuck(y)
      <4>1. NoStuck(v) /\ (Broken(y) <=> Broken(v))
        BY <2>12, <2>14 DEF Gains
      <4>2. QED
        BY <2>14, <4>1, OpenMeans DEF NoStuck, SameMembers
    <3>4. ~SubWritten(up) /\ ~SubQueued(up)
      <4>1. up.outboundQueue = <<>>
        BY <2>1, <2>6, <2>9, <3>1 DEF SameMembers
      <4>2. QED
        BY <2>3, <2>10, <4>1 DEF SubQueued, SubWritten, Has
    <3>5. AuthRequired /\ (SubWritten(y) \/ SubQueued(y)) => y.ackGen = y.generation
      <4>1. SubWritten(y) \/ SubQueued(y) => SubWritten(v) \/ SubQueued(v)
        BY <2>14 DEF SameMembers, SubQueued
      <4>2. SubWritten(v) \/ SubQueued(v) => LetIn(up)
        BY <2>12, <3>4 DEF Sent
      <4>3. up.authenticated = x.authenticated
        BY <2>1, <2>6, <2>9 DEF SameMembers
      <4>4. QED
        BY <2>16, <4>1, <4>2, <4>3 DEF LetIn, Stages
    <3>6. QED
      BY <2>15, <2>16, <3>1, <3>2, <3>3, <3>5 DEF Single, Alone, Served
  <2>20. Later(x, y)
    BY <1>4, <2>1, <2>16, DelayOK DEF Later, SameMembers
  <2>21. QED
    BY <2>2, <2>14, <2>18, <2>19, <2>20 DEF After, Gains
<1>5. QED
  BY <1>0, <1>1, <1>2, <1>3, <1>4

\* Sending keeps what holds between two handlers.
LEMMA SentKeeps ==
  ASSUME NEW x, NEW y, WellFormed(x), Stages(x), Sent(x, y),
         ~x.connected => y = x
  PROVE  /\ WellFormed(y) /\ Stages(y)
         /\ Alone(x) => Alone(y)
         /\ Served(x) => Served(y)
         /\ NoStuck(x) => NoStuck(y)
<1>1. /\ Chain \in Classes /\ Reads \in Classes /\ Writes \in Classes
      /\ Pings \in Classes /\ Waits \in Classes
      /\ Reads # Writes /\ Chain # Writes /\ Waits # Writes /\ Writes # Pings
  BY DEF Classes, Chain, Waits, Writes, Reads, Pings
<1>2. CASE x.connected
  <2>1. ~Has(y, Chain)
    BY <1>1, <1>2 DEF Stages, Sent
  <2>2. Stages(y)
    BY <1>1, <1>2, <2>1 DEF Stages, Sent
  <2>3. ASSUME Alone(x) PROVE Alone(y)
    <3>1. x.generation # 0
      BY <1>2, <2>3 DEF Alone
    <3>2. OneStart(y) /\ (Starts(y) # {} => y.generation = 0)
      BY <2>3 DEF Sent, Alone, OneStart
    <3>3. AuthRequired /\ (SubWritten(y) \/ SubQueued(y)) => y.ackGen = y.generation
      BY <2>3 DEF Sent, Alone, LetIn, Stages
    <3>4. QED
      BY <1>1, <1>2, <2>3, <3>1, <3>2, <3>3 DEF Sent, Alone
  <2>4. Served(x) => Served(y)
    BY <1>1 DEF Sent, Served
  <2>5. QED
    BY <2>2, <2>3, <2>4 DEF Sent
<1>3. CASE ~x.connected
  BY <1>3
<1>4. QED
  BY <1>2, <1>3

\* A message was handled: the next one is read if the connection is still up.
ReadNext(v) ==
  IF v.reconnectScheduled \/ ~v.connected THEN v
  ELSE AsyncRead([v EXCEPT !.reconnectDelayS =
                    IF ~AuthRequired \/ v.authenticated THEN 1 ELSE @])

\* Single, but for the read that the handler's end starts again.
Deaf(v) ==
  /\ Alone(v) /\ NoStuck(v)
  /\ v.connected /\ ~v.userClosed => Has(v, Pings)

LEMMA ReadAgainOK ==
  ASSUME NEW x, NEW v, WellFormed(v), Stages(v), ~Has(v, Reads), Later(x, v),
         Single(x) => Deaf(v)
  PROVE  After(x, ReadNext(v))
<1>1. CASE v.reconnectScheduled \/ ~v.connected
  <2>1. Single(x) => ~v.connected
    BY <1>1 DEF Alone, Stages, Deaf
  <2>2. QED
    BY <1>1, <2>1 DEF After, Single, Served, ReadNext, Deaf
<1>2. CASE ~v.reconnectScheduled /\ v.connected
  <2> DEFINE d == IF ~AuthRequired \/ v.authenticated THEN 1 ELSE v.reconnectDelayS
             u == [v EXCEPT !.reconnectDelayS = d]
             y == AsyncRead(u)
  <2>1. v \in Session /\ d \in {1, 2, 4, 8, 16, 30}
    BY DEF WellFormed, Session
  <2> HIDE DEF d
  <2>2. /\ u \in Session /\ u.ops = v.ops /\ u.strand = v.strand
        /\ u.generation = v.generation /\ u.connected = v.connected
        /\ u.authenticated = v.authenticated /\ u.userClosed = v.userClosed
        /\ u.reconnectScheduled = v.reconnectScheduled
        /\ u.writeInFlight = v.writeInFlight /\ u.sockClosed = v.sockClosed
        /\ u.reconnectDelayS = d /\ u.ackGen = v.ackGen
        /\ u.subscriptions = v.subscriptions /\ u.pendingTopics = v.pendingTopics
        /\ u.outboundQueue = v.outboundQueue
    BY <2>1 DEF Session
  <2> HIDE DEF u
  <2>3. Still(v, u)
    BY <2>2, StillOK
  <2>4. /\ Chain \in Classes /\ Reads \in Classes /\ Writes \in Classes
        /\ Pings \in Classes /\ Waits \in Classes
        /\ Reads # Writes /\ Reads # Pings /\ Chain # Reads /\ Waits # Reads
    BY DEF Classes, Chain, Waits, Writes, Reads, Pings
  <2>5. /\ Gains(u, y, Reads) /\ SameMembers(u, y)
        /\ SubWritten(y) => SubWritten(u)
    BY <2>3, <2>4, AsyncReadOK DEF Still
  <2> HIDE DEF y
  <2>6. /\ Has(y, Reads)
        /\ \A K \in Classes : K # Reads => (Has(y, K) <=> Has(v, K))
        /\ LostPing(y) => LostPing(v)
        /\ Broken(y) <=> Broken(v)
        /\ Starts(y) = Starts(v)
        /\ SubWritten(y) => SubWritten(v)
        /\ WellFormed(y)
    BY <2>3, <2>5 DEF Gains, Still
  <2>7. /\ y.generation = v.generation /\ y.connected = v.connected
        /\ y.authenticated = v.authenticated /\ y.userClosed = v.userClosed
        /\ y.reconnectScheduled = v.reconnectScheduled
        /\ y.writeInFlight = v.writeInFlight /\ y.sockClosed = v.sockClosed
        /\ y.reconnectDelayS = d /\ y.ackGen = v.ackGen
        /\ y.subscriptions = v.subscriptions /\ y.pendingTopics = v.pendingTopics
        /\ y.outboundQueue = v.outboundQueue
    BY <2>2, <2>5 DEF SameMembers
  <2>8. ~Has(v, Chain) /\ ~Has(y, Chain)
    BY <1>2, <2>4, <2>6 DEF Stages
  <2>9. Stages(y)
    BY <2>4, <2>6, <2>7, <2>8 DEF Stages, WriteTold
  <2>10. ASSUME Single(x) PROVE Single(y)
    <3>1. v.generation # 0 /\ Alone(v)
      BY <1>2, <2>10 DEF Alone, Deaf
    <3>2. Alone(y)
      BY <2>4, <2>6, <2>7, <3>1 DEF Alone, OneStart, SubQueued
    <3>3. Served(y)
      BY <2>4, <2>6, <2>7, <2>10 DEF Served, Deaf
    <3>4. NoStuck(y)
      BY <2>6, <2>7, <2>10, OpenMeans DEF NoStuck, Deaf
    <3>5. QED
      BY <3>2, <3>3, <3>4 DEF Single
  <2>11. Later(x, y)
    <3>1. AuthRequired /\ d # v.reconnectDelayS => v.ackGen = v.generation
      BY DEF d, Stages
    <3>2. QED
      BY <2>7, <3>1 DEF Later
  <2>12. QED
    BY <1>2, <2>6, <2>9, <2>10, <2>11 DEF After, ReadNext, y, u, d
<1>3. v.connected \in BOOLEAN /\ v.reconnectScheduled \in BOOLEAN
  BY DEF WellFormed, Session
<1>4. QED
  BY <1>1, <1>2, <1>3

LEMMA ReadOK ==
  ASSUME NEW x, NEW z, NEW h, WellFormed(x), Stages(x), Taken(x, z, h),
         h.kind = "read"
  PROVE  After(x, OnRead(z, h))
<1>0. h.kind \in Kinds /\ h.ok \in BOOLEAN
  BY DEF Kinds, Taken, Handler
<1>1. CASE h.gen # z.generation
  BY <1>1, StaleOK DEF OnRead
<1>2. CASE h.gen = z.generation /\ (~h.ok \/ h.what = <<"garbage">>)
  BY <1>2, ErrorOK DEF OnRead
<1>3. CASE h.gen = z.generation /\ h.ok /\ h.what # <<"garbage">>
  <2> DEFINE v == Dispatch(z, h)
  <2>1. /\ WellFormed(z) /\ z \in Session /\ SameMembers(x, z)
        /\ h.gen = x.generation /\ Stages(z) /\ Later(x, z)
        /\ Single(x) => Alone(z)
    BY <1>3, SkipOK DEF Taken, SameMembers, WellFormed
  <2>2. /\ Chain \in Classes /\ Reads \in Classes /\ Writes \in Classes
        /\ Pings \in Classes /\ Waits \in Classes /\ Reads # Writes
        /\ h.kind \in Reads /\ h.kind \notin Pings
    BY DEF Classes, Chain, Waits, Writes, Reads, Pings
  <2>3. ~Has(z, Reads) /\ (Has(z, Pings) <=> Has(x, Pings))
    BY <2>1, <2>2 DEF Taken
  <2>4. NoStuck(x) => NoStuck(z)
    BY <1>3, <2>1, OpenMeans DEF NoStuck, Taken, SameMembers
  <2>5. Single(x) /\ z.connected /\ ~z.userClosed => Has(z, Pings)
    BY <2>1, <2>3 DEF Single, Served, SameMembers
  <2>12. OnRead(z, h) = ReadNext(v)
    BY <1>3 DEF OnRead, ReadNext
  <2>6. CASE h.what = <<"loginOk">>
    <3> DEFINE w == [z EXCEPT !.authenticated = TRUE, !.ackGen = z.generation,
                              !.reconnectDelayS = 1]
    <3>1. v = FlushTopics(w)
      BY <2>6 DEF Dispatch
    <3>2. /\ w \in Session /\ w.ops = z.ops /\ w.strand = z.strand
          /\ w.generation = z.generation /\ w.connected = z.connected
          /\ w.authenticated /\ w.userClosed = z.userClosed
          /\ w.reconnectScheduled = z.reconnectScheduled
          /\ w.writeInFlight = z.writeInFlight /\ w.sockClosed = z.sockClosed
          /\ w.ackGen = z.generation
          /\ w.subscriptions = z.subscriptions
          /\ w.pendingTopics = z.pendingTopics
          /\ w.outboundQueue = z.outboundQueue
      BY <2>1 DEF Session
    <3> HIDE DEF w
    <3>3. Still(z, w)
      BY <2>1, <3>2, StillOK
    <3>4. WellFormed(w) /\ Stages(w)
      BY <2>1, <2>2, <3>2, <3>3 DEF Stages, Still, WriteTold
    <3>5. /\ Alone(z) => Alone(w)
          /\ NoStuck(z) => NoStuck(w)
      <4>1. Alone(z) => Alone(w)
        <5>1. \A K \in Classes : Has(w, K) <=> Has(z, K)
          BY <3>3 DEF Still
        <5>2. Starts(w) = Starts(z) /\ (SubWritten(w) <=> SubWritten(z))
          BY <3>3 DEF Still
        <5>3. SubQueued(w) <=> SubQueued(z)
          BY <3>2 DEF SubQueued
        <5>4. QED
          BY <2>2, <3>2, <5>1, <5>2, <5>3 DEF Alone, OneStart
      <4>2. NoStuck(z) => NoStuck(w)
        BY <3>2, <3>3, OpenMeans DEF NoStuck, Still
      <4>3. QED
        BY <4>1, <4>2
    <3>6. Sent(w, v) /\ (~w.connected => v = w)
      BY <3>1, <3>4, FlushOK DEF Stages
    <3> HIDE DEF v
    <3>7. /\ WellFormed(v) /\ Stages(v)
          /\ Alone(w) => Alone(v)
          /\ NoStuck(w) => NoStuck(v)
      BY <3>4, <3>6, SentKeeps
    <3>8. ~Has(v, Reads) /\ (Has(v, Pings) <=> Has(z, Pings))
      BY <2>2, <2>3, <3>3, <3>6 DEF Sent, Still, Writes, Pings
    <3>9. /\ v.connected = z.connected /\ v.userClosed = z.userClosed
          /\ v.generation = z.generation /\ v.ackGen = v.generation
      BY <3>2, <3>6 DEF Sent
    <3>10. Later(x, v)
      BY <2>1, <3>9 DEF Later, SameMembers
    <3>11. Single(x) => Deaf(v)
      BY <2>1, <2>4, <2>5, <3>5, <3>7, <3>8, <3>9 DEF Single, Deaf
    <3>12. QED
      <4>1. WellFormed(v) /\ Stages(v) /\ ~Has(v, Reads)
        BY <3>7, <3>8
      <4>2. After(x, ReadNext(v))
        BY <4>1, <3>10, <3>11, ReadAgainOK
      <4>3. QED
        BY <2>12, <4>2
  <2>7. CASE h.what = <<"loginFail">> /\ v # z
    <3>1. v = HandleError(z, h.gen)
      BY <2>7 DEF Dispatch
    <3>2. After(x, v)
      BY <1>3, <3>1, ErrorOK
    <3>3. TornDown(z, v)
      BY <2>1, <2>7, <3>1, HandleErrorOK DEF Stages
    <3>4. OnRead(z, h) = v
      BY <1>3, <3>3 DEF OnRead, TornDown
    <3>5. QED
      BY <3>2, <3>4
  <2>8. CASE v = z
    <3>1. QED
      BY <2>1, <2>3, <2>4, <2>5, <2>8, <2>12, ReadAgainOK DEF Single, Deaf
  <2>9. h.what # <<"loginOk">> /\ h.what # <<"loginFail">> => v = z
    BY DEF Dispatch
  <2>10. QED
    BY <2>6, <2>7, <2>8, <2>9
<1>4. QED
  BY <1>0, <1>1, <1>2, <1>3

LEMMA WriteOK ==
  ASSUME NEW x, NEW z, NEW h, WellFormed(x), Stages(x), Taken(x, z, h),
         h.kind = "write"
  PROVE  After(x, OnWrite(z, h))
<1>0. h.kind \in Kinds /\ h.ok \in BOOLEAN
  BY DEF Kinds, Taken, Handler
<1>1. CASE h.gen # z.generation
  BY <1>1, StaleOK DEF OnWrite
<1>2. CASE h.gen = z.generation
  <2> DEFINE w == [z EXCEPT !.writeInFlight = FALSE]
             y == IF h.ok THEN Pump(w) ELSE HandleError(w, h.gen)
  <2>1. /\ WellFormed(z) /\ z \in Session /\ SameMembers(x, z)
        /\ h.gen = x.generation
    BY <1>2 DEF Taken, SameMembers, WellFormed
  <2>2. OnWrite(z, h) = y
    BY <1>2 DEF OnWrite
  <2>3. /\ Chain \in Classes /\ Reads \in Classes /\ Writes \in Classes
        /\ Pings \in Classes /\ Waits \in Classes
        /\ Reads # Writes /\ Chain # Writes /\ Waits # Writes /\ Writes # Pings
        /\ h.kind \in Writes /\ h.kind \notin Chain /\ h.kind \notin Reads
        /\ h.kind \notin Pings /\ h.kind \notin Waits
    BY DEF Classes, Chain, Waits, Writes, Reads, Pings
  <2>4. /\ w \in Session /\ w.ops = z.ops /\ w.strand = z.strand
        /\ w.generation = z.generation /\ w.connected = z.connected
        /\ w.authenticated = z.authenticated /\ w.userClosed = z.userClosed
        /\ w.reconnectScheduled = z.reconnectScheduled
        /\ ~w.writeInFlight /\ w.sockClosed = z.sockClosed
        /\ w.reconnectDelayS = z.reconnectDelayS /\ w.ackGen = z.ackGen
        /\ w.subscriptions = z.subscriptions
        /\ w.pendingTopics = z.pendingTopics
        /\ w.outboundQueue = z.outboundQueue
    BY <2>1 DEF Session
  <2> HIDE DEF w
  <2>5. Still(z, w)
    BY <2>1, <2>4, StillOK
  <2>6. /\ Has(x, Writes) /\ ~Has(w, Writes)
        /\ \A K \in Classes : K # Writes => (Has(w, K) <=> Has(x, K))
    <3>1. Has(x, Writes) /\ ~Has(z, Writes)
      BY <2>1, <2>3 DEF Taken
    <3>2. \A K \in Classes : K # Writes => h.kind \notin K
      BY <2>3 DEF Classes
    <3>3. QED
      BY <2>3, <2>5, <3>1, <3>2 DEF Taken, Still
  <2>7. WellFormed(w) /\ WriteTold(w) /\ ~Has(w, Chain) /\ ~Has(x, Chain)
    BY <2>3, <2>4, <2>5, <2>6 DEF WriteTold, Stages, Still
  <2>8. Stages(w)
    BY <2>1, <2>3, <2>4, <2>5, <2>6, <2>7 DEF Stages, Still, Taken, SameMembers
  <2>9. Later(x, w)
    BY <2>1, <2>4, DelayOK DEF Later, SameMembers
  <2>10. Single(x) => Alone(w) /\ Served(w) /\ w.generation # 0
    <3>1. Alone(x) => Alone(w)
      BY <2>1, <2>3, <2>4, <2>5, <2>6
         DEF Alone, OneStart, Taken, SameMembers, Still, SubQueued
    <3>2. Served(x) => Served(w)
      BY <2>1, <2>3, <2>4, <2>6 DEF Served, SameMembers
    <3>3. Alone(x) => w.generation # 0
      BY <2>1, <2>3, <2>4, <2>6 DEF Alone, SameMembers
    <3>4. QED
      BY <3>1, <3>2, <3>3 DEF Single
  <2>11. CASE h.ok
    <3>1. /\ Sent(w, y) /\ NoStuck(y)
          /\ ~w.connected => y = w
      BY <2>7, <2>11, PumpOK
    <3> HIDE DEF y
    <3>2. /\ WellFormed(y) /\ Stages(y)
          /\ Alone(w) => Alone(y)
          /\ Served(w) => Served(y)
      BY <2>7, <2>8, <3>1, SentKeeps
    <3>3. Later(x, y)
      BY <2>9, <3>1 DEF Later, Sent
    <3>4. QED
      BY <2>2, <2>10, <3>1, <3>2, <3>3 DEF After, Single
  <2>12. CASE ~h.ok /\ ~(w.reconnectScheduled \/ w.userClosed)
    <3>1. TornDown(w, y)
      BY <1>2, <2>4, <2>7, <2>8, <2>12, HandleErrorOK DEF Stages
    <3> HIDE DEF y
    <3>2. WellFormed(y) /\ Stages(y) /\ (Alone(w) /\ w.generation # 0 => Single(y))
      BY <2>7, <3>1, TornOK DEF Alone
    <3>3. Later(x, y)
      BY <2>1, <2>4, <2>12, <3>1, DelayOK DEF Later, TornDown, SameMembers
    <3>4. QED
      BY <2>2, <2>10, <3>2, <3>3 DEF After
  <2>13. CASE ~h.ok /\ (w.reconnectScheduled \/ w.userClosed)
    <3>1. y = w
      BY <2>13 DEF HandleError
    <3>2. Alone(w) => NoStuck(w)
      BY <2>8, <2>13, OpenMeans DEF NoStuck, Alone, Stages
    <3>3. QED
      BY <2>2, <2>7, <2>8, <2>9, <2>10, <3>1, <3>2 DEF After, Single
  <2>14. QED
    BY <1>0, <2>11, <2>12, <2>13
<1>3. QED
  BY <1>1, <1>2

\* A tick was handled: the next one is waited for.
LEMMA PingAgainOK ==
  ASSUME NEW x, NEW v, WellFormed(v), Stages(v), Later(x, v),
         ~Has(v, Pings), ~Has(v, Chain),
         Single(x) => /\ Alone(v) /\ NoStuck(v) /\ v.generation # 0
                      /\ v.connected /\ ~v.userClosed => Has(v, Reads)
  PROVE  After(x, Arm(v, "ping"))
<1> DEFINE y == Arm(v, "ping")
<1>1. Pings = {"ping"}
  BY DEF Pings
<1>2. /\ Chain \in Classes /\ Reads \in Classes /\ Writes \in Classes
      /\ Pings \in Classes /\ Waits \in Classes
      /\ Pings # Reads /\ Pings # Writes /\ Pings # Chain /\ Pings # Waits
  BY DEF Classes, Chain, Waits, Writes, Reads, Pings
<1>3. /\ Gains(v, y, Pings) /\ SameMembers(v, y)
      /\ SubWritten(y) => SubWritten(v)
  BY <1>1, ArmOK
<1> HIDE DEF y
<1>4. Stages(y)
  BY <1>2, <1>3 DEF Stages, Gains, SameMembers, WriteTold
<1>5. ASSUME Single(x) PROVE Single(y)
  <2>1. Alone(v) /\ v.generation # 0
    BY <1>5
  <2>2. Alone(y)
    BY <1>2, <1>3, <2>1 DEF Alone, OneStart, SubQueued, Gains, SameMembers
  <2>3. Served(y)
    BY <1>2, <1>3, <1>5 DEF Served, Gains, SameMembers
  <2>4. NoStuck(y)
    BY <1>3, <1>5, OpenMeans DEF NoStuck, Gains, SameMembers
  <2>5. QED
    BY <2>2, <2>3, <2>4 DEF Single
<1>6. Later(x, y)
  BY <1>3 DEF Later, SameMembers
<1>7. QED
  BY <1>3, <1>4, <1>5, <1>6 DEF After, Gains, y

LEMMA PingOK ==
  ASSUME NEW x, NEW z, NEW h, WellFormed(x), Stages(x), Taken(x, z, h),
         h.kind = "ping"
  PROVE  After(x, OnPingTimer(z, h))
<1>0. h.ok \in BOOLEAN /\ h.kind \in Kinds
  BY DEF Kinds, Timers, Taken, Handler
<1> DEFINE overdue == \/ h.what = <<"noPong">>
                      \/ h.what = <<"noAck">> /\ AuthRequired /\ ~z.authenticated
<1>1. /\ Chain \in Classes /\ Reads \in Classes /\ Writes \in Classes
      /\ Pings \in Classes /\ Waits \in Classes
      /\ Pings # Reads /\ Pings # Writes /\ Pings # Chain /\ Pings # Waits
      /\ Chain # Writes /\ Reads # Writes
      /\ h.kind \in Pings /\ h.kind \notin Reads /\ h.kind \notin Chain
  BY DEF Classes, Chain, Waits, Writes, Reads, Pings
<1>2. CASE h.gen # z.generation
  BY <1>2, StaleOK DEF OnPingTimer
<1>3. CASE h.gen = z.generation
  <2>1. /\ WellFormed(z) /\ SameMembers(x, z) /\ h.gen = x.generation
        /\ Stages(z) /\ Later(x, z)
        /\ Single(x) => Alone(z)
    BY <1>3, SkipOK DEF Taken, SameMembers
  <2>2. /\ Has(x, Pings) /\ ~Has(z, Pings)
        /\ Has(z, Reads) <=> Has(x, Reads)
        /\ Has(z, Chain) <=> Has(x, Chain)
    BY <1>1, <2>1 DEF Taken
  <2>3. ~Has(x, Chain) /\ ~Has(z, Chain)
    BY <1>1, <2>2 DEF Stages
  <2>4. Single(x) => /\ z.generation # 0
                     /\ z.connected /\ ~z.userClosed => Has(z, Reads)
    BY <1>1, <2>1, <2>2 DEF Single, Alone, Served, SameMembers
  <2>5. Single(x) => NoStuck(z)
    BY <1>3, <2>1, OpenMeans DEF NoStuck, Taken, SameMembers, Single
  <2>6. CASE ~h.ok \/ z.userClosed
    <3>1. ~h.ok => z.userClosed \/ ~z.connected
      BY <2>1 DEF Taken, Stages, SameMembers
    <3>2. After(x, z)
      BY <2>6, <3>1, SkipOK DEF After
    <3>3. QED
      BY <2>6, <3>2 DEF OnPingTimer
  <2>7. CASE h.ok /\ ~z.userClosed /\ ~z.connected
    <3>1. After(x, Arm(z, "ping"))
      BY <2>1, <2>2, <2>3, <2>4, <2>5, PingAgainOK
    <3>2. QED
      BY <1>3, <2>7, <3>1 DEF OnPingTimer
  <2>8. CASE h.ok /\ ~z.userClosed /\ z.connected /\ overdue
    <3>1. OnPingTimer(z, h) = HandleError(z, h.gen)
      BY <1>3, <2>8 DEF OnPingTimer
    <3>2. QED
      BY <1>3, <3>1, ErrorOK
  <2>9. CASE h.ok /\ ~z.userClosed /\ z.connected /\ ~overdue
    <3> DEFINE v == Pump(EnqueueOp(z, Ping))
    <3>1. OnPingTimer(z, h) = Arm(v, "ping")
      BY <1>3, <2>9 DEF OnPingTimer
    <3>2. Sent(z, v) /\ NoStuck(v)
      BY <2>1, <2>9, MessagesOK, EnqueuedOK DEF Stages
    <3> HIDE DEF v
    <3>3. /\ WellFormed(v) /\ Stages(v)
          /\ Alone(z) => Alone(v)
      BY <2>1, <2>9, <3>2, SentKeeps
    <3>4. /\ ~Has(v, Pings) /\ ~Has(v, Chain)
          /\ Has(v, Reads) <=> Has(z, Reads)
      BY <1>1, <2>2, <2>3, <3>2 DEF Sent
    <3>5. Later(x, v)
      BY <2>1, <3>2 DEF Later, Sent
    <3>6. Single(x) => /\ Alone(v) /\ NoStuck(v) /\ v.generation # 0
                       /\ v.connected /\ ~v.userClosed => Has(v, Reads)
      BY <2>1, <2>4, <3>2, <3>3, <3>4 DEF Sent
    <3>7. QED
      BY <3>1, <3>3, <3>4, <3>5, <3>6, PingAgainOK
  <2>10. QED
    BY <1>0, <2>6, <2>7, <2>8, <2>9
<1>4. QED
  BY <1>2, <1>3

\* A connection is begun: it has its first stage, and nothing of an earlier one.
LEMMA ConnectsOK ==
  ASSUME NEW x, WellFormed(x), ~x.userClosed,
         x.subscriptions \cap x.pendingTopics = {}
  PROVE  /\ WellFormed(StartConnect(x)) /\ Stages(StartConnect(x))
         /\ Starts(x) = {} /\ ~x.reconnectScheduled /\ x.outboundQueue = <<>> =>
              Single(StartConnect(x))
         /\ Later(x, StartConnect(x))
<1> DEFINE y == StartConnect(x)
<1>1. /\ WellFormed(y) /\ Has(y, Chain)
      /\ \A K \in Classes : K # Chain => ~Has(y, K)
      /\ ~LostPing(y) /\ ~SubWritten(y)
      /\ Starts(y) = Starts(x)
      /\ y.generation = x.generation + 1
      /\ ~y.connected /\ ~y.authenticated
      /\ ~y.writeInFlight /\ ~y.userClosed
      /\ y.reconnectScheduled = x.reconnectScheduled
      /\ y.reconnectDelayS = x.reconnectDelayS
      /\ y.ackGen = x.ackGen
      /\ y.subscriptions = x.subscriptions
      /\ y.pendingTopics = x.pendingTopics
      /\ y.outboundQueue = x.outboundQueue
  BY StartConnectOK
<1> HIDE DEF y
<1>2. Waits \in Classes /\ Waits # Chain
  BY DEF Classes, Waits, Chain
<1>3. x.generation \in Nat /\ y.generation # 0 /\ y.generation # x.generation
  BY <1>1, DelayOK
<1>4. Stages(y)
  BY <1>1, <1>2 DEF Stages, WriteTold
<1>5. ASSUME Starts(x) = {}, ~x.reconnectScheduled, x.outboundQueue = <<>>
      PROVE  Single(y)
  <2>1. ~SubQueued(y)
    BY <1>1, <1>5 DEF SubQueued
  <2>2. QED
    BY <1>1, <1>3, <1>5, <2>1 DEF Single, Alone, OneStart, Served, NoStuck
<1>6. Later(x, y)
  BY <1>1, <1>3, DelayOK DEF Later
<1>7. QED
  BY <1>1, <1>4, <1>5, <1>6 DEF y

LEMMA ReconnectOK ==
  ASSUME NEW x, NEW z, NEW h, WellFormed(x), Stages(x), Taken(x, z, h),
         h.kind = "reconnect"
  PROVE  After(x, OnReconnectTimer(z, h))
<1>0. h.ok \in BOOLEAN
  BY DEF Taken, Handler
<1>1. /\ Chain \in Classes /\ Reads \in Classes /\ Writes \in Classes
      /\ Pings \in Classes /\ Waits \in Classes
      /\ Waits # Chain /\ h.kind \in Waits /\ h.kind \in Kinds
      /\ \A K \in Classes : h.kind \in K => K = Waits
  BY DEF Classes, Chain, Waits, Writes, Reads, Pings, Kinds, Timers
<1>2. CASE h.gen # z.generation
  BY <1>2, StaleOK DEF OnReconnectTimer
<1>3. CASE h.gen = z.generation
  <2> DEFINE w == [z EXCEPT !.reconnectScheduled = FALSE]
  <2>1. /\ WellFormed(z) /\ z \in Session /\ SameMembers(x, z)
        /\ h.gen = x.generation /\ Stages(z) /\ Later(x, z)
    BY <1>1, <1>3, SkipOK DEF Taken, SameMembers, WellFormed
  <2>2. /\ Has(x, Waits) /\ ~Has(z, Waits)
        /\ \A K \in Classes : K # Waits => (Has(z, K) <=> Has(x, K))
    BY <1>1, <2>1 DEF Taken
  <2>3. ~z.connected
    BY <2>1, <2>2 DEF Stages, SameMembers
  <2>4. /\ w \in Session /\ w.ops = z.ops /\ w.strand = z.strand
        /\ w.generation = z.generation /\ w.connected = z.connected
        /\ w.authenticated = z.authenticated /\ w.userClosed = z.userClosed
        /\ ~w.reconnectScheduled
        /\ w.writeInFlight = z.writeInFlight /\ w.sockClosed = z.sockClosed
        /\ w.reconnectDelayS = z.reconnectDelayS /\ w.ackGen = z.ackGen
        /\ w.subscriptions = z.subscriptions
        /\ w.pendingTopics = z.pendingTopics
        /\ w.outboundQueue = z.outboundQueue
    BY <2>1 DEF Session
  <2>5. OnReconnectTimer(z, h) = IF h.ok THEN StartConnect(w) ELSE w
    BY <1>3 DEF OnReconnectTimer
  <2> HIDE DEF w
  <2>6. Still(z, w)
    BY <2>1, <2>4, StillOK
  <2>7. WellFormed(w) /\ Stages(w) /\ Later(x, w)
    <3>1. Stages(w)
      BY <1>1, <2>1, <2>2, <2>4, <2>6 DEF Stages, Still, WriteTold
    <3>2. Later(x, w)
      BY <2>1, <2>4 DEF Later
    <3>3. QED
      BY <2>6, <3>1, <3>2 DEF Still
  <2>8. ASSUME Single(x)
        PROVE  /\ Single(w) /\ Starts(w) = {} /\ ~w.reconnectScheduled
               /\ w.outboundQueue = <<>>
    <3>1. /\ x.generation # 0 /\ Starts(x) = {}
          /\ x.outboundQueue = <<>>
          /\ AuthRequired /\ SubWritten(x) => x.ackGen = x.generation
      BY <1>1, <2>1, <2>2, <2>3, <2>8 DEF Single, Alone, SameMembers
    <3>2. /\ Starts(w) = {} /\ w.outboundQueue = <<>>
          /\ SubWritten(w) => SubWritten(x)
          /\ w.generation = x.generation /\ w.ackGen = x.ackGen
          /\ ~w.connected
      BY <2>1, <2>3, <2>4, <2>6, <3>1 DEF Taken, SameMembers, Still
    <3>3. ~SubQueued(w)
      BY <3>2 DEF SubQueued
    <3>4. QED
      BY <2>4, <3>1, <3>2, <3>3 DEF Single, Alone, OneStart, Served, NoStuck
  <2>9. CASE h.ok /\ ~w.userClosed
    <3>1. /\ WellFormed(StartConnect(w)) /\ Stages(StartConnect(w))
          /\ Later(w, StartConnect(w))
          /\ Single(x) => Single(StartConnect(w))
      BY <2>7, <2>8, <2>9, ConnectsOK DEF Stages
    <3> DEFINE y == StartConnect(w)
    <3>2. /\ y.reconnectDelayS = w.reconnectDelayS
          /\ y.generation = w.generation + 1
      BY <2>7, <2>9, StartConnectOK
    <3> HIDE DEF y
    <3>3. Later(x, y)
      <4>1. /\ w.reconnectDelayS = x.reconnectDelayS
            /\ w.generation = x.generation /\ w.userClosed = x.userClosed
        BY <2>1, <2>4 DEF SameMembers
      <4>2. y.generation # x.generation
        BY <3>2, <4>1, DelayOK
      <4>3. QED
        BY <2>9, <3>2, <4>1, <4>2, DelayOK DEF Later
    <3>4. QED
      BY <2>5, <2>9, <3>1, <3>3 DEF After, y
  <2>10. CASE ~(h.ok /\ ~w.userClosed)
    <3>1. OnReconnectTimer(z, h) = w
      BY <2>5, <2>10 DEF StartConnect
    <3>2. QED
      BY <2>7, <2>8, <3>1 DEF After
  <2>11. QED
    BY <2>9, <2>10
<1>4. QED
  BY <1>2, <1>3

-----------------------------------------------------------------------------
(* The tasks that user calls post.                                         *)

LEMMA StartTaskOK ==
  ASSUME NEW x, NEW z, NEW h, WellFormed(x), Stages(x), Taken(x, z, h),
         h.kind = "startConnect"
  PROVE  After(x, StartConnect(z))
<1>1. /\ WellFormed(z) /\ Stages(z) /\ Later(x, z) /\ SameMembers(x, z)
      /\ Single(x) => Single(z)
  BY SkipOK DEF Taken
<1>2. CASE z.userClosed
  BY <1>1, <1>2 DEF StartConnect, After
<1>3. CASE ~z.userClosed
  <2> DEFINE y == StartConnect(z)
  <2>1. Single(x) =>
          Starts(z) = {} /\ ~z.reconnectScheduled /\ z.outboundQueue = <<>>
    BY <1>1 DEF Single, Alone, Taken, SameMembers
  <2>2. WellFormed(y) /\ Stages(y) /\ (Single(x) => Single(y)) /\ Later(z, y)
    BY <1>1, <1>3, <2>1, ConnectsOK DEF Stages
  <2>3. y.reconnectDelayS = z.reconnectDelayS /\ y.generation = z.generation + 1
    BY <1>1, <1>3, StartConnectOK
  <2> HIDE DEF y
  <2>4. /\ z.reconnectDelayS = x.reconnectDelayS
        /\ z.generation = x.generation /\ z.userClosed = x.userClosed
    BY <1>1 DEF SameMembers
  <2>5. y.generation # x.generation
    BY <2>3, <2>4, DelayOK
  <2>6. Later(x, y)
    BY <1>3, <2>3, <2>4, <2>5, DelayOK DEF Later
  <2>7. QED
    BY <2>2, <2>6 DEF After, y
<1>4. QED
  BY <1>2, <1>3

\* After messages were queued and the queue pumped, in a task.
LEMMA SentAfter ==
  ASSUME NEW x, NEW z, NEW y, WellFormed(z), Stages(z), Later(x, z),
         Single(x) => Single(z), Sent(z, y), ~z.connected => y = z
  PROVE  After(x, y)
<1>1. /\ WellFormed(y) /\ Stages(y)
      /\ Alone(z) => Alone(y)
      /\ Served(z) => Served(y)
      /\ NoStuck(z) => NoStuck(y)
  BY SentKeeps
<1>2. Later(x, y)
  BY DEF Later, Sent
<1>3. QED
  BY <1>1, <1>2 DEF After, Single

LEMMA FlushTaskOK ==
  ASSUME NEW x, NEW z, NEW h, WellFormed(x), Stages(x), Taken(x, z, h),
         h.kind = "flushTopics"
  PROVE  After(x, FlushTopics(z))
<1>1. /\ WellFormed(z) /\ Stages(z) /\ Later(x, z)
      /\ Single(x) => Single(z)
  BY SkipOK
<1>2. Sent(z, FlushTopics(z)) /\ (~z.connected => FlushTopics(z) = z)
  BY <1>1, FlushOK DEF Stages
<1>3. QED
  BY <1>1, <1>2, SentAfter

LEMMA UnsubOK ==
  ASSUME NEW x, NEW z, NEW h, WellFormed(x), Stages(x), Taken(x, z, h),
         h.kind = "sendUnsub"
  PROVE  After(x, SendUnsub(z, h.what))
<1>1. /\ WellFormed(z) /\ Stages(z) /\ Later(x, z)
      /\ Single(x) => Single(z)
  BY SkipOK
<1>2. CASE ~z.connected
  BY <1>1, <1>2 DEF SendUnsub, After
<1>3. CASE z.connected
  <2> DEFINE y == Pump(EnqueueOp(z, h.what))
  <2>1. h.what \in Unsubs
    BY DEF Taken, Sound
  <2>2. h.what \in Messages /\ h.what \notin Subs
    BY <2>1, MessagesOK
  <2>3. Sent(z, y)
    BY <1>1, <1>3, <2>2, EnqueuedOK DEF Stages
  <2>4. SendUnsub(z, h.what) = y
    BY <1>3 DEF SendUnsub
  <2> HIDE DEF y
  <2>5. QED
    BY <1>1, <1>3, <2>3, <2>4, SentAfter
<1>4. QED
  BY <1>2, <1>3

LEMMA CloseOK ==
  ASSUME NEW x, NEW z, NEW h, WellFormed(x), Stages(x), Taken(x, z, h),
         h.kind = "closeByUser"
  PROVE  After(x, CloseByUser(z))
<1>1. /\ WellFormed(z) /\ Stages(z) /\ Later(x, z)
      /\ Single(x) => Single(z)
  BY SkipOK
<1>2. CASE z.userClosed
  BY <1>1, <1>2 DEF CloseByUser, After
<1>3. CASE ~z.userClosed
  <2> DEFINE a == Cancel(z, "ping")
             b == Cancel(a, "reconnect")
             c == Cancel(b, "resolve")
             closed == c.sockClosed \/ ~(z.connected /\ IsOpen(z) /\ ~z.writeInFlight)
             y == [c EXCEPT !.userClosed = TRUE, !.sockClosed = closed]
  <2>1. CloseByUser(z) = y
    BY <1>3 DEF CloseByUser
  <2>2. /\ WellFormed(a) /\ SameMembers(z, a)
        /\ \A K \in Classes : Has(a, K) <=> Has(z, K)
        /\ Starts(a) = Starts(z) /\ (SubWritten(a) => SubWritten(z))
    BY <1>1, CancelOK
  <2> HIDE DEF a
  <2>3. /\ WellFormed(b) /\ SameMembers(a, b)
        /\ \A K \in Classes : Has(b, K) <=> Has(a, K)
        /\ Starts(b) = Starts(a) /\ (SubWritten(b) => SubWritten(a))
    BY <2>2, CancelOK
  <2> HIDE DEF b
  <2>4. /\ WellFormed(c) /\ SameMembers(b, c)
        /\ \A K \in Classes : Has(c, K) <=> Has(b, K)
        /\ Starts(c) = Starts(b) /\ (SubWritten(c) => SubWritten(b))
    BY <2>3, CancelOK
  <2> HIDE DEF c
  <2>5. /\ SameMembers(z, c)
        /\ \A K \in Classes : Has(c, K) <=> Has(z, K)
        /\ Starts(c) = Starts(z) /\ (SubWritten(c) => SubWritten(z))
    BY <2>2, <2>3, <2>4 DEF SameMembers
  <2>6. c \in Session /\ closed \in BOOLEAN
    BY <2>4 DEF WellFormed, Session
  <2> HIDE DEF closed
  <2>7. /\ y \in Session /\ y.ops = c.ops /\ y.strand = c.strand
        /\ y.generation = c.generation /\ y.connected = c.connected
        /\ y.authenticated = c.authenticated /\ y.userClosed
        /\ y.reconnectScheduled = c.reconnectScheduled
        /\ y.writeInFlight = c.writeInFlight
        /\ y.reconnectDelayS = c.reconnectDelayS /\ y.ackGen = c.ackGen
        /\ y.subscriptions = c.subscriptions
        /\ y.pendingTopics = c.pendingTopics
        /\ y.outboundQueue = c.outboundQueue
    BY <2>6 DEF Session
  <2> HIDE DEF y
  <2>8. Still(c, y)
    BY <2>4, <2>7, StillOK
  <2>9. /\ WellFormed(y)
        /\ \A K \in Classes : Has(y, K) <=> Has(z, K)
        /\ Starts(y) = Starts(z) /\ (SubWritten(y) => SubWritten(z))
    BY <2>5, <2>8 DEF Still
  <2>10. /\ y.generation = z.generation /\ y.connected = z.connected
         /\ y.authenticated = z.authenticated /\ y.userClosed
         /\ y.reconnectScheduled = z.reconnectScheduled
         /\ y.writeInFlight = z.writeInFlight
         /\ y.reconnectDelayS = z.reconnectDelayS /\ y.ackGen = z.ackGen
         /\ y.subscriptions = z.subscriptions
         /\ y.pendingTopics = z.pendingTopics
         /\ y.outboundQueue = z.outboundQueue
    BY <2>5, <2>7 DEF SameMembers
  <2>11. Stages(y)
    <3>1. Chain \in Classes /\ Writes \in Classes /\ Waits \in Classes
      BY DEF Classes
    <3>2. QED
      BY <1>1, <2>9, <2>10, <3>1 DEF Stages, WriteTold
  <2>12. Single(z) => Single(y)
    <3>1. Waits \in Classes /\ (SubQueued(y) <=> SubQueued(z))
      BY <2>10 DEF Classes, SubQueued
    <3>2. Alone(z) => Alone(y)
      BY <2>9, <2>10, <3>1 DEF Alone, OneStart
    <3>3. QED
      BY <2>10, <3>2, OpenMeans DEF Single, Served, NoStuck
  <2>13. Later(x, y)
    BY <1>1, <2>10 DEF Later
  <2>14. QED
    BY <1>1, <2>1, <2>9, <2>11, <2>12, <2>13 DEF After
<1>4. QED
  BY <1>2, <1>3

\* A handler of the strand, whatever it is, runs whole.
LEMMA HandleOK ==
  ASSUME NEW x, NEW z, NEW h, WellFormed(x), Stages(x), Taken(x, z, h)
  PROVE  After(x, Handle(z, h))
<1>1. h.kind \in Kinds \cup TaskKinds
  BY DEF Taken, Handler
<1>2. DOMAIN NextStage = {"resolve", "connect", "tls"}
  BY DEF NextStage
<1>3. CASE h.kind \in DOMAIN NextStage
  BY <1>2, <1>3, StageOK DEF Handle
<1>4. CASE h.kind = "handshake"
  BY <1>2, <1>4, HandshakeOK DEF Handle
<1>5. CASE h.kind = "read"
  BY <1>2, <1>5, ReadOK DEF Handle
<1>6. CASE h.kind = "write"
  BY <1>2, <1>6, WriteOK DEF Handle
<1>7. CASE h.kind = "ping"
  BY <1>2, <1>7, PingOK DEF Handle
<1>8. CASE h.kind = "reconnect"
  BY <1>2, <1>8, ReconnectOK DEF Handle
<1>9. CASE h.kind = "startConnect"
  BY <1>2, <1>9, StartTaskOK DEF Handle
<1>10. CASE h.kind = "flushTopics"
  BY <1>2, <1>10, FlushTaskOK DEF Handle
<1>11. CASE h.kind = "sendUnsub"
  BY <1>2, <1>11, UnsubOK DEF Handle
<1>12. CASE h.kind = "closeByUser"
  BY <1>2, <1>12, CloseOK DEF Handle
<1>13. QED
  BY <1>1, <1>2, <1>3, <1>4, <1>5, <1>6, <1>7, <1>8, <1>9, <1>10, <1>11, <1>12
     DEF Kinds, TaskKinds, Timers

-----------------------------------------------------------------------------
(* The inductive invariant.                                                *)

TasksOK ==
  /\ calling \in Seq(Handler)
  /\ \A i \in 1..Len(calling) :
       /\ calling[i].kind \in TaskKinds /\ Sound(calling[i], s.generation)
       /\ runs = 1 => calling[i].kind # "startConnect"

IInv ==
  /\ WellFormed(s) /\ Stages(s) /\ TasksOK
  /\ dropped \subseteq Topics /\ venueSubs \subseteq Topics
  /\ venueLogin \in {"none", "asked", "answered"}
  /\ runs \in Nat \ {0}
  /\ runs = 1 => Single(s)
  /\ SubsHeldBack

LEMMA TypesOK == IInv /\ acceptedGen \in Nat => TypeOK
BY DEF IInv, TypeOK, WellFormed, Stages, TasksOK

LEMMA InitOK == Init => IInv
<1> SUFFICES ASSUME Init PROVE IInv
  OBVIOUS
<1>1. PICK topics \in {{}} \cup {{t} : t \in Topics} : s = Initially(topics)
  BY DEF Init
<1> DEFINE task == Task("startConnect", Nothing)
<1>2. topics \subseteq Topics
  OBVIOUS
<1>3. task \in Handler /\ task.kind = "startConnect"
  BY MessagesOK DEF Task, Handler, TaskKinds
<1> HIDE DEF task
<1>4. <<task>> \in Seq(Handler)
  BY <1>3
<1>5. <<>> \in Seq(Messages)
  OBVIOUS
<1>6. /\ s.generation = 0 /\ ~s.connected /\ ~s.authenticated
      /\ ~s.reconnectScheduled /\ ~s.userClosed /\ ~s.writeInFlight
      /\ s.reconnectDelayS = 1 /\ s.subscriptions = {}
      /\ s.pendingTopics = topics /\ s.outboundQueue = <<>>
      /\ ~s.sockClosed /\ s.ackGen = 0 /\ s.ops = {} /\ s.strand = <<task>>
  BY <1>1 DEF Initially, task
<1>7. s \in Session
  <2>1. {} \subseteq [kind : Kinds, gen : Nat, what : Payloads]
    OBVIOUS
  <2>2. QED
    BY <1>1, <1>2, <1>4, <1>5, <2>1 DEF Initially, Session, task
<1>8. DOMAIN s.strand = {1} /\ s.strand[1].kind = "startConnect"
  BY <1>3, <1>6
<1>9. "startConnect" \notin Kinds
  BY DEF Kinds, Timers
<1>10. \A K \in Classes : Ops(s, K) = {} /\ Places(s, K) = {}
  <2>1. \A K \in Classes : K \subseteq Kinds
    BY DEF Classes, Kinds, Timers, Chain, Reads, Writes, Pings, Waits
  <2>2. QED
    BY <1>6, <1>8, <1>9, <2>1 DEF Ops, Places
<1>11. WellFormed(s)
  <2>1. IsFiniteSet(s.ops)
    BY <1>6, FS_EmptySet
  <2>2. \A i \in DOMAIN s.strand : Sound(s.strand[i], s.generation)
    BY <1>8, <1>9 DEF Sound
  <2>3. \A K \in Classes : Lone(s, K)
    BY <1>10 DEF Lone
  <2>4. QED
    BY <1>6, <1>7, <2>1, <2>2, <2>3 DEF WellFormed
<1>12. /\ \A K \in Classes : ~Has(s, K)
       /\ Chain \in Classes /\ Waits \in Classes /\ Pings \in Classes
       /\ Writes \in Classes
  BY <1>10 DEF Has, Classes
<1>13. ~LostPing(s) /\ ~SubWritten(s)
  BY <1>10, <1>12 DEF LostPing, SubWritten
<1>14. ~SubQueued(s) /\ OneStart(s)
  BY <1>6, <1>8 DEF SubQueued, OneStart, Starts
<1>15. Stages(s)
  BY <1>6, <1>12, <1>13 DEF Stages, WriteTold
<1>16. Single(s)
  BY <1>6, <1>12, <1>13, <1>14 DEF Single, Alone, Served, NoStuck
<1>17. TasksOK /\ SubsHeldBack
  BY DEF Init, TasksOK, SubsHeldBack
<1>18. QED
  BY <1>11, <1>15, <1>16, <1>17 DEF Init, IInv

\* An operation ends.
LEMMA MovedKeeps ==
  ASSUME NEW x, NEW y, NEW q, WellFormed(x), Stages(x), Moved(x, y, q),
         \A i \in 1..Len(q) : q[i].kind = "ping" => q[i].ok
  PROVE  After(x, y)
<1>1. /\ Chain \in Classes /\ Waits \in Classes /\ Pings \in Classes
      /\ Writes \in Classes /\ Reads \in Classes
  BY DEF Classes
<1>2. LostPing(y) => LostPing(x)
  BY DEF Moved
<1>3. Stages(y)
  BY <1>1, <1>2 DEF Stages, Moved, SameMembers, WriteTold
<1>4. SubQueued(y) <=> SubQueued(x)
  BY DEF SubQueued, Moved, SameMembers
<1>5. Alone(x) => Alone(y)
  BY <1>1, <1>4 DEF Alone, OneStart, Moved, SameMembers
<1>6. Served(x) => Served(y)
  BY <1>1 DEF Served, Moved, SameMembers
<1>7. NoStuck(x) => NoStuck(y)
  BY OpenMeans DEF NoStuck, Moved, SameMembers
<1>8. Later(x, y)
  BY DelayOK DEF Later, Moved, SameMembers
<1>9. QED
  BY <1>3, <1>5, <1>6, <1>7, <1>8 DEF After, Single, Moved

LEMMA CompletionOK ==
  ASSUME IInv, NEW op \in s.ops, NEW ok \in BOOLEAN, NEW what \in Payloads,
         Completes(op, ok, what), op.kind = "ping" => ok
  PROVE  After(s, s') /\ SameMembers(s, s')
<1> DEFINE q == <<Ready(op, ok, what)>>
<1>1. Moved(s, s', q)
  BY CompletesOK DEF IInv, Completes
<1>2. \A i \in 1..Len(q) : q[i].kind = "ping" => q[i].ok
  BY DEF Ready
<1> HIDE DEF q
<1>3. QED
  BY <1>1, <1>2, MovedKeeps DEF IInv, Moved

\* What an operation, a handler or a call leaves to check of the invariant.
LEMMA KeptOK ==
  ASSUME IInv, After(s, s'), UNCHANGED <<calling, dropped, runs>>,
         s'.generation = s.generation, s'.ackGen = s.ackGen,
         venueSubs' \subseteq Topics, venueLogin' \in {"none", "asked", "answered"},
         runs = 1 /\ AuthRequired /\ venueSubs' # {} => s.ackGen = s.generation
  PROVE  IInv' /\ Later(s, s')
<1>1. WellFormed(s') /\ Stages(s') /\ Later(s, s') /\ (Single(s) => Single(s'))
  BY DEF After
<1>2. TasksOK'
  BY DEF IInv, TasksOK, Sound
<1>3. SubsHeldBack'
  BY DEF SubsHeldBack
<1>4. QED
  BY <1>1, <1>2, <1>3 DEF IInv

-----------------------------------------------------------------------------
(* Every step keeps it.                                                    *)

LEMMA RunStrandOK ==
  ASSUME IInv, RunStrand
  PROVE  IInv' /\ Later(s, s')
<1> DEFINE h == Head(s.strand)
           z == [s EXCEPT !.strand = Tail(@)]
           over == s'.generation # s.generation \/ s'.sockClosed
<1>1. WellFormed(s) /\ Stages(s)
  BY DEF IInv
<1>2. Taken(s, z, h)
  BY <1>1, TakeOK DEF RunStrand
<1>3. s' = Handle(z, h)
  BY DEF RunStrand
<1> HIDE DEF z, h
<1>4. After(s, s')
  BY <1>1, <1>2, <1>3, HandleOK
<1>5. WellFormed(s') /\ Stages(s') /\ Later(s, s') /\ (Single(s) => Single(s'))
  BY <1>4 DEF After
<1>6. /\ venueSubs' = (IF over THEN {} ELSE venueSubs)
      /\ venueLogin' = (IF over THEN "none" ELSE venueLogin)
      /\ UNCHANGED <<calling, dropped, runs>>
  BY DEF RunStrand, bounds
<1>7. TasksOK'
  <2>1. \A k \in TaskKinds : k \notin Kinds
    BY DEF TaskKinds, Kinds, Timers
  <2>2. QED
    BY <1>6, <2>1 DEF TasksOK, IInv, Sound
<1>8. SubsHeldBack'
  BY <1>5, <1>6 DEF SubsHeldBack, IInv, Later
<1>9. QED
  BY <1>5, <1>6, <1>7, <1>8 DEF IInv

\* What a step of the network, the venue or a timer leaves to check.
LEMMA EndedOK ==
  ASSUME IInv, NEW op \in s.ops, NEW ok \in BOOLEAN, NEW what \in Payloads,
         Completes(op, ok, what), op.kind = "ping" => ok,
         UNCHANGED <<calling, dropped, runs>>,
         venueSubs' \subseteq Topics, venueLogin' \in {"none", "asked", "answered"},
         \/ venueSubs' = venueSubs
         \/ runs = 1 /\ AuthRequired /\ venueSubs' # {} => s.ackGen = s.generation
  PROVE  IInv' /\ Later(s, s')
<1>1. After(s, s') /\ SameMembers(s, s')
  BY CompletionOK
<1>2. s'.generation = s.generation /\ s'.ackGen = s.ackGen
  BY <1>1 DEF SameMembers
<1>3. runs = 1 /\ AuthRequired /\ venueSubs' # {} => s.ackGen = s.generation
  BY DEF IInv, SubsHeldBack
<1>4. QED
  BY <1>1, <1>2, <1>3, KeptOK

LEMMA OpOK ==
  ASSUME IInv, NEW op \in s.ops,
         \/ Progress(op) \/ LoginAnswered(op) \/ ReadSucceeds(op) \/ PingTick(op)
  PROVE  IInv' /\ Later(s, s')
<1>1. Nothing \in Payloads
  BY MessagesOK
<1>2. \A what \in {<<"loginOk">>, <<"loginFail">>, <<"data">>, <<"garbage">>,
                   <<"onTime">>, <<"noPong">>, <<"noAck">>} : what \in Payloads
  BY DEF Payloads
<1>3. venueSubs \subseteq Topics /\ venueLogin \in {"none", "asked", "answered"}
  BY DEF IInv
<1>4. CASE OpFails(op)
  <2>1. /\ Completes(op, FALSE, Nothing) /\ op.kind # "ping"
        /\ UNCHANGED <<calling, dropped, venueSubs, venueLogin, runs>>
    BY <1>4 DEF OpFails, Timers
  <2>2. QED
    BY <1>1, <1>3, <2>1, EndedOK
<1>5. CASE StageSucceeds(op)
  <2>1. /\ Completes(op, TRUE, Nothing)
        /\ UNCHANGED <<calling, dropped, venueSubs, venueLogin, runs>>
    BY <1>5 DEF StageSucceeds, bounds
  <2>2. QED
    BY <1>1, <1>3, <2>1, EndedOK
<1>6. CASE WriteSucceeds(op)
  <2>1. /\ Completes(op, TRUE, Nothing) /\ op.kind = "write"
        /\ op.gen = s.generation
        /\ UNCHANGED <<calling, dropped, runs>>
        /\ venueSubs' \subseteq Topics
        /\ venueLogin' \in {"none", "asked", "answered"}
    BY <1>3, <1>6 DEF WriteSucceeds, bounds, Alive
  <2>2. \A t \in venueSubs' : t \in venueSubs \/ op.what = Sub(t)
    BY <1>6 DEF WriteSucceeds
  <2>3. ASSUME runs = 1, AuthRequired, venueSubs' # {}
        PROVE  s.ackGen = s.generation
    <3>1. CASE venueSubs # {}
      BY <2>3, <3>1 DEF IInv, SubsHeldBack
    <3>2. CASE venueSubs = {}
      <4>1. op.what \in Subs
        BY <2>1, <2>2, <2>3, <3>2 DEF Subs
      <4>2. op \in Ops(s, Writes)
        BY <2>1 DEF Ops, Writes
      <4>3. QED
        BY <2>3, <4>1, <4>2 DEF IInv, Single, Alone, SubWritten
    <3>3. QED
      BY <3>1, <3>2
  <2>4. QED
    BY <1>1, <2>1, <2>3, EndedOK
<1>7. CASE ReconnectTick(op)
  <2>1. /\ Completes(op, TRUE, Nothing)
        /\ UNCHANGED <<calling, dropped, venueSubs, venueLogin, runs>>
    BY <1>7 DEF ReconnectTick, bounds
  <2>2. QED
    BY <1>1, <1>3, <2>1, EndedOK
<1>8. CASE LoginAnswered(op)
  <2>1. PICK what \in {<<"loginOk">>, <<"loginFail">>} : Completes(op, TRUE, what)
    BY <1>8 DEF LoginAnswered
  <2>2. /\ UNCHANGED <<calling, dropped, venueSubs, runs>>
        /\ venueLogin' = "answered"
    BY <1>8 DEF LoginAnswered
  <2>3. QED
    BY <1>2, <1>3, <2>1, <2>2, EndedOK
<1>9. CASE ReadSucceeds(op)
  <2>1. PICK what \in {<<"data">>, <<"garbage">>} : Completes(op, TRUE, what)
    BY <1>9 DEF ReadSucceeds
  <2>2. UNCHANGED <<calling, dropped, venueSubs, venueLogin, runs>>
    BY <1>9 DEF ReadSucceeds
  <2>3. QED
    BY <1>2, <1>3, <2>1, <2>2, EndedOK
<1>10. CASE PingTick(op)
  <2>1. PICK what \in {<<"onTime">>, <<"noPong">>, <<"noAck">>} :
          Completes(op, TRUE, what)
    BY <1>10 DEF PingTick
  <2>2. UNCHANGED <<calling, dropped, venueSubs, venueLogin, runs>>
    BY <1>10 DEF PingTick
  <2>3. QED
    BY <1>2, <1>3, <2>1, <2>2, EndedOK
<1>11. QED
  BY <1>4, <1>5, <1>6, <1>7, <1>8, <1>9, <1>10 DEF Progress

\* The topic lists change, and nothing else of the session.
WithLists(x, subscribed, pending) ==
  [x EXCEPT !.pendingTopics = pending, !.subscriptions = subscribed]

LEMMA ListsOK ==
  ASSUME NEW x, WellFormed(x), Stages(x),
         NEW subscribed \in SUBSET Topics, NEW pending \in SUBSET Topics,
         subscribed \cap pending = {}
  PROVE  /\ After(x, WithLists(x, subscribed, pending))
         /\ WithLists(x, subscribed, pending).generation = x.generation
         /\ WithLists(x, subscribed, pending).ackGen = x.ackGen
<1> DEFINE y == WithLists(x, subscribed, pending)
<1>1. x \in Session
  BY DEF WellFormed
<1>2. /\ y \in Session /\ y.ops = x.ops /\ y.strand = x.strand
      /\ y.generation = x.generation /\ y.connected = x.connected
      /\ y.authenticated = x.authenticated /\ y.userClosed = x.userClosed
      /\ y.reconnectScheduled = x.reconnectScheduled
      /\ y.writeInFlight = x.writeInFlight
      /\ y.sockClosed = x.sockClosed
      /\ y.reconnectDelayS = x.reconnectDelayS /\ y.ackGen = x.ackGen
      /\ y.subscriptions = subscribed /\ y.pendingTopics = pending
      /\ y.outboundQueue = x.outboundQueue
  BY <1>1 DEF Session, WithLists
<1> HIDE DEF y
<1>3. Still(x, y)
  BY <1>2, StillOK
<1>4. /\ Chain \in Classes /\ Waits \in Classes /\ Pings \in Classes
      /\ Writes \in Classes /\ Reads \in Classes
  BY DEF Classes
<1>5. Stages(y)
  BY <1>2, <1>3, <1>4 DEF Stages, Still, WriteTold
<1>6. Single(x) => Single(y)
  <2>1. SubQueued(y) <=> SubQueued(x)
    BY <1>2 DEF SubQueued
  <2>2. Alone(x) => Alone(y)
    BY <1>2, <1>3, <1>4, <2>1 DEF Alone, OneStart, Still
  <2>3. Served(x) => Served(y)
    BY <1>2, <1>3, <1>4 DEF Served, Still
  <2>4. NoStuck(x) => NoStuck(y)
    BY <1>2, <1>3, OpenMeans DEF NoStuck, Still
  <2>5. QED
    BY <2>2, <2>3, <2>4 DEF Single
<1>7. Later(x, y)
  BY <1>2, DelayOK DEF Later
<1>8. QED
  BY <1>2, <1>3, <1>5, <1>6, <1>7 DEF After, Still, y

LEMMA TaskFacts ==
  /\ \A k \in TaskKinds : k \notin Kinds
  /\ Task("startConnect", Nothing) \in Handler
  /\ Task("flushTopics", Nothing) \in Handler
  /\ Task("closeByUser", Nothing) \in Handler
  /\ \A t \in Topics : Task("sendUnsub", Unsub(t)) \in Handler
  /\ \A k, what : Task(k, what).kind = k /\ Task(k, what).what = what
<1>1. \A k \in TaskKinds : k \notin Kinds
  BY DEF TaskKinds, Kinds, Timers
<1>2. Nothing \in Payloads /\ \A t \in Topics : Unsub(t) \in Payloads
  BY MessagesOK DEF Unsubs
<1>3. QED
  BY <1>1, <1>2 DEF Task, Handler, TaskKinds

\* A call leaves its task to be posted.
LEMMA CallingOK ==
  ASSUME IInv, After(s, s'), s'.generation = s.generation, s'.ackGen = s.ackGen,
         NEW k \in TaskKinds, NEW what, Task(k, what) \in Handler,
         calling' = <<Task(k, what)>>, k = "sendUnsub" => what \in Unsubs,
         k = "startConnect" => runs' # 1,
         dropped' \subseteq Topics, UNCHANGED <<venueSubs, venueLogin>>,
         runs' \in Nat \ {0}, runs' = 1 => runs = 1
  PROVE  IInv' /\ Later(s, s')
<1>1. WellFormed(s') /\ Stages(s') /\ Later(s, s') /\ (Single(s) => Single(s'))
  BY DEF After
<1>2. TasksOK'
  <2>1. calling' \in Seq(Handler) /\ Len(calling') = 1 /\ calling'[1] = Task(k, what)
    OBVIOUS
  <2>2. Sound(Task(k, what), s'.generation)
    BY TaskFacts DEF Sound
  <2>3. QED
    BY <2>1, <2>2, TaskFacts DEF TasksOK
<1>3. SubsHeldBack'
  BY DEF IInv, SubsHeldBack
<1>4. QED
  BY <1>1, <1>2, <1>3 DEF IInv

LEMMA SubscribeOK ==
  ASSUME IInv, NEW t \in Topics, Subscribe(t)
  PROVE  IInv' /\ Later(s, s')
<1> DEFINE pending == IF t \in s.subscriptions THEN s.pendingTopics
                      ELSE s.pendingTopics \cup {t}
<1>1. /\ WellFormed(s) /\ Stages(s) /\ s \in Session
      /\ s.subscriptions \cap s.pendingTopics = {}
  BY DEF IInv, WellFormed, Stages
<1>2. /\ s.subscriptions \in SUBSET Topics /\ pending \in SUBSET Topics
      /\ s.subscriptions \cap pending = {}
  BY <1>1 DEF Session
<1>3. s' = WithLists(s, s.subscriptions, pending)
  BY <1>1 DEF Subscribe, AddTopic, Session, WithLists
<1> HIDE DEF pending
<1>4. After(s, s') /\ s'.generation = s.generation /\ s'.ackGen = s.ackGen
  BY <1>1, <1>2, <1>3, ListsOK
<1>5. "flushTopics" \in TaskKinds
  BY DEF TaskKinds
<1>6. /\ calling' = <<Task("flushTopics", Nothing)>>
      /\ UNCHANGED <<dropped, venueSubs, venueLogin, runs>>
      /\ dropped \subseteq Topics /\ runs \in Nat \ {0}
  BY DEF Subscribe, IInv
<1>7. QED
  BY <1>4, <1>5, <1>6, CallingOK, TaskFacts

LEMMA UnsubscribeOK ==
  ASSUME IInv, NEW t \in Topics, Unsubscribe(t)
  PROVE  IInv' /\ Later(s, s')
<1>1. /\ WellFormed(s) /\ Stages(s) /\ s \in Session
      /\ s.subscriptions \cap s.pendingTopics = {}
  BY DEF IInv, WellFormed, Stages
<1>2. /\ s.subscriptions \ {t} \in SUBSET Topics
      /\ s.pendingTopics \ {t} \in SUBSET Topics
      /\ (s.subscriptions \ {t}) \cap (s.pendingTopics \ {t}) = {}
  BY <1>1 DEF Session
<1>3. s' = WithLists(s, s.subscriptions \ {t}, s.pendingTopics \ {t})
  BY DEF Unsubscribe, RemoveTopic, WithLists
<1>4. After(s, s') /\ s'.generation = s.generation /\ s'.ackGen = s.ackGen
  BY <1>1, <1>2, <1>3, ListsOK
<1>5. /\ UNCHANGED <<venueSubs, venueLogin, runs>>
      /\ dropped' \subseteq Topics /\ runs \in Nat \ {0}
  BY DEF Unsubscribe, IInv
<1>6. CASE t \in s.subscriptions
  <2>1. calling' = <<Task("sendUnsub", Unsub(t))>> /\ Unsub(t) \in Unsubs
    BY <1>6 DEF Unsubscribe, Unsubs
  <2>2. "sendUnsub" \in TaskKinds
    BY DEF TaskKinds
  <2>3. QED
    BY <1>4, <1>5, <2>1, <2>2, CallingOK, TaskFacts
<1>7. CASE t \notin s.subscriptions
  <2>1. calling' = <<>>
    BY <1>7 DEF Unsubscribe
  <2>2. TasksOK'
    BY <2>1 DEF TasksOK
  <2>3. SubsHeldBack'
    BY <1>4, <1>5 DEF IInv, SubsHeldBack
  <2>4. venueSubs \subseteq Topics /\ venueLogin \in {"none", "asked", "answered"}
    BY DEF IInv
  <2>5. QED
    BY <1>4, <1>5, <2>2, <2>3, <2>4 DEF IInv, After
<1>8. QED
  BY <1>6, <1>7

LEMMA AfterSelf ==
  ASSUME NEW x, WellFormed(x), Stages(x)
  PROVE  After(x, x)
BY DelayOK DEF After, Later

LEMMA RunAgainOK ==
  ASSUME IInv, RunAgain
  PROVE  IInv' /\ Later(s, s')
<1>1. s' = s /\ After(s, s)
  BY AfterSelf DEF RunAgain, IInv
<1>2. /\ calling' = <<Task("startConnect", Nothing)>>
      /\ UNCHANGED <<dropped, venueSubs, venueLogin>>
      /\ dropped \subseteq Topics
  BY DEF RunAgain, IInv
<1>3. runs' = runs + 1 /\ runs \in Nat \ {0}
  BY DEF RunAgain, IInv
<1>4. runs' \in Nat \ {0} /\ runs' # 1
  BY <1>3
<1>5. "startConnect" \in TaskKinds /\ "startConnect" # "sendUnsub"
  BY DEF TaskKinds
<1>6. QED
  BY <1>1, <1>2, <1>4, <1>5, CallingOK, TaskFacts

LEMMA CloseCallOK ==
  ASSUME IInv, Close
  PROVE  IInv' /\ Later(s, s')
<1>1. s' = s /\ After(s, s)
  BY AfterSelf DEF Close, IInv
<1>2. /\ calling' = <<Task("closeByUser", Nothing)>>
      /\ UNCHANGED <<dropped, venueSubs, venueLogin, runs>>
      /\ dropped \subseteq Topics /\ runs \in Nat \ {0}
  BY DEF Close, IInv
<1>3. "closeByUser" \in TaskKinds
  BY DEF TaskKinds
<1>4. QED
  BY <1>1, <1>2, <1>3, CallingOK, TaskFacts

LEMMA PostOK ==
  ASSUME IInv, Post
  PROVE  IInv' /\ Later(s, s')
<1>1. /\ WellFormed(s) /\ Stages(s) /\ calling \in Seq(Handler)
      /\ \A i \in 1..Len(calling) :
           /\ calling[i].kind \in TaskKinds /\ Sound(calling[i], s.generation)
           /\ runs = 1 => calling[i].kind # "startConnect"
  BY DEF IInv, TasksOK
<1>2. s' = [s EXCEPT !.strand = @ \o calling]
  BY DEF Post
<1>3. Posted(s, s', calling)
  BY <1>1, <1>2, PostedOK
<1>4. /\ WellFormed(s') /\ SameMembers(s, s')
      /\ \A K \in Classes : Has(s', K) <=> Has(s, K)
      /\ LostPing(s') <=> LostPing(s)
      /\ Broken(s') <=> Broken(s)
      /\ SubWritten(s') <=> SubWritten(s)
      /\ runs = 1 => Starts(s') = Starts(s)
  BY <1>1, <1>3 DEF Posted
<1>5. /\ Chain \in Classes /\ Waits \in Classes /\ Pings \in Classes
      /\ Writes \in Classes /\ Reads \in Classes
  BY DEF Classes
<1>6. Stages(s')
  BY <1>1, <1>4, <1>5 DEF Stages, SameMembers, WriteTold
<1>7. ASSUME runs = 1 PROVE Single(s')
  <2>1. Single(s) /\ Starts(s') = Starts(s)
    BY <1>4, <1>7 DEF IInv
  <2>2. SubQueued(s') <=> SubQueued(s)
    BY <1>4 DEF SubQueued, SameMembers
  <2>3. Alone(s')
    BY <1>4, <1>5, <2>1, <2>2 DEF Single, Alone, OneStart, SameMembers
  <2>4. Served(s')
    BY <1>4, <1>5, <2>1 DEF Single, Served, SameMembers
  <2>5. NoStuck(s')
    BY <1>4, <2>1, OpenMeans DEF Single, NoStuck, SameMembers
  <2>6. QED
    BY <2>3, <2>4, <2>5 DEF Single
<1>8. Later(s, s')
  BY <1>1, <1>4, DelayOK DEF Later, SameMembers
<1>9. calling' = <<>> /\ UNCHANGED <<dropped, venueSubs, venueLogin, runs>>
  BY DEF Post, bounds
<1>10. TasksOK'
  BY <1>9 DEF TasksOK
<1>11. SubsHeldBack'
  BY <1>4, <1>9 DEF IInv, SubsHeldBack, SameMembers
<1>12. QED
  BY <1>4, <1>6, <1>7, <1>8, <1>9, <1>10, <1>11 DEF IInv

LEMMA StepOK ==
  ASSUME IInv, [Next]_vars
  PROVE  IInv' /\ Later(s, s')
<1>1. CASE RunStrand
  BY <1>1, RunStrandOK
<1>2. ASSUME NEW op \in s.ops,
             \/ Progress(op) \/ LoginAnswered(op) \/ ReadSucceeds(op) \/ PingTick(op)
      PROVE  IInv' /\ Later(s, s')
  BY <1>2, OpOK
<1>3. ASSUME NEW t \in Topics, Subscribe(t) \/ Unsubscribe(t)
      PROVE  IInv' /\ Later(s, s')
  BY <1>3, SubscribeOK, UnsubscribeOK
<1>4. CASE RunAgain
  BY <1>4, RunAgainOK
<1>5. CASE Close
  BY <1>5, CloseCallOK
<1>6. CASE Post
  BY <1>6, PostOK
<1>7. CASE UNCHANGED vars
  <2>1. s' = s /\ After(s, s)
    BY <1>7, AfterSelf DEF vars, IInv
  <2>2. IInv'
    BY <1>7 DEF vars, bounds, IInv, TasksOK, SubsHeldBack
  <2>3. QED
    BY <2>1, <2>2 DEF After
<1>8. QED
  BY <1>1, <1>2, <1>3, <1>4, <1>5, <1>6, <1>7 DEF Next, User

-----------------------------------------------------------------------------
(* What the code relies on.                                                *)

LEMMA InvariantOK == Spec => []IInv
<1>1. IInv /\ [Next]_vars => IInv'
  BY StepOK
<1>2. QED
  BY InitOK, <1>1, PTL DEF Spec

\* How many operations of a kind there are, where the kind is a class.
LEMMA PendingOK ==
  ASSUME IInv, NEW k, {k} \in Classes
  PROVE  Pending(k) = IF Has(s, {k}) THEN 1 ELSE 0
<1> DEFINE P == Places(s, {k})
           O == Ops(s, {k})
<1>1. Queued(k) = P /\ Started(k) = O
  BY DEF Queued, Started, Places, Ops
<1>2. /\ \A o, p \in O : o = p
      /\ \A i, j \in P : i = j
      /\ O = {} \/ P = {}
      /\ Has(s, {k}) <=> (O # {} \/ P # {})
  BY DEF IInv, WellFormed, Lone, Has
<1> HIDE DEF P, O
<1>3. O = {} => Cardinality(O) = 0
  BY FS_EmptySet
<1>4. P = {} => Cardinality(P) = 0
  BY FS_EmptySet
<1>5. ASSUME O # {} PROVE Cardinality(O) = 1
  <2>1. PICK o \in O : TRUE
    BY <1>5
  <2>2. O = {o}
    BY <1>2, <2>1
  <2>3. QED
    BY <2>2, FS_Singleton
<1>6. ASSUME P # {} PROVE Cardinality(P) = 1
  <2>1. PICK i \in P : TRUE
    BY <1>6
  <2>2. P = {i}
    BY <1>2, <2>1
  <2>3. QED
    BY <2>2, FS_Singleton
<1>7. Pending(k) = Cardinality(P) + Cardinality(O)
  BY <1>1 DEF Pending
<1>8. QED
  BY <1>2, <1>3, <1>4, <1>5, <1>6, <1>7

\* Beast allows one async_write at a time: pump's test of writeInFlight, which
\* four handlers clear or set, keeps a connection to one write, and while a
\* connection is up the flag says whether it has one, after any number of
\* run() calls, errors and reconnects.
THEOREM OneWriterAtATime == Spec => []OneWriter
<1>1. ASSUME IInv PROVE OneWriter
  <2>1. {"write"} = Writes /\ Writes \in Classes
    BY DEF Writes, Classes
  <2>2. Pending("write") = IF Has(s, Writes) THEN 1 ELSE 0
    BY <1>1, <2>1, PendingOK
  <2>3. s.connected => (s.writeInFlight <=> Has(s, Writes))
    BY <1>1 DEF IInv, Stages, WriteTold
  <2>4. QED
    BY <2>2, <2>3 DEF OneWriter
<1>2. QED
  BY <1>1, InvariantOK, PTL

\* Neither the reconnect loop nor the read loop nor the ping loop ever ends
\* before close() does it, and none runs twice on one connection: the operation
\* that continues the loop is started, or its handler is about to run.
THEOREM LoopsAlive == Spec => []LoopAlive
<1>1. ASSUME IInv PROVE LoopAlive
  <2>1. /\ {"read"} \in Classes /\ {"ping"} \in Classes
        /\ {"reconnect"} \in Classes
    BY DEF Classes, Reads, Pings, Waits
  <2>2. /\ Pending("read") = IF Has(s, {"read"}) THEN 1 ELSE 0
        /\ Pending("ping") = IF Has(s, {"ping"}) THEN 1 ELSE 0
        /\ Pending("reconnect") = IF Has(s, {"reconnect"}) THEN 1 ELSE 0
    BY <1>1, <2>1, PendingOK
  <2>3. runs = 1 =>
          /\ s.reconnectScheduled => Has(s, {"reconnect"})
          /\ s.connected /\ ~s.userClosed => Has(s, {"read"}) /\ Has(s, {"ping"})
    BY <1>1 DEF IInv, Single, Alone, Served, Waits, Reads, Pings
  <2>4. QED
    BY <2>2, <2>3 DEF LoopAlive
<1>2. QED
  BY <1>1, InvariantOK, PTL

\* A message that was queued never waits for something to arrive: it is behind
\* a write in flight, or the error handler that drops the queue is on its way.
THEOREM NothingStuck == Spec => []NoStuckMessage
<1>1. ASSUME IInv PROVE NoStuckMessage
  BY <1>1 DEF IInv, Single, NoStuck, NoStuckMessage
<1>2. QED
  BY <1>1, InvariantOK, PTL

\* With credentials no subscription reaches the venue before the login ack of
\* the connection it is sent on, across reconnects that interrupt the login.
THEOREM SubscriptionsWait == Spec => []SubsHeldBack
<1>1. IInv => SubsHeldBack
  BY DEF IInv
<1>2. QED
  BY <1>1, InvariantOK, PTL

\* Once close() ran, no handler that was already queued, no timer and no task
\* begins a connection or brings one up.
THEOREM CloseIsFinal == Spec => ClosedForGood
<1>1. ASSUME IInv, [Next]_vars
      PROVE  s.userClosed => /\ s'.userClosed /\ s'.generation = s.generation
                             /\ (s'.connected => s.connected)
  BY <1>1, StepOK DEF Later
<1>2. QED
  BY <1>1, InvariantOK, PTL DEF Spec, ClosedForGood

-----------------------------------------------------------------------------
(***************************************************************************)
(* The backoff and the venue: BackoffResets.                               *)
(*                                                                         *)
(* A login ack of the current connection that waits on the strand, or was  *)
(* handled, is one the venue sent on this connection: no function of the   *)
(* session makes an ack, only onRead takes one up, and a connection that   *)
(* is begun has a generation that no ack carries yet.                      *)
(***************************************************************************)

IsAck(h) == h.kind = "read" /\ h.what = <<"loginOk">>

NoNewAck(x, y) ==
  \A i \in DOMAIN y.strand :
    IsAck(y.strand[i]) => \E j \in DOMAIN x.strand : x.strand[j] = y.strand[i]

\* What is needed of x to compute with its operations and its strand.
Members ==
  {"generation", "connected", "authenticated", "reconnectScheduled",
   "userClosed", "writeInFlight", "reconnectDelayS", "subscriptions",
   "pendingTopics", "outboundQueue", "sockClosed", "ackGen", "ops", "strand"}
Tokens(x) ==
  /\ DOMAIN x = Members /\ x.strand \in Seq(Handler)
  /\ x.ops \subseteq [kind : Kinds, gen : Nat, what : Payloads]
  /\ IsFiniteSet(x.ops)

\* y is x with messages and operations started: nothing came onto the strand.
Mute(x, y) ==
  /\ DOMAIN y = DOMAIN x /\ y.strand = x.strand
  /\ y.generation = x.generation /\ y.ackGen = x.ackGen

\* y is x with handlers on the strand, but no ack.
Calm(x, y) ==
  /\ DOMAIN y = DOMAIN x /\ NoNewAck(x, y)
  /\ y.generation = x.generation /\ y.ackGen = x.ackGen

LEMMA TokensOK ==
  ASSUME NEW x, WellFormed(x)
  PROVE  Tokens(x)
<1>1. x \in Session /\ IsFiniteSet(x.ops)
  BY DEF WellFormed
<1>2. QED
  BY <1>1 DEF Session, Tokens, Members

LEMMA MuteCalm ==
  ASSUME NEW x, NEW y, NEW v, DOMAIN x = Members
  PROVE  /\ Mute(x, x) /\ Calm(x, x)
         /\ Mute(x, y) /\ Mute(y, v) => Mute(x, v)
         /\ Mute(x, y) => Calm(x, y)
         /\ Calm(x, y) /\ Calm(y, v) => Calm(x, v)
BY DEF Mute, Calm, NoNewAck

LEMMA PumpMute ==
  ASSUME NEW x, DOMAIN x = Members
  PROVE  Mute(x, Pump(x))
BY DEF Mute, Pump, Members

LEMMA EnqueueMute ==
  ASSUME NEW x, DOMAIN x = Members, NEW msg
  PROVE  Mute(x, Pump(EnqueueOp(x, msg)))
<1> DEFINE y == EnqueueOp(x, msg)
<1>1. Mute(x, y)
  BY DEF Mute, EnqueueOp, Members
<1>2. DOMAIN y = Members
  BY <1>1 DEF Mute
<1> HIDE DEF y
<1>3. Mute(y, Pump(y))
  BY <1>2, PumpMute
<1>4. QED
  BY <1>1, <1>3, MuteCalm DEF y

LEMMA FlushMute ==
  ASSUME NEW x, DOMAIN x = Members
  PROVE  Mute(x, FlushTopics(x))
<1> DEFINE y == [x EXCEPT
         !.subscriptions = @ \cup x.pendingTopics, !.pendingTopics = {},
         !.outboundQueue = @ \o SetToSeq({Sub(t) : t \in x.pendingTopics})]
<1>1. Mute(x, y)
  BY DEF Mute, Members
<1>2. DOMAIN y = Members
  BY <1>1 DEF Mute
<1>3. FlushTopics(x) = x \/ FlushTopics(x) = Pump(y)
  BY DEF FlushTopics
<1> HIDE DEF y
<1>4. Mute(x, Pump(y))
  BY <1>1, <1>2, PumpMute, MuteCalm
<1>5. QED
  BY <1>3, <1>4, MuteCalm

LEMMA AsyncReadMute ==
  ASSUME NEW x, DOMAIN x = Members
  PROVE  Mute(x, AsyncRead(x))
BY DEF Mute, AsyncRead, Members

LEMMA CancelCalm ==
  ASSUME NEW x, Tokens(x), NEW kind
  PROVE  Calm(x, Cancel(x, kind)) /\ Tokens(Cancel(x, kind))
<1> DEFINE W == {op \in x.ops : op.kind = kind}
           R == {Ready(op, FALSE, Nothing) : op \in W}
           q == SetToSeq(R)
           y == Cancel(x, kind)
<1>1. /\ y.ops = x.ops \ W /\ y.strand = x.strand \o q
      /\ y.generation = x.generation /\ y.ackGen = x.ackGen
      /\ DOMAIN y = Members
  BY DEF Cancel, Tokens, Members
<1>2. IsFiniteSet(R)
  <2>1. IsFiniteSet(W)
    BY FS_Subset DEF Tokens
  <2>2. [op \in W |-> Ready(op, FALSE, Nothing)] \in Surjection(W, R)
    BY DEF Surjection
  <2>3. QED
    BY <2>1, <2>2, FS_Surjection
<1>3. R \subseteq Handler /\ \A r \in R : ~IsAck(r)
  <2>1. Nothing \in Payloads /\ Nothing # <<"loginOk">>
    BY MessagesOK DEF Nothing
  <2>2. \A op \in W : op \in [kind : Kinds, gen : Nat, what : Payloads]
    BY DEF Tokens
  <2>3. ASSUME NEW op \in W
        PROVE  /\ Ready(op, FALSE, Nothing) \in Handler
               /\ Ready(op, FALSE, Nothing).what = Nothing
    <3>1. op.kind \in Kinds \cup TaskKinds /\ op.gen \in Nat
      BY <2>2
    <3>2. QED
      BY <2>1, <3>1 DEF Ready, Handler
  <2>4. QED
    BY <2>1, <2>3 DEF IsAck
<1>4. IsFiniteSet(y.ops)
  BY <1>1, FS_Subset DEF Tokens
<1> HIDE DEF R, y
<1>5. q \in Seq(R)
  BY <1>2, SetToSeqOK
<1>6. q \in Seq(Handler) /\ \A i \in 1..Len(q) : ~IsAck(q[i])
  BY <1>3, <1>5
<1> HIDE DEF q
<1>7. /\ y.strand \in Seq(Handler)
      /\ Len(y.strand) = Len(x.strand) + Len(q)
      /\ \A i \in 1..Len(x.strand) + Len(q) :
           y.strand[i] = IF i <= Len(x.strand) THEN x.strand[i]
                                               ELSE q[i - Len(x.strand)]
  BY <1>1, <1>6, ConcatProperties DEF Tokens
<1>8. /\ DOMAIN x.strand = 1..Len(x.strand) /\ Len(x.strand) \in Nat
      /\ DOMAIN y.strand = 1..Len(y.strand) /\ Len(q) \in Nat
  BY <1>6, <1>7, LenProperties DEF Tokens
<1>9. ASSUME NEW i \in DOMAIN y.strand, IsAck(y.strand[i])
      PROVE  \E j \in DOMAIN x.strand : x.strand[j] = y.strand[i]
  <2>1. i \in 1..Len(x.strand) + Len(q)
    BY <1>7, <1>8
  <2>2. CASE i <= Len(x.strand)
    BY <1>7, <1>8, <2>1, <2>2
  <2>3. CASE ~(i <= Len(x.strand))
    <3>1. i - Len(x.strand) \in 1..Len(q)
      BY <1>8, <2>1, <2>3
    <3>2. y.strand[i] = q[i - Len(x.strand)]
      BY <1>7, <2>1, <2>3
    <3>3. QED
      BY <1>6, <1>9, <3>1, <3>2
  <2>4. QED
    BY <2>2, <2>3
<1>10. Calm(x, y)
  BY <1>1, <1>9 DEF Calm, NoNewAck, Tokens
<1>11. Tokens(y)
  BY <1>1, <1>4, <1>7 DEF Tokens
<1>12. QED
  BY <1>10, <1>11 DEF y

LEMMA ArmCalm ==
  ASSUME NEW x, Tokens(x), NEW kind
  PROVE  Calm(x, Arm(x, kind))
<1> DEFINE c == Cancel(x, kind)
<1>1. Calm(x, c) /\ DOMAIN c = Members /\ DOMAIN x = Members
  BY CancelCalm DEF Tokens
<1> HIDE DEF c
<1>2. Mute(c, [c EXCEPT !.ops = @ \cup {Op(kind, x.generation, Nothing)}])
  BY <1>1 DEF Mute, Members
<1>3. QED
  BY <1>1, <1>2, MuteCalm DEF Arm, c

LEMMA ErrorCalm ==
  ASSUME NEW x, Tokens(x), NEW gen
  PROVE  Calm(x, HandleError(x, gen))
<1> DEFINE c == Cancel(x, "ping")
           t == [c EXCEPT
                   !.reconnectScheduled = TRUE, !.connected = FALSE,
                   !.authenticated = FALSE, !.writeInFlight = FALSE,
                   !.outboundQueue = <<>>, !.sockClosed = TRUE,
                   !.pendingTopics = @ \cup x.subscriptions,
                   !.subscriptions = {},
                   !.reconnectDelayS = Min({2 * @, 30})]
<1>1. Calm(x, c) /\ Tokens(c) /\ DOMAIN x = Members
  BY CancelCalm DEF Tokens
<1>2. HandleError(x, gen) = x \/ HandleError(x, gen) = Arm(t, "reconnect")
  BY DEF HandleError
<1> HIDE DEF c
<1>3. Mute(c, t) /\ t.ops = c.ops
  BY <1>1 DEF Mute, Tokens, Members
<1> HIDE DEF t
<1>4. Tokens(t)
  BY <1>1, <1>3 DEF Mute, Tokens
<1>5. Calm(t, Arm(t, "reconnect"))
  BY <1>4, ArmCalm
<1>6. DOMAIN c = Members /\ DOMAIN t = Members
  BY <1>1, <1>4 DEF Tokens
<1>7. Calm(x, t)
  BY <1>1, <1>3, <1>6, MuteCalm
<1>8. Calm(x, Arm(t, "reconnect"))
  BY <1>1, <1>5, <1>7, MuteCalm
<1>9. QED
  BY <1>1, <1>2, <1>8, MuteCalm

\* y is z after its handler h: it began a connection or none, and took up no
\* ack but the one of h, on the connection it is of.
Handled(z, h, y) ==
  /\ NoNewAck(z, y)
  /\ y.generation \in {z.generation, z.generation + 1}
  /\ \/ y.ackGen = z.ackGen
     \/ /\ IsAck(h) /\ h.gen = z.generation
        /\ y.generation = z.generation /\ y.ackGen = z.generation

LEMMA CalmHandled ==
  ASSUME NEW z, NEW h, NEW y, Calm(z, y)
  PROVE  Handled(z, h, y)
BY DEF Calm, Handled

LEMMA StartCalm ==
  ASSUME NEW x, Tokens(x), NEW h
  PROVE  Handled(x, h, StartConnect(x))
<1>1. CASE x.userClosed
  BY <1>1, CalmHandled, MuteCalm DEF StartConnect, Tokens
<1>2. CASE ~x.userClosed
  <2>1. /\ StartConnect(x).generation = x.generation + 1
        /\ StartConnect(x).ackGen = x.ackGen
        /\ StartConnect(x).strand = x.strand
    BY <1>2 DEF StartConnect, Tokens, Members
  <2>2. QED
    BY <2>1 DEF Handled, NoNewAck
<1>3. QED
  BY <1>1, <1>2

\* A stage of the connect chain.
LEMMA StageCalm ==
  ASSUME NEW z, Tokens(z), NEW h
  PROVE  Calm(z, OnStage(z, h))
<1>1. DOMAIN z = Members
  BY DEF Tokens
<1>2. Calm(z, [z EXCEPT
                 !.ops = @ \cup {Op(NextStage[h.kind], h.gen, Nothing)},
                 !.sockClosed = IF h.kind = "resolve" THEN FALSE ELSE @])
  BY <1>1 DEF Calm, NoNewAck, Members
<1>3. QED
  BY <1>1, <1>2, ErrorCalm, MuteCalm DEF OnStage

\* A handshake: the login or the topics go out.
LEMMA HandshakeCalm ==
  ASSUME NEW z, Tokens(z), NEW h
  PROVE  Calm(z, OnHandshake(z, h))
<1> DEFINE u == [z EXCEPT !.connected = TRUE]
           up == Arm(u, "ping")
           v == IF AuthRequired THEN SendLogin(up) ELSE FlushTopics(up)
<1>1. DOMAIN z = Members
  BY DEF Tokens
<1>2. Mute(z, u) /\ Tokens(u)
  BY <1>1 DEF Mute, Tokens, Members
<1> HIDE DEF u
<1>3. Calm(u, up) /\ DOMAIN up = Members
  BY <1>2, ArmCalm DEF Calm, Tokens
<1> HIDE DEF up
<1>4. Mute(up, v) /\ DOMAIN v = Members
  BY <1>3, EnqueueMute, FlushMute DEF SendLogin, Mute
<1> HIDE DEF v
<1>5. Calm(u, v)
  BY <1>2, <1>3, <1>4, MuteCalm DEF Tokens
<1>6. Calm(u, AsyncRead(v))
  BY <1>2, <1>4, <1>5, AsyncReadMute, MuteCalm DEF Tokens
<1>7. Calm(z, AsyncRead(v))
  BY <1>1, <1>2, <1>6, MuteCalm
<1>8. \/ OnHandshake(z, h) = z \/ OnHandshake(z, h) = HandleError(z, h.gen)
      \/ OnHandshake(z, h) = AsyncRead(v)
  BY DEF OnHandshake, v, up, u
<1>9. QED
  BY <1>1, <1>7, <1>8, ErrorCalm, MuteCalm

\* A message: only this handler takes up an ack, and one of its connection.
LEMMA ReadHandled ==
  ASSUME NEW z, Tokens(z), NEW h, h.kind = "read"
  PROVE  Handled(z, h, OnRead(z, h))
<1> DEFINE y == Dispatch(z, h)
<1>0. DOMAIN z = Members
  BY DEF Tokens
<1>1. CASE h.gen # z.generation
  BY <1>0, <1>1, MuteCalm, CalmHandled DEF OnRead
<1>2. CASE h.gen = z.generation /\ (~h.ok \/ h.what = <<"garbage">>)
  BY <1>2, ErrorCalm, CalmHandled DEF OnRead
<1>3. CASE h.gen = z.generation /\ ~(~h.ok \/ h.what = <<"garbage">>)
  <2>1. /\ DOMAIN y = Members /\ NoNewAck(z, y) /\ y.generation = z.generation
        /\ y.ackGen = z.ackGen \/ (IsAck(h) /\ y.ackGen = z.generation)
    <3>1. CASE h.what = <<"loginOk">>
      <4> DEFINE a == [z EXCEPT !.authenticated = TRUE, !.ackGen = z.generation,
                                !.reconnectDelayS = 1]
      <4>1. /\ DOMAIN a = Members /\ a.strand = z.strand
            /\ a.generation = z.generation /\ a.ackGen = z.generation
        BY <1>0 DEF Members
      <4>2. y = FlushTopics(a)
        BY <3>1 DEF Dispatch
      <4> HIDE DEF a, y
      <4>3. Mute(a, y)
        BY <4>1, <4>2, FlushMute
      <4>4. QED
        BY <3>1, <4>1, <4>3 DEF Mute, NoNewAck, IsAck
    <3>2. CASE h.what # <<"loginOk">>
      <4>1. y = z \/ y = HandleError(z, h.gen)
        BY <3>2 DEF Dispatch
      <4> HIDE DEF y
      <4>2. Calm(z, y)
        BY <1>0, <4>1, ErrorCalm, MuteCalm
      <4>3. QED
        BY <1>0, <4>2 DEF Calm
    <3>3. QED
      BY <3>1, <3>2
  <2> DEFINE r == [y EXCEPT !.reconnectDelayS =
                     IF ~AuthRequired \/ y.authenticated THEN 1 ELSE @]
  <2>2. OnRead(z, h) = y \/ OnRead(z, h) = AsyncRead(r)
    BY <1>3 DEF OnRead
  <2> HIDE DEF y
  <2>3. Mute(y, r) /\ DOMAIN r = Members
    BY <2>1 DEF Mute, Members
  <2> HIDE DEF r
  <2>4. Mute(y, AsyncRead(r))
    BY <2>1, <2>3, AsyncReadMute, MuteCalm
  <2>5. Mute(y, OnRead(z, h))
    BY <2>1, <2>2, <2>4, MuteCalm
  <2>6. QED
    BY <1>3, <2>1, <2>5 DEF Mute, Handled, NoNewAck
<1>4. QED
  BY <1>1, <1>2, <1>3

\* A write completed.
LEMMA WriteCalm ==
  ASSUME NEW z, Tokens(z), NEW h
  PROVE  Calm(z, OnWrite(z, h))
<1> DEFINE y == [z EXCEPT !.writeInFlight = FALSE]
<1>1. DOMAIN z = Members
  BY DEF Tokens
<1>2. Mute(z, y) /\ Tokens(y) /\ DOMAIN y = Members
  BY <1>1 DEF Mute, Tokens, Members
<1>3. \/ OnWrite(z, h) = z \/ OnWrite(z, h) = Pump(y)
      \/ OnWrite(z, h) = HandleError(y, h.gen)
  BY DEF OnWrite
<1> HIDE DEF y
<1>4. Calm(y, Pump(y)) /\ Calm(y, HandleError(y, h.gen))
  BY <1>2, PumpMute, ErrorCalm, MuteCalm
<1>5. QED
  BY <1>1, <1>2, <1>3, <1>4, MuteCalm

\* A tick of the ping timer.
LEMMA PingCalm ==
  ASSUME NEW x, NEW z, NEW h, WellFormed(x), Stages(x), Taken(x, z, h),
         h.kind = "ping", Tokens(z)
  PROVE  Calm(z, OnPingTimer(z, h))
<1> DEFINE v == Pump(EnqueueOp(z, Ping))
<1>1. DOMAIN z = Members
  BY DEF Tokens
<1>2. \/ OnPingTimer(z, h) = z \/ OnPingTimer(z, h) = Arm(z, "ping")
      \/ OnPingTimer(z, h) = HandleError(z, h.gen)
      \/ z.connected /\ OnPingTimer(z, h) = Arm(v, "ping")
  BY DEF OnPingTimer
<1>3. CASE z.connected /\ OnPingTimer(z, h) = Arm(v, "ping")
  <2>1. WellFormed(z) /\ WriteTold(z)
    BY SkipOK DEF Taken, Stages
  <2>2. Ping \in Messages /\ Ping \notin Subs
    BY MessagesOK
  <2>3. Tokens(v)
    BY <1>3, <2>1, <2>2, EnqueuedOK, TokensOK DEF Sent
  <2>4. Mute(z, v)
    BY <1>1, EnqueueMute
  <2> HIDE DEF v
  <2>5. Calm(v, Arm(v, "ping"))
    BY <2>3, ArmCalm
  <2>6. QED
    BY <1>1, <1>3, <2>4, <2>5, MuteCalm
<1>4. QED
  BY <1>1, <1>2, <1>3, ArmCalm, ErrorCalm, MuteCalm

\* The reconnect timer.
LEMMA ReconnectHandled ==
  ASSUME NEW z, Tokens(z), NEW h
  PROVE  Handled(z, h, OnReconnectTimer(z, h))
<1> DEFINE y == [z EXCEPT !.reconnectScheduled = FALSE]
<1>1. DOMAIN z = Members
  BY DEF Tokens
<1>2. Mute(z, y) /\ Tokens(y)
  BY <1>1 DEF Mute, Tokens, Members
<1>3. \/ OnReconnectTimer(z, h) = z \/ OnReconnectTimer(z, h) = y
      \/ OnReconnectTimer(z, h) = StartConnect(y)
  BY DEF OnReconnectTimer
<1> HIDE DEF y
<1>4. Handled(y, h, StartConnect(y))
  BY <1>2, StartCalm
<1>5. Handled(z, h, StartConnect(y))
  BY <1>2, <1>4 DEF Handled, Mute, NoNewAck
<1>6. Calm(z, z) /\ Calm(z, y)
  BY <1>1, <1>2, MuteCalm
<1>7. QED
  BY <1>3, <1>5, <1>6, CalmHandled

\* close() cancels three waits.
LEMMA CloseCalm ==
  ASSUME NEW x, Tokens(x)
  PROVE  Calm(x, CloseByUser(x))
<1> DEFINE p == Cancel(x, "ping")
           r == Cancel(p, "reconnect")
           y == Cancel(r, "resolve")
           e == [y EXCEPT !.userClosed = TRUE,
                   !.sockClosed = @ \/ ~(x.connected /\ IsOpen(x) /\ ~x.writeInFlight)]
<1>1. CloseByUser(x) = x \/ CloseByUser(x) = e
  BY DEF CloseByUser
<1>2. Calm(x, p) /\ Tokens(p)
  BY CancelCalm
<1> HIDE DEF p
<1>3. Calm(p, r) /\ Tokens(r)
  BY <1>2, CancelCalm
<1> HIDE DEF r
<1>4. Calm(r, y) /\ Tokens(y)
  BY <1>3, CancelCalm
<1> HIDE DEF y
<1>5. Mute(y, e)
  BY <1>4 DEF Mute, Tokens, Members
<1> HIDE DEF e
<1>6. /\ DOMAIN x = Members /\ DOMAIN p = Members
      /\ DOMAIN r = Members /\ DOMAIN y = Members
  BY <1>2, <1>3, <1>4 DEF Tokens
<1>7. Calm(r, e)
  BY <1>4, <1>5, <1>6, MuteCalm
<1>8. Calm(p, e)
  BY <1>3, <1>6, <1>7, MuteCalm
<1>9. Calm(x, e)
  BY <1>2, <1>6, <1>8, MuteCalm
<1>10. QED
  BY <1>1, <1>6, <1>9, MuteCalm

\* The task unsubscribe() posts.
LEMMA UnsubCalm ==
  ASSUME NEW x, Tokens(x), NEW msg
  PROVE  Calm(x, SendUnsub(x, msg))
<1>1. DOMAIN x = Members
  BY DEF Tokens
<1>2. SendUnsub(x, msg) = x \/ SendUnsub(x, msg) = Pump(EnqueueOp(x, msg))
  BY DEF SendUnsub
<1>3. QED
  BY <1>1, <1>2, EnqueueMute, MuteCalm

LEMMA HandleCalm ==
  ASSUME NEW x, NEW z, NEW h, WellFormed(x), Stages(x), Taken(x, z, h)
  PROVE  Handled(z, h, Handle(z, h))
<1>0. Tokens(z) /\ DOMAIN z = Members
  BY TokensOK DEF Taken, Tokens
<1>1. h.kind \in Kinds \cup TaskKinds
  BY DEF Taken, Handler
<1>2. DOMAIN NextStage = {"resolve", "connect", "tls"}
  BY DEF NextStage
<1>3. CASE h.kind \in DOMAIN NextStage
  BY <1>0, <1>2, <1>3, StageCalm, CalmHandled DEF Handle
<1>4. CASE h.kind = "handshake"
  BY <1>0, <1>2, <1>4, HandshakeCalm, CalmHandled DEF Handle
<1>5. CASE h.kind = "read"
  BY <1>0, <1>2, <1>5, ReadHandled DEF Handle
<1>6. CASE h.kind = "write"
  BY <1>0, <1>2, <1>6, WriteCalm, CalmHandled DEF Handle
<1>7. CASE h.kind = "ping"
  BY <1>0, <1>2, <1>7, PingCalm, CalmHandled DEF Handle
<1>8. CASE h.kind = "reconnect"
  BY <1>0, <1>2, <1>8, ReconnectHandled DEF Handle
<1>9. CASE h.kind = "startConnect"
  BY <1>0, <1>2, <1>9, StartCalm DEF Handle
<1>10. CASE h.kind = "flushTopics"
  <2>1. Calm(z, FlushTopics(z))
    BY <1>0, FlushMute, MuteCalm
  <2>2. QED
    BY <1>2, <1>10, <2>1, CalmHandled DEF Handle
<1>11. CASE h.kind = "sendUnsub"
  BY <1>0, <1>2, <1>11, UnsubCalm, CalmHandled DEF Handle
<1>12. CASE h.kind = "closeByUser"
  BY <1>0, <1>2, <1>12, CloseCalm, CalmHandled DEF Handle
<1>13. QED
  BY <1>1, <1>2, <1>3, <1>4, <1>5, <1>6, <1>7, <1>8, <1>9, <1>10, <1>11, <1>12
     DEF Kinds, TaskKinds, Timers


\* What the session knows of the login is what the venue answered.
Told(x, G) ==
  /\ x.ackGen <= x.generation
  /\ x.ackGen = x.generation => G = x.generation
  /\ \A i \in DOMAIN x.strand :
       IsAck(x.strand[i]) /\ x.strand[i].gen = x.generation => G = x.generation

GInv == IInv /\ acceptedGen \in Nat /\ Told(s, acceptedGen)

\* The rest of the strand, and the handler taken off it, come from the strand.
OfStrand(x, z, h) ==
  /\ \A i \in DOMAIN z.strand :
       \E j \in DOMAIN x.strand : x.strand[j] = z.strand[i]
  /\ \E j \in DOMAIN x.strand : x.strand[j] = h

LEMMA RestOK ==
  ASSUME NEW x, WellFormed(x), x.strand # <<>>,
         NEW z, z = [x EXCEPT !.strand = Tail(@)],
         NEW h, h = Head(x.strand)
  PROVE  OfStrand(x, z, h)
<1>1. x \in Session /\ x.strand \in Seq(Handler)
  BY DEF WellFormed, Session
<1>2. /\ Tail(x.strand) \in Seq(Handler)
      /\ Len(Tail(x.strand)) = Len(x.strand) - 1
      /\ \A i \in 1..Len(Tail(x.strand)) : Tail(x.strand)[i] = x.strand[i + 1]
      /\ z.strand = Tail(x.strand)
  BY <1>1, HeadTailProperties DEF Session
<1>3. /\ DOMAIN x.strand = 1..Len(x.strand) /\ Len(x.strand) \in Nat
      /\ DOMAIN z.strand = 1..Len(z.strand) /\ Len(z.strand) = Len(x.strand) - 1
  BY <1>1, <1>2, LenProperties
<1>4. Len(x.strand) >= 1 /\ h = x.strand[1]
  BY <1>1, <1>3, EmptySeq
<1>5. ASSUME NEW i \in DOMAIN z.strand
      PROVE  \E j \in DOMAIN x.strand : x.strand[j] = z.strand[i]
  <2>1. i + 1 \in DOMAIN x.strand /\ z.strand[i] = x.strand[i + 1]
    BY <1>2, <1>3
  <2>2. QED
    BY <2>1
<1>6. 1 \in DOMAIN x.strand
  BY <1>3, <1>4
<1>7. QED
  BY <1>4, <1>5, <1>6 DEF OfStrand

LEMMA HandledTold ==
  ASSUME NEW x, WellFormed(x), NEW z, NEW h, Taken(x, z, h), NEW y,
         OfStrand(x, z, h), Handled(z, h, y), NEW G, Told(x, G)
  PROVE  Told(y, G)
<1>1. /\ x.generation \in Int /\ x.ackGen \in Int
      /\ z.generation = x.generation /\ z.ackGen = x.ackGen
  BY DEF WellFormed, Session, Taken, SameMembers
<1>2. y.generation \in {x.generation, x.generation + 1}
  BY <1>1 DEF Handled
<1>3. ASSUME IsAck(h), h.gen = x.generation PROVE G = x.generation
  BY <1>3 DEF Told, OfStrand
<1>4. y.ackGen <= y.generation
  BY <1>1, <1>2 DEF Handled, Told
<1>5. ASSUME y.ackGen = y.generation PROVE G = y.generation
  <2>1. CASE y.ackGen = z.ackGen
    <3>1. y.generation = x.generation /\ x.ackGen = x.generation
      BY <1>1, <1>2, <1>5, <2>1 DEF Told
    <3>2. QED
      BY <3>1 DEF Told
  <2>2. CASE y.ackGen # z.ackGen
    BY <1>1, <1>3, <2>2 DEF Handled
  <2>3. QED
    BY <2>1, <2>2
<1>6. ASSUME NEW i \in DOMAIN y.strand, IsAck(y.strand[i]),
             y.strand[i].gen = y.generation
      PROVE  G = y.generation
  <2>1. PICK j \in DOMAIN x.strand : x.strand[j] = y.strand[i]
    BY <1>6 DEF Handled, NoNewAck, OfStrand
  <2>2. y.generation <= x.generation
    <3>1. Sound(x.strand[j], x.generation)
      BY DEF WellFormed
    <3>2. x.strand[j].kind \in Kinds
      BY <1>6, <2>1 DEF IsAck, Kinds
    <3>3. QED
      BY <1>6, <2>1, <3>1, <3>2 DEF Sound
  <2>3. y.generation = x.generation
    BY <1>1, <1>2, <2>2
  <2>4. QED
    BY <1>6, <2>1, <2>3 DEF Told
<1>7. QED
  BY <1>4, <1>5, <1>6 DEF Told

LEMMA RunStrandTold ==
  ASSUME GInv, RunStrand
  PROVE  Told(s', acceptedGen')
<1>1. WellFormed(s) /\ Stages(s) /\ Told(s, acceptedGen)
  BY DEF GInv, IInv
<1>2. s.strand # <<>> /\ acceptedGen' = acceptedGen
  BY DEF RunStrand
<1>3. PICK z : z = [s EXCEPT !.strand = Tail(@)]
  OBVIOUS
<1>4. PICK h : h = Head(s.strand)
  OBVIOUS
<1>5. s' = Handle(z, h)
  BY <1>3, <1>4 DEF RunStrand
<1>6. Taken(s, z, h)
  BY <1>1, <1>2, <1>3, <1>4, TakeOK
<1>7. Handled(z, h, s')
  BY <1>1, <1>5, <1>6, HandleCalm
<1>8. OfStrand(s, z, h)
  BY <1>1, <1>2, <1>3, <1>4, RestOK
<1>9. QED
  BY <1>1, <1>2, <1>6, <1>7, <1>8, HandledTold

\* y has handlers on its strand that x has not, acks among them only when the
\* venue accepted a login of this connection.
LEMMA AppendTold ==
  ASSUME NEW x, WellFormed(x), NEW G, Told(x, G), NEW y, NEW q \in Seq(Handler),
         y.strand = x.strand \o q,
         y.generation = x.generation, y.ackGen = x.ackGen,
         NEW F, F = G \/ F = x.generation,
         \A i \in 1..Len(q) : IsAck(q[i]) => F = x.generation
  PROVE  Told(y, F)
<1>1. x.strand \in Seq(Handler)
  BY DEF WellFormed, Session
<1>2. /\ y.strand \in Seq(Handler)
      /\ Len(y.strand) = Len(x.strand) + Len(q)
      /\ \A i \in 1..Len(x.strand) + Len(q) :
           y.strand[i] = IF i <= Len(x.strand) THEN x.strand[i]
                                               ELSE q[i - Len(x.strand)]
  BY <1>1, ConcatProperties
<1>3. /\ DOMAIN x.strand = 1..Len(x.strand) /\ Len(x.strand) \in Nat
      /\ DOMAIN y.strand = 1..Len(y.strand) /\ Len(q) \in Nat
  BY <1>1, <1>2, LenProperties
<1>4. ASSUME NEW i \in DOMAIN y.strand, IsAck(y.strand[i]),
             y.strand[i].gen = x.generation
      PROVE  F = x.generation
  <2>1. i \in 1..Len(x.strand) + Len(q)
    BY <1>2, <1>3
  <2>2. CASE i <= Len(x.strand)
    <3>1. i \in DOMAIN x.strand /\ y.strand[i] = x.strand[i]
      BY <1>2, <1>3, <2>1, <2>2
    <3>2. QED
      BY <1>4, <3>1 DEF Told
  <2>3. CASE ~(i <= Len(x.strand))
    <3>1. i - Len(x.strand) \in 1..Len(q)
      BY <1>3, <2>1, <2>3
    <3>2. y.strand[i] = q[i - Len(x.strand)]
      BY <1>2, <2>1, <2>3
    <3>3. QED
      BY <1>4, <3>1, <3>2
  <2>4. QED
    BY <2>2, <2>3
<1>5. QED
  BY <1>4 DEF Told

LEMMA CompletesTold ==
  ASSUME GInv, NEW op \in s.ops, NEW ok \in BOOLEAN, NEW what \in Payloads,
         Completes(op, ok, what),
         \/ what # <<"loginOk">> /\ acceptedGen' = acceptedGen
         \/ acceptedGen' = s.generation
  PROVE  Told(s', acceptedGen')
<1>1. WellFormed(s) /\ Told(s, acceptedGen)
  BY DEF GInv, IInv
<1>2. /\ s.strand \in Seq(Handler) /\ s \in Session
      /\ op \in [kind : Kinds, gen : Nat, what : Payloads]
  BY <1>1 DEF WellFormed, Session
<1> DEFINE r == Ready(op, ok, what)
           q == <<r>>
<1>3. r \in Handler /\ r.what = what
  BY <1>2 DEF Ready, Handler
<1>4. /\ s'.strand = Append(s.strand, r)
      /\ s'.generation = s.generation /\ s'.ackGen = s.ackGen
  BY <1>2 DEF Completes, Session
<1> HIDE DEF r
<1>5. /\ q \in Seq(Handler) /\ Len(q) = 1 /\ q[1] = r
      /\ s'.strand = s.strand \o q
  BY <1>2, <1>3, <1>4
<1> HIDE DEF q
<1>6. ASSUME NEW i \in 1..Len(q), IsAck(q[i]) PROVE acceptedGen' = s.generation
  <2>1. q[i] = r
    BY <1>5
  <2>2. what = <<"loginOk">>
    BY <1>3, <1>6, <2>1 DEF IsAck
  <2>3. QED
    BY <2>2
<1>7. acceptedGen' = acceptedGen \/ acceptedGen' = s.generation
  OBVIOUS
<1>8. QED
  BY <1>1, <1>4, <1>5, <1>6, <1>7, AppendTold

LEMMA OpTold ==
  ASSUME GInv, NEW op \in s.ops,
         \/ Progress(op) \/ LoginAnswered(op) \/ ReadSucceeds(op) \/ PingTick(op)
  PROVE  Told(s', acceptedGen')
<1>1. /\ Nothing \in Payloads /\ Nothing # <<"loginOk">>
      /\ {<<"loginOk">>, <<"loginFail">>, <<"data">>, <<"garbage">>,
          <<"onTime">>, <<"noPong">>, <<"noAck">>} \subseteq Payloads
  BY MessagesOK DEF Payloads, Nothing
<1>2. CASE Progress(op)
  <2>1. /\ acceptedGen' = acceptedGen
        /\ Completes(op, FALSE, Nothing) \/ Completes(op, TRUE, Nothing)
    BY <1>2 DEF Progress, OpFails, StageSucceeds, WriteSucceeds, ReconnectTick
  <2>2. QED
    BY <1>1, <2>1, CompletesTold
<1>3. CASE LoginAnswered(op)
  <2>1. \/ Completes(op, TRUE, <<"loginOk">>) /\ acceptedGen' = s.generation
        \/ Completes(op, TRUE, <<"loginFail">>) /\ acceptedGen' = acceptedGen
    BY <1>3 DEF LoginAnswered
  <2>2. QED
    BY <1>1, <2>1, CompletesTold
<1>4. CASE ReadSucceeds(op)
  <2>1. /\ acceptedGen' = acceptedGen
        /\ Completes(op, TRUE, <<"data">>) \/ Completes(op, TRUE, <<"garbage">>)
    BY <1>4 DEF ReadSucceeds
  <2>2. QED
    BY <1>1, <2>1, CompletesTold
<1>5. CASE PingTick(op)
  <2>1. /\ acceptedGen' = acceptedGen
        /\ \E what \in {<<"onTime">>, <<"noPong">>, <<"noAck">>} :
             Completes(op, TRUE, what)
    BY <1>5 DEF PingTick
  <2>2. QED
    BY <1>1, <2>1, CompletesTold
<1>6. QED
  BY <1>2, <1>3, <1>4, <1>5

\* A user call changes the topic lists, or posts a task, which is no read.
LEMMA UserTold ==
  ASSUME GInv, User
  PROVE  Told(s', acceptedGen')
<1>1. WellFormed(s) /\ Told(s, acceptedGen) /\ TasksOK
  BY DEF GInv, IInv
<1>2. s \in Session
  BY <1>1 DEF WellFormed
<1>3. ASSUME NEW t \in Topics, Subscribe(t) \/ Unsubscribe(t)
      PROVE  Told(s', acceptedGen')
  <2>1. /\ acceptedGen' = acceptedGen /\ s'.strand = s.strand
        /\ s'.generation = s.generation /\ s'.ackGen = s.ackGen
    BY <1>2, <1>3 DEF Subscribe, Unsubscribe, AddTopic, RemoveTopic, Session
  <2>2. QED
    BY <1>1, <2>1 DEF Told
<1>4. CASE RunAgain \/ Close
  BY <1>1, <1>4 DEF RunAgain, Close
<1>5. CASE Post
  <2>1. /\ acceptedGen' = acceptedGen /\ s'.strand = s.strand \o calling
        /\ s'.generation = s.generation /\ s'.ackGen = s.ackGen
    BY <1>2, <1>5 DEF Post, Session
  <2>2. calling \in Seq(Handler) /\ \A i \in 1..Len(calling) : ~IsAck(calling[i])
    BY <1>1 DEF TasksOK, TaskKinds, IsAck
  <2>3. QED
    BY <1>1, <2>1, <2>2, AppendTold
<1>6. QED
  BY <1>3, <1>4, <1>5 DEF User

LEMMA StepTold ==
  ASSUME GInv, [Next]_vars
  PROVE  GInv'
<1>1. IInv'
  BY StepOK DEF GInv
<1>2. Told(s', acceptedGen')
  <2>1. CASE RunStrand
    BY <2>1, RunStrandTold
  <2>2. ASSUME NEW op \in s.ops,
               \/ Progress(op) \/ LoginAnswered(op) \/ ReadSucceeds(op)
               \/ PingTick(op)
        PROVE  Told(s', acceptedGen')
    BY <2>2, OpTold
  <2>3. CASE User
    BY <2>3, UserTold
  <2>4. CASE UNCHANGED vars
    BY <2>4 DEF vars, GInv
  <2>5. QED
    BY <2>1, <2>2, <2>3, <2>4 DEF Next
<1>3. acceptedGen' \in Nat
  <2>1. acceptedGen \in Nat /\ s.generation \in Nat
    BY DEF GInv, IInv, WellFormed, Session
  <2>2. acceptedGen' \in {acceptedGen, s.generation}
    BY DEF Next, RunStrand, Progress, OpFails, StageSucceeds, WriteSucceeds,
           ReconnectTick, LoginAnswered, ReadSucceeds, PingTick, User, Subscribe,
           Unsubscribe, RunAgain, Close, Post, vars
  <2>3. QED
    BY <2>1, <2>2
<1>4. QED
  BY <1>1, <1>2, <1>3 DEF GInv

LEMMA ToldAlways == Spec => []GInv
<1>1. Init => GInv
  <2> SUFFICES ASSUME Init PROVE GInv
    OBVIOUS
  <2>1. IInv /\ acceptedGen = 0
    BY InitOK DEF Init
  <2>2. /\ s.generation = 0 /\ s.ackGen = 0
        /\ s.strand = <<Task("startConnect", Nothing)>>
    BY DEF Init, Initially
  <2>3. Told(s, acceptedGen)
    BY <2>1, <2>2 DEF Told
  <2>4. QED
    BY <2>1, <2>3 DEF GInv
<1>2. GInv /\ [Next]_vars => GInv'
  BY StepTold
<1>3. QED
  BY <1>1, <1>2, PTL DEF Spec

\* Every member of the session keeps its type, and no topic is in the pending
\* and the active list at once, whatever is subscribed and whatever fails.
THEOREM TypeCorrect == Spec => []TypeOK
<1>1. GInv => TypeOK
  BY TypesOK DEF GInv
<1>2. QED
  BY <1>1, ToldAlways, PTL

\* With credentials the delay becomes shorter only once the venue has accepted
\* the login of the very connection that the session is on: not by connecting,
\* not by a message or a refusal, and not by the ack of an earlier connection,
\* however late it is handled and whatever number of run() calls and errors the
\* connections come from.
THEOREM BackoffStays == Spec => BackoffResets
<1>1. ASSUME GInv, [Next]_vars
      PROVE  AuthRequired /\ s'.reconnectDelayS < s.reconnectDelayS =>
               acceptedGen' = s'.generation
  <2>1. Later(s, s') /\ GInv'
    BY <1>1, StepOK, StepTold DEF GInv
  <2>2. Told(s', acceptedGen')
    BY <2>1 DEF GInv
  <2>3. QED
    BY <2>1, <2>2 DEF Later, Told
<1>2. QED
  BY <1>1, ToldAlways, PTL DEF Spec, BackoffResets

-----------------------------------------------------------------------------
(***************************************************************************)
(* The venue streams what the session lists: VenueInSync, for any topics   *)
(* and any number of calls, failures and queued messages.                  *)
(*                                                                         *)
(* At a moment between two messages the lists and the venue disagree.  The *)
(* invariant says by what: a listed topic is at the venue or its message   *)
(* is on its way; a topic at the venue, or on its way there, is listed or  *)
(* the message that unsubscribes it is on its way; and a topic that waits  *)
(* on a connection that was let in waits for a task that flushes it.       *)
(***************************************************************************)

(* What is on its way to the venue, and the lists.                          *)

\* A message that is being written or queued; a task that will queue it, or that
\* flushes the topics, on the strand or about to be posted.
Writing(x, m) == \E op \in Ops(x, Writes) : op.what = m
InQueue(x, m) == \E i \in DOMAIN x.outboundQueue : x.outboundQueue[i] = m
OnWay(x, m) == Writing(x, m) \/ InQueue(x, m)
Tasked(tasks, m) ==
  \E i \in DOMAIN tasks : tasks[i].kind = "sendUnsub" /\ tasks[i].what = m
Flushed(tasks) == \E i \in DOMAIN tasks : tasks[i].kind = "flushTopics"

\* A topic is not subscribed behind the message that unsubscribes it.
Ordered(x) ==
  \A t \in Topics :
    /\ Writing(x, Unsub(t)) => ~InQueue(x, Sub(t))
    /\ \A i, j \in DOMAIN x.outboundQueue :
         x.outboundQueue[i] = Unsub(t) /\ x.outboundQueue[j] = Sub(t) => j < i

\* C is what the user call has still to post, D the topics that were dropped, V
\* those the venue streams.
Leaves(x, C, t) ==
  OnWay(x, Unsub(t)) \/ Tasked(x.strand, Unsub(t)) \/ Tasked(C, Unsub(t))

\* Nothing that was dropped is listed, nothing else is unsubscribed.
Listed(x, C, D) ==
  /\ \A t \in D : t \notin x.subscriptions /\ t \notin x.pendingTopics
  /\ \A t \in Topics : Leaves(x, C, t) => t \in D

\* A connection that is down or comes up has nothing at the venue, and a write it
\* still has goes to a closed socket.
DownOK(x, V) ==
  ~x.connected => /\ V = {} /\ x.subscriptions = {}
                  /\ Ops(x, Writes) # {} => x.sockClosed

\* The socket of the connection that is up, or that comes up, is open.
SocketOK(x) ==
  ~x.userClosed /\ (x.connected \/ Has(x, Chain)) => ~x.sockClosed

\* A connection that comes up has not logged in.
FreshOK(x) == Has(x, Chain) => ~x.authenticated

\* While the connection works, the venue streams what is listed, up to the
\* messages on their way.
Working(x) == x.connected /\ ~x.userClosed /\ ~Broken(x)
ToldOK(x, C, V) ==
  Working(x) =>
    /\ \A t \in x.subscriptions : t \in V \/ OnWay(x, Sub(t))
    /\ \A t \in Topics : t \in V \/ OnWay(x, Sub(t)) =>
                           t \in x.subscriptions \/ Leaves(x, C, t)
    /\ Ordered(x)

\* A topic that waits on a connection that was let in will be flushed.
WaitingOK(x, C) ==
  LetIn(x) /\ ~x.userClosed /\ x.pendingTopics # {} => Flushed(x.strand) \/ Flushed(C)

InSync(x, C, D, V) ==
  /\ Listed(x, C, D) /\ DownOK(x, V) /\ SocketOK(x) /\ FreshOK(x)
  /\ ToldOK(x, C, V) /\ WaitingOK(x, C)

-----------------------------------------------------------------------------
(* What the functions do to messages and tasks.                            *)

\* Messages of different kinds or topics are different messages.
LEMMA NamesOK ==
  /\ \A t, u : Sub(t) = Sub(u) => t = u
  /\ \A t, u : Unsub(t) = Unsub(u) => t = u
  /\ \A t, u : Sub(t) # Unsub(u)
  /\ \A t : /\ Sub(t) # Login /\ Sub(t) # Ping /\ Sub(t) # Nothing
            /\ Unsub(t) # Login /\ Unsub(t) # Ping /\ Unsub(t) # Nothing
BY DEF Sub, Unsub, Login, Ping, Nothing

\* The first handler of the strand is taken.
Popped(x, z, h) ==
  /\ z.ops = x.ops /\ SameMembers(x, z)
  /\ \A m : Tasked(z.strand, m) => Tasked(x.strand, m)
  /\ \A m : Tasked(x.strand, m) =>
              Tasked(z.strand, m) \/ (h.kind = "sendUnsub" /\ h.what = m)
  /\ Flushed(x.strand) => Flushed(z.strand) \/ h.kind = "flushTopics"
  /\ h.kind = "sendUnsub" => Tasked(x.strand, h.what)

\* What is on the strand once its first handler is taken.
LEMMA PoppedOK ==
  ASSUME NEW x, WellFormed(x), x.strand # <<>>,
         NEW z, z = [x EXCEPT !.strand = Tail(@)],
         NEW h, h = Head(x.strand)
  PROVE  Popped(x, z, h)
<1>1. x \in Session /\ x.strand \in Seq(Handler)
  BY DEF WellFormed, Session
<1>2. /\ z.ops = x.ops /\ SameMembers(x, z) /\ z.strand = Tail(x.strand)
  BY <1>1 DEF Session, SameMembers
<1>3. /\ Tail(x.strand) \in Seq(Handler)
      /\ Len(Tail(x.strand)) = Len(x.strand) - 1
      /\ \A i \in 1..Len(Tail(x.strand)) : Tail(x.strand)[i] = x.strand[i + 1]
  BY <1>1, HeadTailProperties
<1>4. /\ DOMAIN x.strand = 1..Len(x.strand) /\ Len(x.strand) \in Nat
      /\ DOMAIN z.strand = 1..Len(z.strand) /\ Len(z.strand) \in Nat
      /\ Len(z.strand) = Len(x.strand) - 1
      /\ h = x.strand[1]
  BY <1>1, <1>2, <1>3, LenProperties
<1>5. ASSUME NEW i \in DOMAIN z.strand
      PROVE  i + 1 \in DOMAIN x.strand /\ z.strand[i] = x.strand[i + 1]
  BY <1>2, <1>3, <1>4
<1>6. ASSUME NEW i \in DOMAIN x.strand, i # 1
      PROVE  i - 1 \in DOMAIN z.strand /\ z.strand[i - 1] = x.strand[i]
  <2>1. i \in Int /\ i - 1 \in 1..Len(z.strand)
    BY <1>4, <1>6
  <2>2. z.strand[i - 1] = x.strand[(i - 1) + 1]
    BY <1>2, <1>3, <2>1
  <2>3. QED
    BY <1>4, <2>1, <2>2
<1>7. ASSUME NEW m, Tasked(z.strand, m) PROVE Tasked(x.strand, m)
  <2>1. PICK i \in DOMAIN z.strand :
          z.strand[i].kind = "sendUnsub" /\ z.strand[i].what = m
    BY <1>7 DEF Tasked
  <2>2. QED
    BY <1>5, <2>1 DEF Tasked
<1>8. ASSUME NEW m, Tasked(x.strand, m)
      PROVE  Tasked(z.strand, m) \/ (h.kind = "sendUnsub" /\ h.what = m)
  <2>1. PICK i \in DOMAIN x.strand :
          x.strand[i].kind = "sendUnsub" /\ x.strand[i].what = m
    BY <1>8 DEF Tasked
  <2>2. CASE i = 1
    BY <1>4, <2>1, <2>2
  <2>3. CASE i # 1
    BY <1>6, <2>1, <2>3 DEF Tasked
  <2>4. QED
    BY <2>2, <2>3
<1>9. ASSUME Flushed(x.strand)
      PROVE  Flushed(z.strand) \/ h.kind = "flushTopics"
  <2>1. PICK i \in DOMAIN x.strand : x.strand[i].kind = "flushTopics"
    BY <1>9 DEF Flushed
  <2>2. CASE i = 1
    BY <1>4, <2>1, <2>2
  <2>3. CASE i # 1
    BY <1>6, <2>1, <2>3 DEF Flushed
  <2>4. QED
    BY <2>2, <2>3
<1>10. h.kind = "sendUnsub" => Tasked(x.strand, h.what)
  <2>1. x.strand # <<>>
    OBVIOUS
  <2>2. 1 \in DOMAIN x.strand
    BY <1>1, <1>4, EmptySeq
  <2>3. QED
    BY <1>4, <2>2 DEF Tasked
<1>11. QED
  BY <1>2, <1>7, <1>8, <1>9, <1>10 DEF Popped

\* Operations and handlers of them make no difference to tasks.
LEMMA LongerTasks ==
  ASSUME NEW x, NEW y, x \in Session, y \in Session,
         NEW q \in Seq(Handler), y.strand = x.strand \o q,
         \A i \in 1..Len(q) : q[i].kind \in Kinds
  PROVE  /\ \A m : Tasked(y.strand, m) <=> Tasked(x.strand, m)
         /\ Flushed(y.strand) <=> Flushed(x.strand)
<1>1. Longer(x, y, q)
  BY AppendedPlaces
<1>2. "sendUnsub" \notin Kinds /\ "flushTopics" \notin Kinds
  BY DEF Kinds, Timers
<1>3. ASSUME NEW i \in DOMAIN y.strand,
             y.strand[i].kind \in {"sendUnsub", "flushTopics"}
      PROVE  i \in DOMAIN x.strand /\ y.strand[i] = x.strand[i]
  BY <1>1, <1>2, <1>3 DEF Longer
<1>4. ASSUME NEW m PROVE Tasked(y.strand, m) <=> Tasked(x.strand, m)
  <2>1. Tasked(y.strand, m) => Tasked(x.strand, m)
    BY <1>3 DEF Tasked
  <2>2. Tasked(x.strand, m) => Tasked(y.strand, m)
    BY <1>1 DEF Tasked, Longer
  <2>3. QED
    BY <2>1, <2>2
<1>5. Flushed(y.strand) <=> Flushed(x.strand)
  <2>1. Flushed(y.strand) => Flushed(x.strand)
    BY <1>3 DEF Flushed
  <2>2. Flushed(x.strand) => Flushed(y.strand)
    BY <1>1 DEF Flushed, Longer
  <2>3. QED
    BY <2>1, <2>2
<1>6. QED
  BY <1>4, <1>5

\* y is x with other operations than writes started or cancelled.
Hush(x, y) ==
  /\ y.connected = x.connected /\ y.userClosed = x.userClosed
  /\ y.generation = x.generation /\ y.sockClosed = x.sockClosed
  /\ y.authenticated = x.authenticated
  /\ y.subscriptions = x.subscriptions /\ y.pendingTopics = x.pendingTopics
  /\ y.outboundQueue = x.outboundQueue
  /\ Ops(y, Writes) = Ops(x, Writes)
  /\ Broken(x) => Broken(y)
  /\ Has(y, Chain) => Has(x, Chain)
  /\ \A m : Tasked(y.strand, m) <=> Tasked(x.strand, m)
  /\ Flushed(y.strand) <=> Flushed(x.strand)

\* A step that says nothing leaves the lists in step.
LEMMA HushOK ==
  ASSUME NEW x, NEW y, NEW C, NEW D, NEW V, InSync(x, C, D, V), Hush(x, y)
  PROVE  InSync(y, C, D, V)
<1>1. \A m : OnWay(y, m) <=> OnWay(x, m)
  BY DEF Hush, OnWay, Writing, InQueue
<1>2. Ordered(x) => Ordered(y)
  BY DEF Hush, Ordered, Writing, InQueue
<1>3. \A t : Leaves(y, C, t) <=> Leaves(x, C, t)
  BY <1>1 DEF Hush, Leaves
<1>4. Listed(y, C, D)
  BY <1>3 DEF InSync, Listed, Hush
<1>5. DownOK(y, V) /\ SocketOK(y) /\ FreshOK(y)
  BY DEF InSync, DownOK, SocketOK, FreshOK, Hush
<1>6. ToldOK(y, C, V)
  BY <1>1, <1>2, <1>3 DEF InSync, ToldOK, Working, Hush
<1>7. WaitingOK(y, C)
  BY DEF InSync, WaitingOK, LetIn, Hush
<1>8. QED
  BY <1>4, <1>5, <1>6, <1>7 DEF InSync

\* Cancelling a timer says nothing.
LEMMA CancelHush ==
  ASSUME NEW x, WellFormed(x), NEW kind \in {"ping", "reconnect", "resolve"}
  PROVE  Hush(x, Cancel(x, kind))
<1> DEFINE W == {op \in x.ops : op.kind = kind}
           R == {Ready(op, FALSE, Nothing) : op \in W}
           q == SetToSeq(R)
           y == Cancel(x, kind)
<1>1. /\ WellFormed(y) /\ SameMembers(x, y)
      /\ \A K \in Classes : Has(y, K) <=> Has(x, K)
      /\ Broken(y) <=> Broken(x)
  BY CancelOK
<1>2. x \in Session /\ y \in Session /\ IsFiniteSet(x.ops)
  BY <1>1 DEF WellFormed
<1>3. y.ops = x.ops \ W /\ y.strand = x.strand \o q
  BY <1>2 DEF Cancel, Session
<1>4. IsFiniteSet(R)
  <2>1. IsFiniteSet(W)
    BY <1>2, FS_Subset
  <2>2. [op \in W |-> Ready(op, FALSE, Nothing)] \in Surjection(W, R)
    BY DEF Surjection
  <2>3. QED
    BY <2>1, <2>2, FS_Surjection
<1>5. R \subseteq Handler /\ \A r \in R : r.kind \in Kinds
  <2>1. Nothing \in Payloads
    BY MessagesOK
  <2>2. \A op \in W : op \in [kind : Kinds, gen : Nat, what : Payloads]
    BY <1>2 DEF Session
  <2>3. \A op \in W : /\ Ready(op, FALSE, Nothing) \in Handler
                      /\ Ready(op, FALSE, Nothing).kind \in Kinds
    BY <2>1, <2>2 DEF Ready, Handler
  <2>4. QED
    BY <2>3
<1>6. Ops(y, Writes) = Ops(x, Writes)
  BY <1>1, <1>3 DEF Ops, Writes, SameMembers
<1> HIDE DEF R, y
<1>7. q \in Seq(R)
  BY <1>4, SetToSeqOK
<1>8. q \in Seq(Handler) /\ \A i \in 1..Len(q) : q[i].kind \in Kinds
  BY <1>5, <1>7
<1> HIDE DEF q
<1>9. /\ \A m : Tasked(y.strand, m) <=> Tasked(x.strand, m)
      /\ Flushed(y.strand) <=> Flushed(x.strand)
  BY <1>2, <1>3, <1>8, LongerTasks
<1>10. Chain \in Classes
  BY DEF Classes
<1>11. QED
  BY <1>1, <1>6, <1>9, <1>10 DEF Hush, SameMembers, y

\* Nor does arming one.
LEMMA ArmHush ==
  ASSUME NEW x, WellFormed(x), NEW kind \in {"ping", "reconnect"}, ~Has(x, {kind})
  PROVE  Hush(x, Arm(x, kind))
<1> DEFINE c == Cancel(x, kind)
           y == Arm(x, kind)
<1>1. Hush(x, c) /\ c \in Session /\ c.generation = x.generation
  <2>1. WellFormed(c) /\ SameMembers(x, c)
    BY CancelOK
  <2>2. QED
    BY <2>1, CancelHush DEF WellFormed, SameMembers
<1>2. Gains(x, y, {kind}) /\ SameMembers(x, y)
  BY ArmOK
<1>3. /\ y.ops = c.ops \cup {Op(kind, x.generation, Nothing)}
      /\ y.strand = c.strand
  BY <1>1 DEF Arm, Session
<1> HIDE DEF c, y
<1>4. Ops(y, Writes) = Ops(c, Writes)
  BY <1>1, <1>2, <1>3 DEF Ops, Writes, Op, SameMembers
<1>5. Chain \in Classes /\ Chain # {kind}
  BY DEF Classes, Chain
<1>6. QED
  BY <1>1, <1>2, <1>3, <1>4, <1>5 DEF Hush, Gains, SameMembers, y

\* Nor does starting a read.
LEMMA ReadHush ==
  ASSUME NEW x, WellFormed(x), ~Has(x, Reads)
  PROVE  Hush(x, AsyncRead(x))
<1> DEFINE y == AsyncRead(x)
<1>1. Gains(x, y, Reads) /\ SameMembers(x, y)
  BY AsyncReadOK
<1>2. x \in Session
  BY DEF WellFormed
<1>3. y.ops = x.ops \cup {Op("read", x.generation, Nothing)} /\ y.strand = x.strand
  BY <1>2 DEF AsyncRead, Session
<1> HIDE DEF y
<1>4. Ops(y, Writes) = Ops(x, Writes)
  BY <1>1, <1>3 DEF Ops, Writes, Op, SameMembers
<1>5. Chain \in Classes /\ Chain # Reads
  BY DEF Classes, Chain, Reads
<1>6. QED
  BY <1>1, <1>3, <1>4, <1>5 DEF Hush, Gains, SameMembers, y

\* y is x after the messages M were queued and some were started.
Said(x, y, M) ==
  /\ \A m : OnWay(y, m) <=> OnWay(x, m) \/ m \in M
  /\ /\ Ordered(x)
     /\ \A t \in Topics : Sub(t) \in M => ~OnWay(x, Unsub(t)) /\ Unsub(t) \notin M
     => Ordered(y)
  /\ y.strand = x.strand

\* Starting a write takes no message off its way.
LEMMA PumpSays ==
  ASSUME NEW x, WellFormed(x), WriteTold(x)
  PROVE  Said(x, Pump(x), {})
<1> DEFINE y == Pump(x)
<1>0. x \in Session
  BY DEF WellFormed
<1>1. CASE x.writeInFlight \/ ~x.connected \/ ~IsOpen(x) \/ x.outboundQueue = <<>>
  <2>1. y = x
    BY <1>1 DEF Pump
  <2>2. QED
    BY <2>1 DEF Said
<1>2. CASE ~(x.writeInFlight \/ ~x.connected \/ ~IsOpen(x) \/ x.outboundQueue = <<>>)
  <2> DEFINE msg == Head(x.outboundQueue)
             op == Op("write", x.generation, msg)
  <2>1. x.outboundQueue \in Seq(Messages) /\ x.outboundQueue # <<>>
    BY <1>0, <1>2 DEF Session
  <2>2. y = [x EXCEPT !.writeInFlight = TRUE, !.outboundQueue = Tail(@),
                      !.ops = @ \cup {op}]
    BY <1>2 DEF Pump
  <2>3. /\ y.outboundQueue = Tail(x.outboundQueue)
        /\ y.ops = x.ops \cup {op}
        /\ y.strand = x.strand /\ y.generation = x.generation
    BY <1>0, <2>2 DEF Session
  <2>4. op.kind = "write" /\ op.gen = x.generation /\ op.what = msg
    BY DEF Op
  <2> HIDE DEF y, op
  <2>5. Ops(x, Writes) = {}
    BY <1>2 DEF WriteTold, Has
  <2>6. Ops(y, Writes) = {op}
    BY <2>3, <2>4, <2>5 DEF Ops, Writes
  <2>7. /\ DOMAIN x.outboundQueue = 1..Len(x.outboundQueue)
        /\ Len(x.outboundQueue) \in Nat \ {0}
        /\ DOMAIN y.outboundQueue = 1..Len(y.outboundQueue)
        /\ Len(y.outboundQueue) = Len(x.outboundQueue) - 1
        /\ Len(y.outboundQueue) \in Nat
        /\ \A i \in 1..Len(y.outboundQueue) :
             y.outboundQueue[i] = x.outboundQueue[i + 1]
    BY <2>1, <2>3, HeadTailProperties, LenProperties, EmptySeq
  <2>8. msg = x.outboundQueue[1] /\ 1 \in DOMAIN x.outboundQueue
    BY <2>1, <2>7
  <2> HIDE DEF msg
  <2>9. ASSUME NEW i \in DOMAIN y.outboundQueue
        PROVE  /\ i + 1 \in DOMAIN x.outboundQueue
               /\ y.outboundQueue[i] = x.outboundQueue[i + 1]
    BY <2>7
  <2>10. ASSUME NEW i \in DOMAIN x.outboundQueue, i # 1
         PROVE  /\ i - 1 \in DOMAIN y.outboundQueue
                /\ y.outboundQueue[i - 1] = x.outboundQueue[i]
    <3>1. i \in Int /\ i - 1 \in 1..Len(y.outboundQueue)
      BY <2>7, <2>10
    <3>2. y.outboundQueue[i - 1] = x.outboundQueue[(i - 1) + 1]
      BY <2>7, <3>1
    <3>3. QED
      BY <2>7, <3>1, <3>2
  <2>11. ASSUME NEW m
         PROVE  /\ ~Writing(x, m) /\ (Writing(y, m) <=> m = msg)
                /\ InQueue(y, m) => InQueue(x, m)
                /\ InQueue(x, m) => InQueue(y, m) \/ m = msg
                /\ m = msg => InQueue(x, m)
    <3>1. ~Writing(x, m) /\ (Writing(y, m) <=> m = msg)
      BY <2>4, <2>5, <2>6 DEF Writing
    <3>2. InQueue(y, m) => InQueue(x, m)
      BY <2>9 DEF InQueue
    <3>3. ASSUME InQueue(x, m) PROVE InQueue(y, m) \/ m = msg
      <4>1. PICK i \in DOMAIN x.outboundQueue : x.outboundQueue[i] = m
        BY <3>3 DEF InQueue
      <4>2. QED
        BY <2>8, <2>10, <4>1 DEF InQueue
    <3>4. m = msg => InQueue(x, m)
      BY <2>8 DEF InQueue
    <3>5. QED
      BY <3>1, <3>2, <3>3, <3>4
  <2>12. ASSUME Ordered(x), NEW t \in Topics
         PROVE  /\ Writing(y, Unsub(t)) => ~InQueue(y, Sub(t))
                /\ \A i, j \in DOMAIN y.outboundQueue :
                     y.outboundQueue[i] = Unsub(t) /\ y.outboundQueue[j] = Sub(t)
                       => j < i
    <3>1. \A i, j \in DOMAIN x.outboundQueue :
            x.outboundQueue[i] = Unsub(t) /\ x.outboundQueue[j] = Sub(t) => j < i
      BY <2>12 DEF Ordered
    <3>2. ASSUME Writing(y, Unsub(t)), InQueue(y, Sub(t)) PROVE FALSE
      <4>1. msg = Unsub(t)
        BY <2>11, <3>2
      <4>2. PICK j \in DOMAIN y.outboundQueue : y.outboundQueue[j] = Sub(t)
        BY <3>2 DEF InQueue
      <4>3. j + 1 \in DOMAIN x.outboundQueue /\ x.outboundQueue[j + 1] = Sub(t)
        BY <2>9, <4>2
      <4>4. j + 1 < 1
        BY <2>8, <3>1, <4>1, <4>3
      <4>5. QED
        BY <2>7, <4>4
    <3>3. ASSUME NEW i \in DOMAIN y.outboundQueue, NEW j \in DOMAIN y.outboundQueue,
                 y.outboundQueue[i] = Unsub(t), y.outboundQueue[j] = Sub(t)
          PROVE  j < i
      <4>1. j + 1 < i + 1
        BY <2>9, <3>1, <3>3
      <4>2. i \in Int /\ j \in Int
        BY <2>7
      <4>3. QED
        BY <4>1, <4>2
    <3>4. QED
      BY <3>2, <3>3
  <2>13. Ordered(x) => Ordered(y)
    BY <2>12 DEF Ordered
  <2>14. \A m : OnWay(y, m) <=> OnWay(x, m)
    BY <2>11 DEF OnWay
  <2>15. QED
    BY <2>3, <2>13, <2>14 DEF Said, y
<1>3. QED
  BY <1>1, <1>2

\* Messages that are queued are on their way, behind all others.
LEMMA AppendSays ==
  ASSUME NEW x, x \in Session, NEW q \in Seq(Messages), NEW M,
         \A i \in 1..Len(q) : q[i] \in M, \A m \in M : \E i \in 1..Len(q) : q[i] = m,
         NEW y, y \in Session, y.outboundQueue = x.outboundQueue \o q,
         y.ops = x.ops, y.strand = x.strand, y.generation = x.generation
  PROVE  Said(x, y, M)
<1> DEFINE n == Len(x.outboundQueue)
<1>1. x.outboundQueue \in Seq(Messages) /\ y.outboundQueue \in Seq(Messages)
  BY DEF Session
<1>2. /\ DOMAIN x.outboundQueue = 1..n /\ n \in Nat /\ Len(q) \in Nat
      /\ DOMAIN y.outboundQueue = 1..(n + Len(q))
      /\ \A i \in 1..(n + Len(q)) :
           y.outboundQueue[i] = IF i <= n THEN x.outboundQueue[i] ELSE q[i - n]
  BY <1>1, ConcatProperties, LenProperties
<1> HIDE DEF n
<1>3. \A m : Writing(y, m) <=> Writing(x, m)
  BY DEF Writing, Ops
<1>4. ASSUME NEW i \in DOMAIN y.outboundQueue
      PROVE  \/ i \in DOMAIN x.outboundQueue /\ y.outboundQueue[i] = x.outboundQueue[i]
             \/ i > n /\ y.outboundQueue[i] \in M
  <2>1. CASE i <= n
    BY <1>2, <2>1
  <2>2. CASE ~(i <= n)
    <3>1. i - n \in 1..Len(q) /\ y.outboundQueue[i] = q[i - n]
      BY <1>2, <2>2
    <3>2. QED
      BY <1>2, <2>2, <3>1
  <2>3. QED
    BY <2>1, <2>2
<1>5. ASSUME NEW i \in DOMAIN x.outboundQueue
      PROVE  /\ i \in DOMAIN y.outboundQueue /\ y.outboundQueue[i] = x.outboundQueue[i]
             /\ i <= n /\ i \in Int
  BY <1>2
<1>6. ASSUME NEW m PROVE InQueue(y, m) <=> InQueue(x, m) \/ m \in M
  <2>1. InQueue(y, m) => InQueue(x, m) \/ m \in M
    BY <1>4 DEF InQueue
  <2>2. InQueue(x, m) => InQueue(y, m)
    BY <1>5 DEF InQueue
  <2>3. ASSUME m \in M PROVE InQueue(y, m)
    <3>1. PICK i \in 1..Len(q) : q[i] = m
      BY <2>3
    <3>5. i \in Int /\ n + i \in 1..(n + Len(q)) /\ ~(n + i <= n)
      BY <1>2
    <3>2. n + i \in DOMAIN y.outboundQueue /\ y.outboundQueue[n + i] = q[(n + i) - n]
      BY <1>2, <3>5
    <3>3. (n + i) - n = i
      BY <1>2
    <3>4. QED
      BY <3>1, <3>2, <3>3 DEF InQueue
  <2>4. QED
    BY <2>1, <2>2, <2>3
<1>7. ASSUME Ordered(x), NEW t \in Topics,
             Sub(t) \in M => ~OnWay(x, Unsub(t)) /\ Unsub(t) \notin M
      PROVE  /\ Writing(y, Unsub(t)) => ~InQueue(y, Sub(t))
             /\ \A i, j \in DOMAIN y.outboundQueue :
                  y.outboundQueue[i] = Unsub(t) /\ y.outboundQueue[j] = Sub(t)
                    => j < i
  <2>1. Writing(y, Unsub(t)) => ~InQueue(y, Sub(t))
    BY <1>3, <1>6, <1>7 DEF Ordered, OnWay
  <2>2. ASSUME NEW i \in DOMAIN y.outboundQueue, NEW j \in DOMAIN y.outboundQueue,
               y.outboundQueue[i] = Unsub(t), y.outboundQueue[j] = Sub(t)
        PROVE  j < i
    <3>1. CASE Sub(t) \in M
      <4>1. ~InQueue(x, Unsub(t)) /\ Unsub(t) \notin M
        BY <1>7, <3>1 DEF OnWay
      <4>2. InQueue(y, Unsub(t))
        BY <2>2 DEF InQueue
      <4>3. QED
        BY <1>6, <4>1, <4>2
    <3>2. CASE Sub(t) \notin M
      <4>1. j \in DOMAIN x.outboundQueue /\ x.outboundQueue[j] = Sub(t)
        BY <1>4, <2>2, <3>2
      <4>2. CASE i \in DOMAIN x.outboundQueue
        BY <1>5, <1>7, <2>2, <4>1, <4>2 DEF Ordered
      <4>3. CASE i \notin DOMAIN x.outboundQueue
        BY <1>2, <1>4, <1>5, <4>1, <4>3
      <4>4. QED
        BY <4>2, <4>3
    <3>3. QED
      BY <3>1, <3>2
  <2>3. QED
    BY <2>1, <2>2
<1>8. ASSUME Ordered(x),
             \A t \in Topics : Sub(t) \in M => ~OnWay(x, Unsub(t)) /\ Unsub(t) \notin M
      PROVE  Ordered(y)
  BY <1>7, <1>8 DEF Ordered
<1>9. \A m : OnWay(y, m) <=> OnWay(x, m) \/ m \in M
  BY <1>3, <1>6 DEF OnWay
<1>10. QED
  BY <1>8, <1>9 DEF Said

\* A second step that adds no message leaves what the first one said.
LEMMA SaidThen ==
  ASSUME NEW x, NEW y, NEW z, NEW M, Said(x, y, M), Said(y, z, {})
  PROVE  Said(x, z, M)
BY DEF Said

\* enqueueWrite says its message and no other.
LEMMA EnqueueSays ==
  ASSUME NEW x, WellFormed(x), WriteTold(x), NEW msg \in Messages
  PROVE  Said(x, Pump(EnqueueOp(x, msg)), {msg})
<1> DEFINE z == EnqueueOp(x, msg)
<1>1. x \in Session /\ x.outboundQueue \in Seq(Messages)
  BY DEF WellFormed, Session
<1>2. /\ Append(x.outboundQueue, msg) \in Seq(Messages)
      /\ Append(x.outboundQueue, msg) = x.outboundQueue \o <<msg>>
  BY <1>1
<1>3. /\ z \in Session /\ z.outboundQueue = x.outboundQueue \o <<msg>>
      /\ z.ops = x.ops /\ z.strand = x.strand /\ z.generation = x.generation
      /\ z.connected = x.connected /\ z.writeInFlight = x.writeInFlight
  <2>1. z = [x EXCEPT !.outboundQueue = Append(x.outboundQueue, msg)]
    BY DEF EnqueueOp
  <2> HIDE DEF z
  <2>2. QED
    BY <1>1, <1>2, <2>1 DEF Session
<1> HIDE DEF z
<1>4. WellFormed(z) /\ WriteTold(z)
  BY <1>3, StillOK DEF Still, WriteTold, Classes
<1>5. Said(x, z, {msg})
  <2> DEFINE q == <<msg>>
  <2>1. q \in Seq(Messages) /\ Len(q) = 1 /\ q[1] = msg
    OBVIOUS
  <2> HIDE DEF q
  <2>2. z.outboundQueue = x.outboundQueue \o q
    BY <1>3 DEF q
  <2>3. /\ \A i \in 1..Len(q) : q[i] \in {msg}
        /\ \A m \in {msg} : \E i \in 1..Len(q) : q[i] = m
    BY <2>1
  <2>4. QED
    BY <1>1, <1>3, <2>1, <2>2, <2>3, AppendSays
<1>6. QED
  BY <1>4, <1>5, PumpSays, SaidThen DEF z

\* flushPendingTopics queues the subscription of each topic that waited.
LEMMA FlushSays ==
  ASSUME NEW x, WellFormed(x), WriteTold(x), LetIn(x)
  PROVE  /\ Said(x, FlushTopics(x), {Sub(t) : t \in x.pendingTopics})
         /\ FlushTopics(x).subscriptions = x.subscriptions \cup x.pendingTopics
         /\ FlushTopics(x).pendingTopics = {}
<1> DEFINE R == {Sub(t) : t \in x.pendingTopics}
           q == SetToSeq(R)
           all == x.outboundQueue \o q
           z == [x EXCEPT !.subscriptions = @ \cup x.pendingTopics,
                          !.pendingTopics = {}, !.outboundQueue = all]
<1>1. x \in Session /\ x.outboundQueue \in Seq(Messages)
  BY DEF WellFormed, Session
<1>2. FlushTopics(x) = Pump(z)
  BY DEF FlushTopics, LetIn
<1>3. IsFiniteSet(R)
  <2>1. IsFiniteSet(x.pendingTopics)
    BY <1>1, WsAssumption, FS_Subset DEF WsAssumption, Session
  <2>2. [t \in x.pendingTopics |-> Sub(t)] \in Surjection(x.pendingTopics, R)
    BY DEF Surjection
  <2>3. QED
    BY <2>1, <2>2, FS_Surjection
<1>4. R \subseteq Messages
  BY <1>1 DEF Session, Messages
<1> HIDE DEF R
<1>5. /\ q \in Seq(R)
      /\ \A m \in R : \E i \in 1..Len(q) : q[i] = m
  BY <1>3, SetToSeqOK
<1> HIDE DEF q
<1>6. q \in Seq(Messages) /\ \A i \in 1..Len(q) : q[i] \in R
  BY <1>4, <1>5, SeqMonotonic, ElementOfSeq
<1>7. all \in Seq(Messages)
  BY <1>1, <1>6, ConcatProperties
<1> HIDE DEF all
<1>8. /\ z \in Session /\ z.outboundQueue = all
      /\ z.ops = x.ops /\ z.strand = x.strand /\ z.generation = x.generation
      /\ z.connected = x.connected /\ z.writeInFlight = x.writeInFlight
      /\ z.subscriptions = x.subscriptions \cup x.pendingTopics
      /\ z.pendingTopics = {}
  BY <1>1, <1>7 DEF Session
<1> HIDE DEF z
<1>9. WellFormed(z) /\ WriteTold(z)
  BY <1>8, StillOK DEF Still, WriteTold, Classes
<1>10. Said(x, z, R)
  BY <1>1, <1>5, <1>6, <1>8, AppendSays DEF all
<1>11. Said(x, Pump(z), R)
  BY <1>9, <1>10, PumpSays, SaidThen
<1>12. Pump(z).subscriptions = z.subscriptions /\ Pump(z).pendingTopics = z.pendingTopics
  BY <1>9, PumpOK
<1>13. QED
  BY <1>2, <1>8, <1>11, <1>12 DEF R

-----------------------------------------------------------------------------
(* From the session before a handler to the session without it.             *)

\* ToldOK while the unsubscriptions in M are in the handler's hand.
ToldBut(x, C, V, M) ==
  Working(x) =>
    /\ \A t \in x.subscriptions : t \in V \/ OnWay(x, Sub(t))
    /\ \A t \in Topics : t \in V \/ OnWay(x, Sub(t)) =>
                           t \in x.subscriptions \/ Leaves(x, C, t) \/ Unsub(t) \in M
    /\ Ordered(x)

\* The handler fails a read or write of the connection.
Fails(h, x) == h.kind \in {"read", "write"} /\ ~h.ok /\ h.gen = x.generation

\* Taking a handler off the strand leaves the lists in step, but for the
\* message or the flush it stands for.
LEMMA TakenSync ==
  ASSUME NEW x, NEW z, NEW h, NEW C, NEW D, NEW V, InSync(x, C, D, V),
         Taken(x, z, h), Popped(x, z, h)
  PROVE  /\ Listed(z, C, D) /\ DownOK(z, V) /\ SocketOK(z) /\ FreshOK(z)
         /\ ~Fails(h, x) => ToldBut(z, C, V, {h.what})
         /\ ~Fails(h, x) /\ h.kind # "sendUnsub" => ToldOK(z, C, V)
         /\ h.kind # "flushTopics" => WaitingOK(z, C)
         /\ h.kind = "sendUnsub" => \A t \in Topics : h.what = Unsub(t) => t \in D
<1>1. z.ops = x.ops /\ SameMembers(x, z) /\ Chain \in Classes
  BY DEF Popped, Classes
<1>2. Ops(z, Writes) = Ops(x, Writes)
  BY <1>1 DEF Ops, SameMembers
<1>3. \A m : OnWay(z, m) <=> OnWay(x, m)
  BY <1>1, <1>2 DEF OnWay, Writing, InQueue, SameMembers
<1>4. Ordered(x) => Ordered(z)
  BY <1>1, <1>2 DEF Ordered, Writing, InQueue, SameMembers
<1>5. ASSUME NEW t
      PROVE  /\ Leaves(z, C, t) => Leaves(x, C, t)
             /\ Leaves(x, C, t) => \/ Leaves(z, C, t)
                                   \/ h.kind = "sendUnsub" /\ h.what = Unsub(t)
  BY <1>3 DEF Leaves, Popped
<1>6. Listed(z, C, D)
  BY <1>1, <1>5 DEF InSync, Listed, SameMembers
<1>7. Has(z, Chain) => Has(x, Chain)
  BY <1>1 DEF Taken
<1>8. DownOK(z, V) /\ SocketOK(z) /\ FreshOK(z)
  BY <1>1, <1>2, <1>7 DEF InSync, DownOK, SocketOK, FreshOK, SameMembers
<1>9. ASSUME ~Fails(h, x), Working(z) PROVE Working(x)
  BY <1>1, <1>9 DEF Fails, Working, SameMembers, Taken
<1>10. ~Fails(h, x) => ToldBut(z, C, V, {h.what})
  BY <1>1, <1>3, <1>4, <1>5, <1>9 DEF InSync, ToldOK, ToldBut, SameMembers
<1>11. ~Fails(h, x) /\ h.kind # "sendUnsub" => ToldOK(z, C, V)
  BY <1>1, <1>3, <1>4, <1>5, <1>9 DEF InSync, ToldOK, SameMembers
<1>12. h.kind # "flushTopics" => WaitingOK(z, C)
  BY <1>1 DEF InSync, WaitingOK, LetIn, SameMembers, Popped
<1>13. h.kind = "sendUnsub" => \A t \in Topics : h.what = Unsub(t) => t \in D
  BY DEF InSync, Listed, Leaves, Popped
<1>14. QED
  BY <1>6, <1>8, <1>10, <1>11, <1>12, <1>13

-----------------------------------------------------------------------------
(* The functions the handlers are made of.                                  *)

\* Messages are queued and the queue is pumped on the connection that is up.
LEMMA SaysSync ==
  ASSUME NEW x, NEW y, NEW C, NEW D, NEW V, NEW M, x.connected,
         Listed(x, C, D), SocketOK(x), FreshOK(x), WaitingOK(x, C),
         ToldBut(x, C, V, M), Said(x, y, M), Sent(x, y),
         y.subscriptions = x.subscriptions, y.pendingTopics = x.pendingTopics,
         \A t \in Topics : Sub(t) \notin M /\ (Unsub(t) \in M => t \in D)
  PROVE  InSync(y, C, D, V)
<1>1. /\ y.connected /\ y.userClosed = x.userClosed
      /\ y.authenticated = x.authenticated /\ y.sockClosed = x.sockClosed
      /\ Broken(y) <=> Broken(x)
      /\ Has(y, Chain) <=> Has(x, Chain)
  <2>1. Chain \in Classes /\ Chain # Writes
    BY DEF Classes, Chain, Writes
  <2>2. QED
    BY <2>1 DEF Sent
<1>2. /\ \A m : OnWay(y, m) <=> OnWay(x, m) \/ m \in M
      /\ y.strand = x.strand
  BY DEF Said
<1>3. \A t : Leaves(y, C, t) <=> Leaves(x, C, t) \/ Unsub(t) \in M
  BY <1>2 DEF Leaves
<1>4. Ordered(x) => Ordered(y)
  BY DEF Said
<1>5. Listed(y, C, D)
  BY <1>3 DEF Listed
<1>6. ToldOK(y, C, V)
  BY <1>1, <1>2, <1>3, <1>4 DEF ToldBut, ToldOK, Working
<1>7. DownOK(y, V) /\ SocketOK(y) /\ FreshOK(y)
  BY <1>1 DEF DownOK, SocketOK, FreshOK
<1>8. WaitingOK(y, C)
  BY <1>1, <1>2 DEF WaitingOK, LetIn
<1>9. QED
  BY <1>5, <1>6, <1>7, <1>8 DEF InSync

\* The topics that wait are flushed.
LEMMA FlushSync ==
  ASSUME NEW x, NEW C, NEW D, NEW V, WellFormed(x), WriteTold(x), LetIn(x),
         Listed(x, C, D), SocketOK(x), FreshOK(x), ToldOK(x, C, V)
  PROVE  InSync(FlushTopics(x), C, D, V)
<1> DEFINE y == FlushTopics(x)
           M == {Sub(t) : t \in x.pendingTopics}
<1>1. /\ Said(x, y, M) /\ Sent(x, y)
      /\ y.subscriptions = x.subscriptions \cup x.pendingTopics
      /\ y.pendingTopics = {}
  BY FlushSays, FlushOK
<1>2. /\ \A t : Sub(t) \in M <=> t \in x.pendingTopics
      /\ \A t : Unsub(t) \notin M
  BY NamesOK
<1> HIDE DEF y, M
<1>3. /\ y.connected /\ y.userClosed = x.userClosed
      /\ y.authenticated = x.authenticated /\ y.sockClosed = x.sockClosed
      /\ Broken(y) <=> Broken(x)
      /\ Has(y, Chain) <=> Has(x, Chain)
  <2>1. Chain \in Classes /\ Chain # Writes
    BY DEF Classes, Chain, Writes
  <2>2. QED
    BY <1>1, <2>1 DEF Sent, LetIn
<1>4. /\ \A m : OnWay(y, m) <=> OnWay(x, m) \/ m \in M
      /\ y.strand = x.strand
  BY <1>1 DEF Said
<1>5. \A t : Leaves(y, C, t) <=> Leaves(x, C, t)
  BY <1>2, <1>4 DEF Leaves
<1>6. \A t \in x.pendingTopics : ~OnWay(x, Unsub(t))
  <2>1. x.pendingTopics \subseteq Topics
    BY DEF WellFormed, Session
  <2>2. QED
    BY <2>1 DEF Listed, Leaves
<1>7. Ordered(x) => Ordered(y)
  BY <1>1, <1>2, <1>6 DEF Said
<1>8. Listed(y, C, D)
  BY <1>1, <1>5 DEF Listed
<1>9. ToldOK(y, C, V)
  BY <1>1, <1>2, <1>3, <1>4, <1>5, <1>7 DEF ToldOK, Working, LetIn
<1>10. DownOK(y, V) /\ SocketOK(y) /\ FreshOK(y) /\ WaitingOK(y, C)
  BY <1>1, <1>3 DEF DownOK, SocketOK, FreshOK, WaitingOK, LetIn
<1>11. QED
  BY <1>8, <1>9, <1>10 DEF InSync, y

\* What the venue is left with after a handler took x to y.
Synced(x, y, C, D, V) ==
  InSync(y, C, D, IF y.generation # x.generation \/ y.sockClosed THEN {} ELSE V)

\* A session in step with V on the same connection; a closed socket has lost V.
LEMMA SameConnection ==
  ASSUME NEW x, NEW y, NEW C, NEW D, NEW V,
         InSync(y, C, D, V), y.generation = x.generation
  PROVE  Synced(x, y, C, D, V)
<1>1. CASE ~y.sockClosed
  BY <1>1 DEF Synced
<1>2. CASE y.sockClosed
  <2>1. ~Working(y)
    BY <1>2 DEF InSync, SocketOK, Working
  <2>2. ToldOK(y, C, {}) /\ DownOK(y, {})
    BY <2>1 DEF ToldOK, DownOK, InSync
  <2>3. InSync(y, C, D, {})
    BY <2>2 DEF InSync
  <2>4. QED
    BY <1>2, <2>3 DEF Synced
<1>3. QED
  BY <1>1, <1>2

\* Tearing a connection down leaves its write and the tasks of the strand alone.
Undisturbed(x, y) ==
  /\ Ops(y, Writes) = Ops(x, Writes)
  /\ \A m : Tasked(y.strand, m) <=> Tasked(x.strand, m)

\* handleError is such a step.
LEMMA TornQuietly ==
  ASSUME NEW x, WellFormed(x), NEW gen, Has(x, Waits) => x.reconnectScheduled,
         ~(gen # x.generation \/ x.reconnectScheduled \/ x.userClosed)
  PROVE  Undisturbed(x, HandleError(x, gen))
<1> DEFINE d == Min({2 * x.reconnectDelayS, 30})
           c == Cancel(x, "ping")
           z == [c EXCEPT
                   !.reconnectScheduled = TRUE, !.connected = FALSE,
                   !.authenticated = FALSE, !.writeInFlight = FALSE,
                   !.outboundQueue = <<>>, !.sockClosed = TRUE,
                   !.pendingTopics = @ \cup c.subscriptions,
                   !.subscriptions = {},
                   !.reconnectDelayS = d]
           y == Arm(z, "reconnect")
<1>1. /\ WellFormed(c) /\ SameMembers(x, c)
      /\ \A K \in Classes : Has(c, K) <=> Has(x, K)
  BY CancelOK
<1>2. Hush(x, c)
  BY CancelHush
<1>3. x \in Session /\ c \in Session
  BY <1>1 DEF WellFormed
<1>4. HandleError(x, gen) = y
  <2>1. c.subscriptions = x.subscriptions /\ c.reconnectDelayS = x.reconnectDelayS
    BY <1>1 DEF SameMembers
  <2>2. QED
    BY <2>1 DEF HandleError
<1>5. d \in {1, 2, 4, 8, 16, 30}
  BY <1>3, DoubledOK DEF Session
<1>6. <<>> \in Seq(Messages)
  OBVIOUS
<1> HIDE DEF c, d
<1>7. z \in Session /\ z.ops = c.ops /\ z.strand = c.strand /\ z.generation = c.generation
  <2>1. /\ c.subscriptions \in SUBSET Topics /\ c.pendingTopics \in SUBSET Topics
        /\ DOMAIN c = {"generation", "connected", "authenticated",
                      "reconnectScheduled", "userClosed", "writeInFlight",
                      "reconnectDelayS", "subscriptions", "pendingTopics",
                      "outboundQueue", "sockClosed", "ackGen", "ops", "strand"}
    BY <1>3 DEF Session
  <2>2. z \in Session
    BY <1>3, <1>5, <1>6, <2>1 DEF Session
  <2>3. QED
    BY <2>1, <2>2
<1> HIDE DEF z
<1>8. Still(c, z)
  BY <1>1, <1>7, StillOK
<1>9. ~Has(z, {"reconnect"})
  BY <1>1, <1>8 DEF Still, Classes, Waits
<1>10. Hush(z, y)
  BY <1>8, <1>9, ArmHush DEF Still
<1>11. Undisturbed(c, z)
  BY <1>7 DEF Undisturbed, Ops
<1>12. Undisturbed(x, c) /\ Undisturbed(z, y)
  BY <1>2, <1>10 DEF Undisturbed, Hush
<1>13. Undisturbed(x, y)
  BY <1>11, <1>12 DEF Undisturbed
<1>14. QED
  BY <1>4, <1>13

\* Once a connection is torn down nothing is said to be at the venue.
LEMMA TornSync ==
  ASSUME NEW x, NEW y, NEW C, NEW D, Listed(x, C, D), TornDown(x, y),
         Undisturbed(x, y), ~Has(x, Chain)
  PROVE  InSync(y, C, D, {})
<1>1. ~Has(y, Chain)
  <2>1. Chain \in Classes /\ Chain # Waits
    BY DEF Classes, Chain, Waits
  <2>2. QED
    BY <2>1 DEF TornDown
<1>2. \A m : OnWay(y, m) => OnWay(x, m)
  BY DEF TornDown, Undisturbed, OnWay, Writing, InQueue
<1>3. \A t : Leaves(y, C, t) => Leaves(x, C, t)
  BY <1>2 DEF Leaves, Undisturbed
<1>4. Listed(y, C, D)
  BY <1>3 DEF Listed, TornDown
<1>5. DownOK(y, {}) /\ SocketOK(y) /\ FreshOK(y) /\ ToldOK(y, C, {}) /\ WaitingOK(y, C)
  BY <1>1 DEF DownOK, SocketOK, FreshOK, ToldOK, Working, WaitingOK, LetIn, TornDown
<1>6. QED
  BY <1>4, <1>5 DEF InSync

\* A connection that fails is torn down; the error handler does nothing once it
\* was run for this connection or the session was closed.
LEMMA ErrorSync ==
  ASSUME NEW x, NEW v, NEW C, NEW D, NEW V,
         WellFormed(v), Has(v, Waits) => v.reconnectScheduled, ~Has(v, Chain),
         v.reconnectScheduled => ~v.connected, v.generation = x.generation,
         Listed(v, C, D), DownOK(v, V)
  PROVE  Synced(x, HandleError(v, v.generation), C, D, V)
<1> DEFINE y == HandleError(v, v.generation)
<1>1. CASE v.reconnectScheduled \/ v.userClosed
  <2>1. y = v
    BY <1>1 DEF HandleError
  <2>2. SocketOK(v) /\ FreshOK(v) /\ ToldOK(v, C, V) /\ WaitingOK(v, C)
    BY <1>1 DEF SocketOK, FreshOK, ToldOK, Working, WaitingOK, LetIn
  <2>3. InSync(v, C, D, V)
    BY <2>2 DEF InSync
  <2>4. QED
    BY <2>1, <2>3, SameConnection
<1>2. CASE ~(v.reconnectScheduled \/ v.userClosed)
  <2>1. TornDown(v, y) /\ Undisturbed(v, y)
    BY <1>2, HandleErrorOK, TornQuietly
  <2> HIDE DEF y
  <2>2. InSync(y, C, D, {})
    BY <2>1, TornSync
  <2>3. QED
    BY <2>1, <2>2 DEF Synced, TornDown, y
<1>3. QED
  BY <1>1, <1>2

\* A connection is begun after the one before was torn down.
LEMMA BeginSync ==
  ASSUME NEW x, NEW v, NEW C, NEW D, NEW V,
         WellFormed(v), ~v.userClosed, v.generation = x.generation, ~v.connected,
         v.outboundQueue = <<>>, Listed(v, C, D), DownOK(v, V)
  PROVE  Synced(x, StartConnect(v), C, D, V)
<1> DEFINE y == StartConnect(v)
<1>1. v \in Session /\ v.generation \in Nat
  BY DEF WellFormed, Session
<1>2. /\ ~Has(y, Writes) /\ y.generation = v.generation + 1
      /\ ~y.connected /\ ~y.authenticated
      /\ y.subscriptions = v.subscriptions /\ y.pendingTopics = v.pendingTopics
      /\ y.outboundQueue = v.outboundQueue
  <2>1. Writes \in Classes /\ Writes # Chain
    BY DEF Classes, Writes, Chain
  <2>2. QED
    BY <2>1, StartConnectOK
<1>3. ~y.sockClosed /\ y.strand = v.strand
  BY <1>1 DEF StartConnect, Session
<1> HIDE DEF y
<1>4. \A m : ~OnWay(y, m)
  BY <1>2 DEF OnWay, Writing, InQueue, Has
<1>5. Listed(y, C, D)
  BY <1>2, <1>3, <1>4 DEF Listed, Leaves
<1>6. DownOK(y, {}) /\ SocketOK(y) /\ FreshOK(y) /\ ToldOK(y, C, {}) /\ WaitingOK(y, C)
  BY <1>2, <1>3 DEF DownOK, SocketOK, FreshOK, ToldOK, Working, WaitingOK, LetIn, Has
<1>7. y.generation # x.generation
  BY <1>1, <1>2
<1>8. QED
  BY <1>5, <1>6, <1>7 DEF InSync, Synced, y

\* The next message is read.
LEMMA ReadNextSync ==
  ASSUME NEW x, NEW v, NEW C, NEW D, NEW V, WellFormed(v), ~Has(v, Reads),
         Synced(x, v, C, D, V)
  PROVE  Synced(x, ReadNext(v), C, D, V)
<1>1. CASE v.reconnectScheduled \/ ~v.connected
  BY <1>1 DEF ReadNext
<1>2. CASE ~(v.reconnectScheduled \/ ~v.connected)
  <2> DEFINE d == IF ~AuthRequired \/ v.authenticated THEN 1 ELSE v.reconnectDelayS
             w == [v EXCEPT !.reconnectDelayS = d]
             y == AsyncRead(w)
  <2>1. v \in Session
    BY DEF WellFormed
  <2>2. ReadNext(v) = y
    BY <1>2 DEF ReadNext
  <2>3. d \in {1, 2, 4, 8, 16, 30}
    BY <2>1 DEF Session
  <2> HIDE DEF d
  <2>4. /\ w \in Session /\ w.ops = v.ops /\ w.strand = v.strand
        /\ w.generation = v.generation /\ w.connected = v.connected
        /\ w.authenticated = v.authenticated /\ w.userClosed = v.userClosed
        /\ w.sockClosed = v.sockClosed
        /\ w.subscriptions = v.subscriptions
        /\ w.pendingTopics = v.pendingTopics
        /\ w.outboundQueue = v.outboundQueue
    BY <2>1, <2>3 DEF Session
  <2> HIDE DEF w
  <2>5. Still(v, w)
    BY <2>4, StillOK
  <2>6. Hush(v, w) /\ WellFormed(w) /\ ~Has(w, Reads)
    <3>1. Chain \in Classes /\ Reads \in Classes
      BY DEF Classes
    <3>2. Ops(w, Writes) = Ops(v, Writes)
      BY <2>4 DEF Ops
    <3>3. QED
      BY <2>4, <2>5, <3>1, <3>2 DEF Hush, Still
  <2>7. Hush(w, y)
    BY <2>6, ReadHush
  <2> HIDE DEF y
  <2>8. y.generation = v.generation /\ y.sockClosed = v.sockClosed
    BY <2>4, <2>7 DEF Hush
  <2>9. \A W : InSync(v, C, D, W) => InSync(y, C, D, W)
    BY <2>6, <2>7, HushOK
  <2>10. QED
    BY <2>2, <2>8, <2>9 DEF Synced
<1>3. QED
  BY <1>1, <1>2

-----------------------------------------------------------------------------
(* The handlers.                                                            *)

\* The session before a handler, and what taking the handler leaves.
Taking(x, z, h, C, D, V) ==
  /\ WellFormed(x) /\ Stages(x) /\ Single(x) /\ InSync(x, C, D, V)
  /\ Taken(x, z, h) /\ Popped(x, z, h)

\* The five classes of operations are classes, and differ.
LEMMA ClassesOK ==
  /\ Chain \in Classes /\ Reads \in Classes /\ Writes \in Classes
  /\ Pings \in Classes /\ Waits \in Classes
  /\ Reads # Writes /\ Reads # Pings /\ Reads # Waits /\ Reads # Chain
  /\ Writes # Pings /\ Writes # Waits /\ Writes # Chain
  /\ Pings # Waits /\ Pings # Chain /\ Waits # Chain
BY DEF Classes, Chain, Waits, Writes, Reads, Pings

\* What holds with a handler in hand.
LEMMA TakingOK ==
  ASSUME NEW x, NEW z, NEW h, NEW C, NEW D, NEW V, Taking(x, z, h, C, D, V)
  PROVE  /\ WellFormed(z) /\ z \in Session /\ SameMembers(x, z)
         /\ z.generation = x.generation /\ z.ops = x.ops
         /\ Listed(z, C, D) /\ DownOK(z, V) /\ SocketOK(z) /\ FreshOK(z)
         /\ ~Fails(h, x) => ToldBut(z, C, V, {h.what})
         /\ ~Fails(h, x) /\ h.kind # "sendUnsub" => ToldOK(z, C, V)
         /\ h.kind # "flushTopics" => WaitingOK(z, C)
         /\ z.reconnectScheduled => ~z.connected
         /\ Has(z, Waits) => z.reconnectScheduled
         /\ ~z.connected => z.outboundQueue = <<>>
         /\ ~(h.kind = "write" /\ h.gen = x.generation) => WriteTold(z)
<1>1. WellFormed(z) /\ SameMembers(x, z) /\ z.ops = x.ops
  BY DEF Taking, Taken
<1>2. z \in Session /\ z.generation = x.generation
  BY <1>1 DEF WellFormed, SameMembers
<1>3. /\ Listed(z, C, D) /\ DownOK(z, V) /\ SocketOK(z) /\ FreshOK(z)
      /\ ~Fails(h, x) => ToldBut(z, C, V, {h.what})
      /\ ~Fails(h, x) /\ h.kind # "sendUnsub" => ToldOK(z, C, V)
      /\ h.kind # "flushTopics" => WaitingOK(z, C)
  BY TakenSync DEF Taking
<1>4. /\ z.reconnectScheduled => ~z.connected
      /\ ~z.connected => z.outboundQueue = <<>>
  BY <1>1 DEF Taking, Single, Alone, Stages, SameMembers
<1>5. Has(z, Waits) => z.reconnectScheduled
  BY <1>1, ClassesOK DEF Taking, Stages, Taken, SameMembers
<1>6. ~(h.kind = "write" /\ h.gen = x.generation) => WriteTold(z)
  BY <1>1, ClassesOK DEF Taking, Taken, Stages, WriteTold, SameMembers, Writes
<1>7. QED
  BY <1>1, <1>2, <1>3, <1>4, <1>5, <1>6

\* The handler is of an old connection, or is not called back.
LEMMA SkipSync ==
  ASSUME NEW x, NEW z, NEW h, NEW C, NEW D, NEW V, Taking(x, z, h, C, D, V),
         h.kind \in Kinds, ~Fails(h, x) \/ z.userClosed
  PROVE  InSync(z, C, D, V) /\ Synced(x, z, C, D, V)
<1>1. h.kind # "sendUnsub" /\ h.kind # "flushTopics"
  BY DEF Kinds, Timers
<1>2. ToldOK(z, C, V)
  BY <1>1, TakingOK DEF ToldOK, Working
<1>3. InSync(z, C, D, V) /\ z.generation = x.generation
  BY <1>1, <1>2, TakingOK DEF InSync
<1>4. QED
  BY <1>3, SameConnection

\* A stage, a read or a ping wait of this connection ends in an error.
LEMMA FailSync ==
  ASSUME NEW x, NEW z, NEW h, NEW C, NEW D, NEW V, Taking(x, z, h, C, D, V),
         h.gen = z.generation, h.kind \in Chain \cup {"read", "ping"}
  PROVE  Synced(x, HandleError(z, h.gen), C, D, V)
<1>1. ~Has(z, Chain)
  <2>1. CASE h.kind \in Chain
    BY <2>1, TakingOK, ClassesOK DEF Taking, Taken
  <2>2. CASE h.kind \in {"read", "ping"}
    <3>1. Has(x, Reads) \/ Has(x, Pings)
      <4>1. h.gen = x.generation /\ Taken(x, z, h)
        BY TakingOK DEF Taking
      <4>2. h.kind \in Reads \/ h.kind \in Pings
        BY <2>2 DEF Reads, Pings
      <4>3. QED
        BY <4>1, <4>2, ClassesOK DEF Taken
    <3>2. h.kind \notin Chain
      BY <2>2 DEF Chain
    <3>3. ~Has(x, Chain)
      BY <3>1, ClassesOK DEF Taking, Stages
    <3>4. QED
      BY <3>2, <3>3, ClassesOK DEF Taking, Taken
  <2>3. QED
    BY <2>1, <2>2
<1>2. /\ WellFormed(z) /\ (Has(z, Waits) => z.reconnectScheduled)
      /\ (z.reconnectScheduled => ~z.connected)
      /\ z.generation = x.generation /\ Listed(z, C, D) /\ DownOK(z, V)
  BY TakingOK
<1>3. QED
  BY <1>1, <1>2, ErrorSync

\* A stage of the connect chain.
LEMMA StageSync ==
  ASSUME NEW x, NEW z, NEW h, NEW C, NEW D, NEW V, Taking(x, z, h, C, D, V),
         h.kind \in DOMAIN NextStage
  PROVE  Synced(x, OnStage(z, h), C, D, V)
<1>0. /\ h.kind \in Chain /\ h.kind \in Kinds /\ h.ok \in BOOLEAN
      /\ h.kind \notin {"read", "write"}
      /\ NextStage[h.kind] \in Chain /\ NextStage[h.kind] # "write"
  BY DEF NextStage, Chain, Kinds, Taking, Taken, Handler
<1>1. CASE h.gen # z.generation
  BY <1>0, <1>1, SkipSync DEF OnStage, Fails
<1>2. CASE h.gen = z.generation /\ ~h.ok
  BY <1>0, <1>2, FailSync DEF OnStage
<1>3. CASE h.gen = z.generation /\ h.ok
  <2> DEFINE y == OnStage(z, h)
             op == Op(NextStage[h.kind], h.gen, Nothing)
  <2>1. z \in Session /\ SameMembers(x, z) /\ z.generation = x.generation
    BY TakingOK
  <2>2. op.kind # "write"
    BY <1>0 DEF Op
  <2>3. y = [z EXCEPT !.ops = @ \cup {op},
                      !.sockClosed = IF h.kind = "resolve" THEN FALSE ELSE @]
    BY <1>3 DEF OnStage
  <2> HIDE DEF y, op
  <2>4. /\ y.ops = z.ops \cup {op} /\ y.strand = z.strand
        /\ y.generation = z.generation /\ y.connected = z.connected
        /\ y.authenticated = z.authenticated /\ y.userClosed = z.userClosed
        /\ y.sockClosed = (IF h.kind = "resolve" THEN FALSE ELSE z.sockClosed)
        /\ y.subscriptions = z.subscriptions /\ y.pendingTopics = z.pendingTopics
        /\ y.outboundQueue = z.outboundQueue
    BY <2>1, <2>3 DEF Session
  <2>5. Has(x, Chain) /\ ~x.connected /\ ~Has(z, Writes)
    BY <1>0, <1>3, <2>1, ClassesOK DEF Taking, Taken, Stages
  <2>6. Ops(y, Writes) = {}
    <3>1. Ops(z, Writes) = {}
      BY <2>5 DEF Has
    <3>2. QED
      BY <2>2, <2>4, <3>1 DEF Ops, Writes
  <2>7. ~y.connected /\ y.outboundQueue = <<>>
    BY <2>1, <2>4, <2>5, TakingOK DEF SameMembers
  <2>8. \A m : ~OnWay(y, m)
    BY <2>6, <2>7 DEF OnWay, Writing, InQueue
  <2>9. Listed(y, C, D)
    <3>1. Listed(z, C, D)
      BY TakingOK
    <3>2. QED
      BY <2>4, <2>8, <3>1 DEF Listed, Leaves
  <2>10. DownOK(y, V)
    <3>1. DownOK(z, V)
      BY TakingOK
    <3>2. QED
      BY <2>4, <2>6, <3>1 DEF DownOK
  <2>11. SocketOK(y) /\ FreshOK(y)
    <3>1. SocketOK(x) /\ FreshOK(x)
      BY DEF Taking, InSync
    <3>2. QED
      BY <2>1, <2>4, <2>5, <3>1 DEF SocketOK, FreshOK, SameMembers
  <2>12. ToldOK(y, C, V) /\ WaitingOK(y, C)
    BY <2>7 DEF ToldOK, Working, WaitingOK, LetIn
  <2>13. InSync(y, C, D, V) /\ y.generation = x.generation
    BY <2>1, <2>4, <2>9, <2>10, <2>11, <2>12 DEF InSync
  <2>14. QED
    BY <2>13, SameConnection DEF y
<1>4. QED
  BY <1>0, <1>1, <1>2, <1>3

\* A write has ended.
LEMMA WriteSync ==
  ASSUME NEW x, NEW z, NEW h, NEW C, NEW D, NEW V, Taking(x, z, h, C, D, V),
         h.kind = "write"
  PROVE  Synced(x, OnWrite(z, h), C, D, V)
<1>0. h.kind \in Kinds /\ h.ok \in BOOLEAN
  BY DEF Kinds, Taking, Taken, Handler
<1>1. CASE h.gen # z.generation
  <2>1. ~Fails(h, x)
    BY <1>1, TakingOK DEF Fails
  <2>2. QED
    BY <1>0, <1>1, <2>1, SkipSync DEF OnWrite
<1>2. CASE h.gen = z.generation
  <2> DEFINE w == [z EXCEPT !.writeInFlight = FALSE]
  <2>1. /\ WellFormed(z) /\ z \in Session /\ SameMembers(x, z)
        /\ z.generation = x.generation
    BY TakingOK
  <2>2. /\ w \in Session /\ w.ops = z.ops /\ w.strand = z.strand
        /\ w.generation = z.generation /\ w.connected = z.connected
        /\ w.authenticated = z.authenticated /\ w.userClosed = z.userClosed
        /\ w.reconnectScheduled = z.reconnectScheduled
        /\ ~w.writeInFlight /\ w.sockClosed = z.sockClosed
        /\ w.subscriptions = z.subscriptions
        /\ w.pendingTopics = z.pendingTopics
        /\ w.outboundQueue = z.outboundQueue
    BY <2>1 DEF Session
  <2> HIDE DEF w
  <2>3. Still(z, w)
    BY <2>1, <2>2, StillOK
  <2>4. Has(x, Writes) /\ ~Has(z, Writes)
    BY <1>2, <2>1, ClassesOK DEF Taking, Taken, Writes
  <2>5. WellFormed(w) /\ WriteTold(w) /\ Ops(w, Writes) = Ops(z, Writes)
    BY <2>2, <2>3, <2>4, ClassesOK DEF Still, WriteTold, Ops
  <2>6. Hush(z, w)
    BY <2>2, <2>3, <2>5, ClassesOK DEF Hush, Still
  <2>7. CASE h.ok
    <3>1. InSync(z, C, D, V)
      BY <1>0, <2>7, SkipSync DEF Fails
    <3>2. InSync(w, C, D, V)
      BY <2>6, <3>1, HushOK
    <3>3. InSync(Pump(w), C, D, V)
      <4>1. CASE w.connected
        <5>1. Said(w, Pump(w), {}) /\ Sent(w, Pump(w))
          BY <2>5, PumpSays, PumpOK
        <5>2. /\ Pump(w).subscriptions = w.subscriptions
              /\ Pump(w).pendingTopics = w.pendingTopics
          BY <2>5, PumpOK
        <5>3. ToldBut(w, C, V, {})
          BY <3>2 DEF InSync, ToldOK, ToldBut
        <5>4. QED
          BY <3>2, <4>1, <5>1, <5>2, <5>3, SaysSync DEF InSync
      <4>2. CASE ~w.connected
        BY <2>5, <3>2, <4>2, PumpOK
      <4>3. QED
        BY <4>1, <4>2
    <3>4. Pump(w).generation = x.generation
      BY <2>1, <2>2, <2>5, PumpOK DEF Sent
    <3>5. OnWrite(z, h) = Pump(w)
      BY <1>2, <2>7 DEF OnWrite, w
    <3>6. QED
      BY <3>3, <3>4, <3>5, SameConnection
  <2>8. CASE ~h.ok
    <3>1. OnWrite(z, h) = HandleError(w, w.generation)
      BY <1>2, <2>2, <2>8 DEF OnWrite, w
    <3>2. \A m : OnWay(w, m) <=> OnWay(z, m)
      BY <2>2, <2>5 DEF OnWay, Writing, InQueue
    <3>3. Listed(w, C, D)
      <4>1. Listed(z, C, D)
        BY TakingOK
      <4>2. QED
        BY <2>2, <3>2, <4>1 DEF Listed, Leaves
    <3>4. DownOK(w, V)
      <4>1. DownOK(z, V)
        BY TakingOK
      <4>2. QED
        BY <2>2, <2>5, <4>1 DEF DownOK
    <3>5. ~Has(w, Chain)
      <4>1. ~Has(x, Chain)
        BY <2>4, ClassesOK DEF Taking, Stages
      <4>2. QED
        BY <1>2, <2>3, <4>1, ClassesOK DEF Taking, Taken, Still, Chain
    <3>6. /\ Has(w, Waits) => w.reconnectScheduled
          /\ w.reconnectScheduled => ~w.connected
      BY <2>2, <2>3, TakingOK, ClassesOK DEF Still
    <3>7. w.generation = x.generation
      BY <2>1, <2>2
    <3>8. QED
      BY <2>5, <3>1, <3>3, <3>4, <3>5, <3>6, <3>7, ErrorSync
  <2>9. QED
    BY <1>0, <2>7, <2>8
<1>3. QED
  BY <1>1, <1>2

\* The handshake: the connection is up, and flushes or logs in.
LEMMA HandshakeSync ==
  ASSUME NEW x, NEW z, NEW h, NEW C, NEW D, NEW V, Taking(x, z, h, C, D, V),
         h.kind = "handshake"
  PROVE  Synced(x, OnHandshake(z, h), C, D, V)
<1>0. h.kind \in Chain /\ h.kind \in Kinds /\ h.ok \in BOOLEAN
  BY DEF Chain, Kinds, Taking, Taken, Handler
<1>1. CASE h.gen # z.generation
  BY <1>0, <1>1, SkipSync DEF OnHandshake, Fails
<1>2. CASE h.gen = z.generation /\ ~h.ok
  BY <1>0, <1>2, FailSync DEF OnHandshake
<1>3. CASE h.gen = z.generation /\ h.ok /\ z.userClosed
  BY <1>0, <1>3, SkipSync DEF OnHandshake
<1>4. CASE h.gen = z.generation /\ h.ok /\ ~z.userClosed
  <2> DEFINE u == [z EXCEPT !.connected = TRUE]
             up == Arm(u, "ping")
             v == IF AuthRequired THEN SendLogin(up) ELSE FlushTopics(up)
             y == AsyncRead(v)
  <2>1. /\ WellFormed(z) /\ z \in Session /\ SameMembers(x, z)
        /\ z.generation = x.generation
    BY TakingOK
  <2>2. OnHandshake(z, h) = y
    BY <1>4 DEF OnHandshake
  <2>3. /\ Has(x, Chain) /\ ~x.connected /\ ~x.writeInFlight
        /\ ~Has(z, Chain) /\ \A K \in Classes : K # Chain => ~Has(x, K)
    BY <1>0, <1>4, <2>1, ClassesOK DEF Taking, Taken, Stages
  <2>4. \A K \in Classes : ~Has(z, K)
    BY <2>3 DEF Taking, Taken
  <2>5. /\ u \in Session /\ u.ops = z.ops /\ u.strand = z.strand
        /\ u.generation = z.generation /\ u.connected
        /\ u.authenticated = z.authenticated /\ u.userClosed = z.userClosed
        /\ u.writeInFlight = z.writeInFlight /\ u.sockClosed = z.sockClosed
        /\ u.subscriptions = z.subscriptions
        /\ u.pendingTopics = z.pendingTopics
        /\ u.outboundQueue = z.outboundQueue
    BY <2>1 DEF Session
  <2> HIDE DEF u
  <2>6. Still(z, u)
    BY <2>1, <2>5, StillOK
  <2>7. /\ WellFormed(u) /\ ~Has(u, {"ping"}) /\ ~Has(u, Chain)
        /\ Ops(u, Writes) = {}
    BY <2>4, <2>6, ClassesOK DEF Still, Pings, Has
  <2>8. u.subscriptions = {} /\ V = {} /\ u.outboundQueue = <<>>
        /\ ~u.authenticated /\ ~u.sockClosed
    <3>1. DownOK(x, V) /\ SocketOK(x) /\ FreshOK(x) /\ Alone(x)
      BY DEF Taking, InSync, Single
    <3>2. ~x.userClosed
      BY <1>4, <2>1 DEF SameMembers
    <3>3. QED
      BY <2>1, <2>3, <2>5, <3>1, <3>2
         DEF DownOK, SocketOK, FreshOK, Alone, SameMembers
  <2>9. \A m : ~OnWay(u, m)
    BY <2>7, <2>8 DEF OnWay, Writing, InQueue
  <2>10. Listed(u, C, D)
    <3>1. Listed(z, C, D)
      BY TakingOK
    <3>2. QED
      BY <2>5, <2>9, <3>1 DEF Listed, Leaves
  <2>11. DownOK(u, V) /\ SocketOK(u) /\ FreshOK(u) /\ ToldOK(u, C, V)
    <3>1. Ordered(u)
      BY <2>7, <2>8 DEF Ordered, Writing
    <3>2. QED
      BY <2>5, <2>7, <2>8, <2>9, <3>1 DEF DownOK, SocketOK, FreshOK, ToldOK
  <2>12. Gains(u, up, Pings) /\ SameMembers(u, up)
    BY <2>7, ArmOK DEF Pings
  <2>13. Hush(u, up)
    BY <2>7, ArmHush
  <2> HIDE DEF up
  <2>14. WellFormed(up) /\ WriteTold(up) /\ up.connected /\ ~Has(up, Reads)
    <3>1. ~Has(up, Writes) /\ ~Has(up, Reads)
      BY <2>4, <2>6, <2>12, ClassesOK DEF Still, Gains
    <3>2. ~up.writeInFlight /\ up.connected
      BY <2>1, <2>3, <2>5, <2>12 DEF SameMembers
    <3>3. QED
      BY <2>12, <3>1, <3>2 DEF Gains, WriteTold
  <2>15. InSync(v, C, D, V) /\ Sent(up, v)
    <3>1. CASE AuthRequired
      <4>1. WaitingOK(u, C)
        BY <2>8, <3>1 DEF WaitingOK, LetIn
      <4>2. InSync(u, C, D, V)
        BY <2>10, <2>11, <4>1 DEF InSync
      <4>3. InSync(up, C, D, V)
        BY <2>13, <4>2, HushOK
      <4>4. v = Pump(EnqueueOp(up, Login))
        BY <3>1 DEF SendLogin
      <4>5. Said(up, v, {Login})
        BY <2>14, <4>4, EnqueueSays, MessagesOK
      <4>6. /\ Sent(up, v)
            /\ v.subscriptions = up.subscriptions
            /\ v.pendingTopics = up.pendingTopics
        BY <2>14, <4>4, EnqueuedOK, MessagesOK
      <4>7. ToldBut(up, C, V, {Login})
        BY <4>3 DEF InSync, ToldOK, ToldBut
      <4>8. \A t \in Topics : Sub(t) \notin {Login} /\ (Unsub(t) \in {Login} => t \in D)
        BY NamesOK
      <4> HIDE DEF v
      <4>9. QED
        BY <2>14, <4>3, <4>5, <4>6, <4>7, <4>8, SaysSync DEF InSync
    <3>2. CASE ~AuthRequired
      <4>1. v = FlushTopics(up) /\ LetIn(up)
        BY <2>14, <3>2 DEF LetIn
      <4>2. \A m : OnWay(up, m) <=> OnWay(u, m)
        BY <2>13 DEF Hush, OnWay, Writing, InQueue
      <4>3. Listed(up, C, D)
        BY <2>10, <2>13, <4>2 DEF Hush, Listed, Leaves
      <4>4. SocketOK(up) /\ FreshOK(up)
        BY <2>11, <2>13 DEF Hush, SocketOK, FreshOK
      <4>5. ToldOK(up, C, V)
        <5>1. up.subscriptions = {} /\ Ops(up, Writes) = {} /\ up.outboundQueue = <<>>
          BY <2>7, <2>8, <2>13 DEF Hush
        <5>2. Ordered(up)
          BY <5>1 DEF Ordered, Writing
        <5>3. QED
          BY <2>8, <2>9, <4>2, <5>1, <5>2 DEF ToldOK
      <4>6. InSync(FlushTopics(up), C, D, V)
        BY <2>14, <4>1, <4>3, <4>4, <4>5, FlushSync
      <4>7. Sent(up, FlushTopics(up))
        BY <2>14, FlushOK
      <4>8. QED
        BY <4>1, <4>6, <4>7
    <3>3. QED
      BY <3>1, <3>2
  <2> HIDE DEF v
  <2>16. WellFormed(v) /\ ~Has(v, Reads)
    BY <2>14, <2>15, ClassesOK DEF Sent
  <2>17. Hush(v, y)
    BY <2>16, ReadHush
  <2>18. InSync(y, C, D, V)
    BY <2>15, <2>17, HushOK
  <2>19. y.generation = x.generation
    BY <2>1, <2>5, <2>13, <2>15, <2>17 DEF Hush, Sent
  <2>20. QED
    BY <2>2, <2>18, <2>19, SameConnection
<1>5. QED
  BY <1>0, <1>1, <1>2, <1>3, <1>4

\* A message was read: the ack of the login flushes the topics.
LEMMA ReadSync ==
  ASSUME NEW x, NEW z, NEW h, NEW C, NEW D, NEW V, Taking(x, z, h, C, D, V),
         h.kind = "read"
  PROVE  Synced(x, OnRead(z, h), C, D, V)
<1>0. h.kind \in Kinds /\ h.ok \in BOOLEAN
  BY DEF Kinds, Taking, Taken, Handler
<1>1. CASE h.gen # z.generation
  <2>1. ~Fails(h, x)
    BY <1>1, TakingOK DEF Fails
  <2>2. QED
    BY <1>0, <1>1, <2>1, SkipSync DEF OnRead
<1>2. CASE h.gen = z.generation /\ (~h.ok \/ h.what = <<"garbage">>)
  BY <1>2, FailSync DEF OnRead
<1>3. CASE h.gen = z.generation /\ h.ok /\ h.what # <<"garbage">>
  <2> DEFINE v == Dispatch(z, h)
  <2>1. /\ WellFormed(z) /\ z \in Session /\ z.generation = x.generation
        /\ WriteTold(z)
        /\ Has(z, Waits) => z.reconnectScheduled
    BY TakingOK
  <2>2. ~Has(z, Reads) /\ Has(x, Reads)
    BY <1>3, <2>1, ClassesOK DEF Taking, Taken, Reads
  <2>3. ~Has(z, Chain)
    <3>1. ~Has(x, Chain)
      BY <2>2, ClassesOK DEF Taking, Stages
    <3>2. h.kind \notin Chain
      BY DEF Chain
    <3>3. QED
      BY <3>1, <3>2, ClassesOK DEF Taking, Taken
  <2>4. OnRead(z, h) = ReadNext(v)
    BY <1>3 DEF OnRead, ReadNext
  <2>5. InSync(z, C, D, V) /\ Synced(x, z, C, D, V)
    BY <1>0, <1>3, SkipSync DEF Fails
  <2>6. WellFormed(v) /\ ~Has(v, Reads) /\ Synced(x, v, C, D, V)
    <3>1. CASE h.what = <<"loginOk">>
      <4> DEFINE w == [z EXCEPT !.authenticated = TRUE, !.ackGen = z.generation,
                                !.reconnectDelayS = 1]
      <4>1. v = FlushTopics(w)
        BY <3>1 DEF Dispatch
      <4>2. /\ w \in Session /\ w.ops = z.ops /\ w.strand = z.strand
            /\ w.generation = z.generation /\ w.connected = z.connected
            /\ w.authenticated /\ w.userClosed = z.userClosed
            /\ w.writeInFlight = z.writeInFlight /\ w.sockClosed = z.sockClosed
            /\ w.subscriptions = z.subscriptions
            /\ w.pendingTopics = z.pendingTopics
            /\ w.outboundQueue = z.outboundQueue
        BY <2>1 DEF Session
      <4> HIDE DEF w
      <4>3. Still(z, w)
        BY <2>1, <4>2, StillOK
      <4>4. /\ WellFormed(w) /\ WriteTold(w) /\ ~Has(w, Reads) /\ ~Has(w, Chain)
            /\ Ops(w, Writes) = Ops(z, Writes) /\ (Broken(w) <=> Broken(z))
        <5>1. \A K \in Classes : Has(w, K) <=> Has(z, K)
          BY <4>3 DEF Still
        <5>2. Ops(w, Writes) = Ops(z, Writes)
          BY <4>2 DEF Ops
        <5>3. WellFormed(w) /\ (Broken(w) <=> Broken(z))
          BY <4>3 DEF Still
        <5>4. WriteTold(w)
          BY <2>1, <4>2, <5>1, ClassesOK DEF WriteTold
        <5>5. QED
          BY <2>2, <2>3, <5>1, <5>2, <5>3, <5>4, ClassesOK
      <4>5. \A m : OnWay(w, m) <=> OnWay(z, m)
        BY <4>2, <4>4 DEF OnWay, Writing, InQueue
      <4>6. Ordered(z) => Ordered(w)
        BY <4>2, <4>4 DEF Ordered, Writing, InQueue
      <4>7. \A t : Leaves(w, C, t) <=> Leaves(z, C, t)
        BY <4>2, <4>5 DEF Leaves
      <4>8. Listed(w, C, D)
        BY <2>5, <4>2, <4>7 DEF InSync, Listed
      <4>9. SocketOK(w) /\ FreshOK(w) /\ DownOK(w, V)
        BY <2>5, <4>2, <4>4 DEF InSync, SocketOK, FreshOK, DownOK
      <4>10. ToldOK(w, C, V)
        BY <2>5, <4>2, <4>4, <4>5, <4>6, <4>7 DEF InSync, ToldOK, Working
      <4>11. InSync(v, C, D, V)
        <5>1. CASE w.connected
          <6>1. LetIn(w)
            BY <4>2, <5>1 DEF LetIn
          <6>2. QED
            BY <4>1, <4>4, <4>8, <4>9, <4>10, <6>1, FlushSync
        <5>2. CASE ~w.connected
          <6>1. v = w
            BY <4>1, <4>4, <5>2, FlushOK
          <6>2. WaitingOK(w, C)
            BY <5>2 DEF WaitingOK, LetIn
          <6>3. QED
            BY <4>8, <4>9, <4>10, <6>1, <6>2 DEF InSync
        <5>3. QED
          BY <5>1, <5>2
      <4>12. Sent(w, v)
        BY <4>1, <4>4, FlushOK
      <4> HIDE DEF v
      <4>13. WellFormed(v) /\ ~Has(v, Reads) /\ v.generation = x.generation
        BY <2>1, <4>2, <4>4, <4>12, ClassesOK DEF Sent
      <4>14. QED
        BY <4>11, <4>13, SameConnection
    <3>2. CASE h.what = <<"loginFail">>
      <4>1. v = HandleError(z, h.gen)
        BY <3>2 DEF Dispatch
      <4>2. Synced(x, v, C, D, V)
        BY <1>3, <4>1, FailSync
      <4>3. v = z \/ TornDown(z, v)
        BY <2>1, <4>1, HandleErrorOK
      <4>4. WellFormed(v) /\ ~Has(v, Reads)
        BY <2>1, <2>2, <4>3, ClassesOK DEF TornDown
      <4>5. QED
        BY <4>2, <4>4
    <3>3. CASE h.what # <<"loginOk">> /\ h.what # <<"loginFail">>
      <4>1. v = z
        BY <3>3 DEF Dispatch
      <4>2. QED
        BY <2>1, <2>2, <2>5, <4>1
    <3>4. QED
      BY <3>1, <3>2, <3>3
  <2> HIDE DEF v
  <2>7. QED
    BY <2>4, <2>6, ReadNextSync
<1>4. QED
  BY <1>0, <1>1, <1>2, <1>3

\* The ping timer.
LEMMA PingSync ==
  ASSUME NEW x, NEW z, NEW h, NEW C, NEW D, NEW V, Taking(x, z, h, C, D, V),
         h.kind = "ping"
  PROVE  Synced(x, OnPingTimer(z, h), C, D, V)
<1> DEFINE overdue == \/ h.what = <<"noPong">>
                      \/ h.what = <<"noAck">> /\ AuthRequired /\ ~z.authenticated
<1>0. h.kind \in Kinds /\ h.ok \in BOOLEAN
  BY DEF Kinds, Timers, Taking, Taken, Handler
<1>1. InSync(z, C, D, V) /\ Synced(x, z, C, D, V)
  BY <1>0, SkipSync DEF Fails
<1>2. CASE ~h.ok \/ h.gen # z.generation \/ z.userClosed
  BY <1>1, <1>2 DEF OnPingTimer
<1>3. CASE h.ok /\ h.gen = z.generation /\ ~z.userClosed
  <2>1. WellFormed(z) /\ WriteTold(z) /\ z.generation = x.generation
    BY TakingOK
  <2>2. ~Has(z, Pings)
    BY <1>3, <2>1, ClassesOK DEF Taking, Taken, Pings
  <2>3. CASE ~z.connected
    <3>1. OnPingTimer(z, h) = Arm(z, "ping")
      BY <1>3, <2>3 DEF OnPingTimer
    <3>2. Hush(z, Arm(z, "ping"))
      BY <2>1, <2>2, ArmHush DEF Pings
    <3>3. InSync(Arm(z, "ping"), C, D, V)
      BY <1>1, <3>2, HushOK
    <3>4. Arm(z, "ping").generation = x.generation
      BY <2>1, <3>2 DEF Hush
    <3>5. QED
      BY <3>1, <3>3, <3>4, SameConnection
  <2>4. CASE z.connected /\ overdue
    <3>1. OnPingTimer(z, h) = HandleError(z, h.gen)
      BY <1>3, <2>4 DEF OnPingTimer
    <3>2. QED
      BY <1>3, <3>1, FailSync
  <2>5. CASE z.connected /\ ~overdue
    <3> DEFINE v == Pump(EnqueueOp(z, Ping))
    <3>1. OnPingTimer(z, h) = Arm(v, "ping")
      BY <1>3, <2>5 DEF OnPingTimer
    <3>2. Said(z, v, {Ping})
      BY <2>1, EnqueueSays, MessagesOK
    <3>3. /\ Sent(z, v)
          /\ v.subscriptions = z.subscriptions
          /\ v.pendingTopics = z.pendingTopics
      BY <2>1, <2>5, EnqueuedOK, MessagesOK
    <3> HIDE DEF v
    <3>4. ToldBut(z, C, V, {Ping})
      BY <1>1 DEF InSync, ToldOK, ToldBut
    <3>5. \A t \in Topics : Sub(t) \notin {Ping} /\ (Unsub(t) \in {Ping} => t \in D)
      BY NamesOK
    <3>6. InSync(v, C, D, V)
      BY <1>1, <2>5, <3>2, <3>3, <3>4, <3>5, SaysSync DEF InSync
    <3>7. WellFormed(v) /\ ~Has(v, {"ping"}) /\ v.generation = x.generation
      BY <2>1, <2>2, <3>3, ClassesOK DEF Sent, Pings
    <3>8. Hush(v, Arm(v, "ping"))
      BY <3>7, ArmHush
    <3>9. InSync(Arm(v, "ping"), C, D, V)
      BY <3>6, <3>8, HushOK
    <3>10. Arm(v, "ping").generation = x.generation
      BY <3>7, <3>8 DEF Hush
    <3>11. QED
      BY <3>1, <3>9, <3>10, SameConnection
  <2>6. QED
    BY <2>3, <2>4, <2>5
<1>4. QED
  BY <1>0, <1>2, <1>3

\* The reconnect timer.
LEMMA ReconnectSync ==
  ASSUME NEW x, NEW z, NEW h, NEW C, NEW D, NEW V, Taking(x, z, h, C, D, V),
         h.kind = "reconnect"
  PROVE  Synced(x, OnReconnectTimer(z, h), C, D, V)
<1>0. h.kind \in Kinds /\ h.ok \in BOOLEAN
  BY DEF Kinds, Timers, Taking, Taken, Handler
<1>1. InSync(z, C, D, V) /\ Synced(x, z, C, D, V)
  BY <1>0, SkipSync DEF Fails
<1>2. CASE h.gen # z.generation
  BY <1>1, <1>2 DEF OnReconnectTimer
<1>3. CASE h.gen = z.generation
  <2> DEFINE w == [z EXCEPT !.reconnectScheduled = FALSE]
  <2>1. /\ WellFormed(z) /\ z \in Session /\ z.generation = x.generation
        /\ SameMembers(x, z)
    BY TakingOK
  <2>2. ~z.connected /\ z.outboundQueue = <<>>
    <3>1. Has(x, Waits)
      BY <1>3, <2>1, ClassesOK DEF Taking, Taken, Waits
    <3>2. ~x.connected
      BY <3>1 DEF Taking, Stages
    <3>3. QED
      BY <2>1, <3>2, TakingOK DEF SameMembers
  <2>3. /\ w \in Session /\ w.ops = z.ops /\ w.strand = z.strand
        /\ w.generation = z.generation /\ w.connected = z.connected
        /\ w.authenticated = z.authenticated /\ w.userClosed = z.userClosed
        /\ w.sockClosed = z.sockClosed
        /\ w.subscriptions = z.subscriptions
        /\ w.pendingTopics = z.pendingTopics
        /\ w.outboundQueue = z.outboundQueue
    BY <2>1 DEF Session
  <2>4. OnReconnectTimer(z, h) = IF h.ok THEN StartConnect(w) ELSE w
    BY <1>3 DEF OnReconnectTimer
  <2> HIDE DEF w
  <2>5. Still(z, w) /\ WellFormed(w)
    BY <2>1, <2>3, StillOK DEF Still
  <2>6. Hush(z, w)
    <3>1. Ops(w, Writes) = Ops(z, Writes)
      BY <2>3 DEF Ops
    <3>2. QED
      BY <2>3, <2>5, <3>1, ClassesOK DEF Hush, Still
  <2>7. InSync(w, C, D, V) /\ w.generation = x.generation
    BY <1>1, <2>1, <2>3, <2>6, HushOK
  <2>8. CASE ~h.ok \/ w.userClosed
    <3>1. OnReconnectTimer(z, h) = w
      BY <2>4, <2>8 DEF StartConnect
    <3>2. QED
      BY <2>7, <3>1, SameConnection
  <2>9. CASE h.ok /\ ~w.userClosed
    <3>1. ~w.connected /\ w.outboundQueue = <<>>
      BY <2>2, <2>3
    <3>2. Synced(x, StartConnect(w), C, D, V)
      BY <2>5, <2>7, <2>9, <3>1, BeginSync DEF InSync
    <3>3. QED
      BY <2>4, <2>9, <3>2
  <2>10. QED
    BY <1>0, <2>8, <2>9
<1>4. QED
  BY <1>2, <1>3

\* The task that run() posts.
LEMMA StartSync ==
  ASSUME NEW x, NEW z, NEW h, NEW C, NEW D, NEW V, Taking(x, z, h, C, D, V),
         h.kind = "startConnect"
  PROVE  Synced(x, StartConnect(z), C, D, V)
<1>1. /\ WellFormed(z) /\ SameMembers(x, z) /\ z.generation = x.generation
      /\ Listed(z, C, D) /\ DownOK(z, V) /\ SocketOK(z) /\ FreshOK(z)
      /\ ToldOK(z, C, V) /\ WaitingOK(z, C)
      /\ ~z.connected => z.outboundQueue = <<>>
  BY TakingOK DEF Fails
<1>2. ~z.connected
  <2>1. Starts(x) # {}
    BY DEF Taking, Taken
  <2>2. ~x.connected
    BY <2>1 DEF Taking, Single, Alone
  <2>3. QED
    BY <1>1, <2>2 DEF SameMembers
<1>3. CASE z.userClosed
  <2>1. StartConnect(z) = z
    BY <1>3 DEF StartConnect
  <2>2. InSync(z, C, D, V)
    BY <1>1 DEF InSync
  <2>3. QED
    BY <1>1, <2>1, <2>2, SameConnection
<1>4. CASE ~z.userClosed
  BY <1>1, <1>2, <1>4, BeginSync
<1>5. QED
  BY <1>3, <1>4

\* The task that flushes the topics.
LEMMA FlushTaskSync ==
  ASSUME NEW x, NEW z, NEW h, NEW C, NEW D, NEW V, Taking(x, z, h, C, D, V),
         h.kind = "flushTopics"
  PROVE  Synced(x, FlushTopics(z), C, D, V)
<1>1. /\ WellFormed(z) /\ z.generation = x.generation /\ WriteTold(z)
      /\ Listed(z, C, D) /\ DownOK(z, V) /\ SocketOK(z) /\ FreshOK(z)
      /\ ToldOK(z, C, V)
  BY TakingOK DEF Fails
<1>2. InSync(FlushTopics(z), C, D, V)
  <2>1. CASE LetIn(z)
    BY <1>1, <2>1, FlushSync
  <2>2. CASE ~LetIn(z)
    <3>1. FlushTopics(z) = z
      BY <2>2 DEF FlushTopics, LetIn
    <3>2. WaitingOK(z, C)
      BY <2>2 DEF WaitingOK
    <3>3. QED
      BY <1>1, <3>1, <3>2 DEF InSync
  <2>3. QED
    BY <2>1, <2>2
<1>3. FlushTopics(z).generation = x.generation
  BY <1>1, FlushOK DEF Sent
<1>4. QED
  BY <1>2, <1>3, SameConnection

\* The task that queues an unsubscription.
LEMMA UnsubSync ==
  ASSUME NEW x, NEW z, NEW h, NEW C, NEW D, NEW V, Taking(x, z, h, C, D, V),
         h.kind = "sendUnsub"
  PROVE  Synced(x, SendUnsub(z, h.what), C, D, V)
<1>1. /\ WellFormed(z) /\ z.generation = x.generation /\ WriteTold(z)
      /\ Listed(z, C, D) /\ DownOK(z, V) /\ SocketOK(z) /\ FreshOK(z)
      /\ ToldBut(z, C, V, {h.what}) /\ WaitingOK(z, C)
  BY TakingOK DEF Fails
<1>2. h.what \in Unsubs
  BY DEF Taking, Taken, Sound
<1>3. CASE z.connected
  <2> DEFINE y == Pump(EnqueueOp(z, h.what))
  <2>1. SendUnsub(z, h.what) = y
    BY <1>3 DEF SendUnsub
  <2>2. h.what \in Messages /\ h.what \notin Subs
    BY <1>2, MessagesOK
  <2>3. Said(z, y, {h.what})
    BY <1>1, <2>2, EnqueueSays
  <2>4. /\ Sent(z, y)
        /\ y.subscriptions = z.subscriptions
        /\ y.pendingTopics = z.pendingTopics
    BY <1>1, <1>3, <2>2, EnqueuedOK
  <2>5. \A t \in Topics : Sub(t) \notin {h.what} /\ (Unsub(t) \in {h.what} => t \in D)
    <3>1. \A t \in Topics : h.what = Unsub(t) => t \in D
      BY TakenSync DEF Taking
    <3>2. \A t \in Topics : h.what # Sub(t)
      BY <2>2 DEF Subs
    <3>3. QED
      BY <3>1, <3>2
  <2> HIDE DEF y
  <2>6. InSync(y, C, D, V)
    BY <1>1, <1>3, <2>3, <2>4, <2>5, SaysSync
  <2>7. y.generation = x.generation
    BY <1>1, <2>4 DEF Sent
  <2>8. QED
    BY <2>1, <2>6, <2>7, SameConnection
<1>4. CASE ~z.connected
  <2>1. SendUnsub(z, h.what) = z
    BY <1>4 DEF SendUnsub
  <2>2. ToldOK(z, C, V)
    BY <1>4 DEF ToldOK, Working
  <2>3. InSync(z, C, D, V)
    BY <1>1, <2>2 DEF InSync
  <2>4. QED
    BY <1>1, <2>1, <2>3, SameConnection
<1>5. QED
  BY <1>3, <1>4

\* The task that close() posts.
LEMMA CloseSync ==
  ASSUME NEW x, NEW z, NEW h, NEW C, NEW D, NEW V, Taking(x, z, h, C, D, V),
         h.kind = "closeByUser"
  PROVE  Synced(x, CloseByUser(z), C, D, V)
<1>1. /\ WellFormed(z) /\ z.generation = x.generation
      /\ Listed(z, C, D) /\ DownOK(z, V) /\ SocketOK(z) /\ FreshOK(z)
      /\ ToldOK(z, C, V) /\ WaitingOK(z, C)
  BY TakingOK DEF Fails
<1>2. InSync(z, C, D, V)
  BY <1>1 DEF InSync
<1>3. CASE z.userClosed
  <2>1. CloseByUser(z) = z
    BY <1>3 DEF CloseByUser
  <2>2. QED
    BY <1>1, <1>2, <2>1, SameConnection
<1>4. CASE ~z.userClosed
  <2> DEFINE a == Cancel(z, "ping")
             b == Cancel(a, "reconnect")
             c == Cancel(b, "resolve")
             shut == c.sockClosed \/ ~(z.connected /\ IsOpen(z) /\ ~z.writeInFlight)
             y == CloseByUser(z)
  <2>1. WellFormed(a) /\ Hush(z, a)
    BY <1>1, CancelOK, CancelHush
  <2> HIDE DEF a
  <2>2. WellFormed(b) /\ Hush(a, b)
    BY <2>1, CancelOK, CancelHush
  <2> HIDE DEF b
  <2>3. WellFormed(c) /\ Hush(b, c)
    BY <2>2, CancelOK, CancelHush
  <2>4. y = [c EXCEPT !.userClosed = TRUE, !.sockClosed = shut]
    BY <1>4 DEF CloseByUser, a, b
  <2> HIDE DEF c
  <2>5. InSync(c, C, D, V) /\ c \in Session /\ c.generation = x.generation
    <3>1. InSync(c, C, D, V)
      BY <1>2, <2>1, <2>2, <2>3, HushOK
    <3>2. QED
      BY <1>1, <2>1, <2>2, <2>3, <3>1 DEF WellFormed, Hush
  <2>6. shut \in BOOLEAN /\ (c.sockClosed => shut)
    OBVIOUS
  <2> HIDE DEF shut, y
  <2>7. /\ y.ops = c.ops /\ y.strand = c.strand
        /\ y.generation = c.generation /\ y.connected = c.connected
        /\ y.authenticated = c.authenticated /\ y.userClosed
        /\ y.sockClosed = shut
        /\ y.subscriptions = c.subscriptions
        /\ y.pendingTopics = c.pendingTopics
        /\ y.outboundQueue = c.outboundQueue
    BY <2>4, <2>5, <2>6 DEF Session
  <2>8. Ops(y, Writes) = Ops(c, Writes) /\ (Has(y, Chain) <=> Has(c, Chain))
    BY <2>7 DEF Ops, Has, Places
  <2>9. \A m : OnWay(y, m) <=> OnWay(c, m)
    BY <2>7, <2>8 DEF OnWay, Writing, InQueue
  <2>10. Listed(y, C, D)
    BY <2>5, <2>7, <2>9 DEF InSync, Listed, Leaves
  <2>11. DownOK(y, V) /\ FreshOK(y)
    BY <2>5, <2>6, <2>7, <2>8 DEF InSync, DownOK, FreshOK
  <2>12. SocketOK(y) /\ ToldOK(y, C, V) /\ WaitingOK(y, C)
    BY <2>7 DEF SocketOK, ToldOK, Working, WaitingOK
  <2>13. InSync(y, C, D, V) /\ y.generation = x.generation
    BY <2>5, <2>7, <2>10, <2>11, <2>12 DEF InSync
  <2>14. QED
    BY <2>13, SameConnection DEF y
<1>5. QED
  BY <1>3, <1>4

\* Whatever handler is taken, it keeps the lists in step.
LEMMA HandleSync ==
  ASSUME NEW x, NEW z, NEW h, NEW C, NEW D, NEW V, Taking(x, z, h, C, D, V)
  PROVE  Synced(x, Handle(z, h), C, D, V)
<1>1. h.kind \in Kinds \cup TaskKinds
  BY DEF Taking, Taken, Handler
<1>2. DOMAIN NextStage = {"resolve", "connect", "tls"}
  BY DEF NextStage
<1>3. CASE h.kind \in DOMAIN NextStage
  BY <1>2, <1>3, StageSync DEF Handle
<1>4. CASE h.kind = "handshake"
  BY <1>2, <1>4, HandshakeSync DEF Handle
<1>5. CASE h.kind = "read"
  BY <1>2, <1>5, ReadSync DEF Handle
<1>6. CASE h.kind = "write"
  BY <1>2, <1>6, WriteSync DEF Handle
<1>7. CASE h.kind = "ping"
  BY <1>2, <1>7, PingSync DEF Handle
<1>8. CASE h.kind = "reconnect"
  BY <1>2, <1>8, ReconnectSync DEF Handle
<1>9. CASE h.kind = "startConnect"
  BY <1>2, <1>9, StartSync DEF Handle
<1>10. CASE h.kind = "flushTopics"
  BY <1>2, <1>10, FlushTaskSync DEF Handle
<1>11. CASE h.kind = "sendUnsub"
  BY <1>2, <1>11, UnsubSync DEF Handle
<1>12. CASE h.kind = "closeByUser"
  BY <1>2, <1>12, CloseSync DEF Handle
<1>13. QED
  BY <1>1, <1>2, <1>3, <1>4, <1>5, <1>6, <1>7, <1>8, <1>9, <1>10, <1>11, <1>12
     DEF Kinds, TaskKinds, Timers

-----------------------------------------------------------------------------
(* Operations complete.                                                     *)

\* y is x after op ended.
Ended(x, y, op) ==
  /\ WellFormed(y) /\ SameMembers(x, y) /\ y.ops = x.ops \ {op}
  /\ Has(y, Chain) <=> Has(x, Chain)
  /\ Broken(x) => Broken(y)
  /\ \A m : Tasked(y.strand, m) <=> Tasked(x.strand, m)
  /\ Flushed(y.strand) <=> Flushed(x.strand)

\* An operation that ends leaves its handler on the strand.
LEMMA EndedIs ==
  ASSUME NEW x, WellFormed(x), NEW op \in x.ops, NEW ok \in BOOLEAN,
         NEW what \in Payloads,
         NEW y, y = [x EXCEPT !.ops = @ \ {op},
                              !.strand = Append(@, Ready(op, ok, what))]
  PROVE  /\ Ended(x, y, op)
         /\ op.kind = "write" /\ op.gen = x.generation /\ ~ok => Broken(y)
<1> DEFINE r == Ready(op, ok, what)
           q == <<r>>
<1>1. Moved(x, y, q)
  BY CompletesOK
<1>2. x \in Session /\ x.strand \in Seq(Handler) /\ y \in Session
  BY <1>1 DEF WellFormed, Session, Moved
<1>3. op \in [kind : Kinds, gen : Nat, what : Payloads]
  BY <1>2 DEF Session
<1>4. /\ r \in Handler /\ r.kind \in Kinds
      /\ r.kind = op.kind /\ r.gen = op.gen /\ r.ok = ok
  BY <1>3 DEF Ready, Handler
<1>5. y.ops = x.ops \ {op} /\ y.strand = Append(x.strand, r)
  BY <1>2 DEF Session
<1> HIDE DEF r
<1>6. /\ q \in Seq(Handler) /\ Len(q) = 1 /\ q[1] = r
      /\ y.strand = x.strand \o q
  BY <1>2, <1>4, <1>5
<1> HIDE DEF q
<1>7. /\ \A m : Tasked(y.strand, m) <=> Tasked(x.strand, m)
      /\ Flushed(y.strand) <=> Flushed(x.strand)
  <2>1. \A i \in 1..Len(q) : q[i].kind \in Kinds
    BY <1>4, <1>6
  <2>2. x \in Session /\ y \in Session /\ q \in Seq(Handler) /\ y.strand = x.strand \o q
    BY <1>2, <1>6
  <2>3. QED
    BY ONLY <2>1, <2>2, LongerTasks
<1>8. Ended(x, y, op)
  BY <1>1, <1>5, <1>7, ClassesOK DEF Moved, Ended
<1>9. ASSUME op.kind = "write", op.gen = x.generation, ~ok PROVE Broken(y)
  <2>1. Longer(x, y, q)
    BY <1>2, <1>6, AppendedPlaces
  <2>2. /\ Len(x.strand) + 1 \in DOMAIN y.strand
        /\ y.strand[Len(x.strand) + 1] = r
    BY <1>6, <2>1 DEF Longer
  <2>3. y.generation = x.generation
    BY <1>1 DEF Moved, SameMembers
  <2>4. QED
    BY <1>4, <1>9, <2>2, <2>3 DEF Broken, Places, Writes
<1>10. QED
  BY <1>8, <1>9

\* ... without the venue taking a message.
LEMMA EndedSync ==
  ASSUME NEW x, NEW y, NEW op, NEW C, NEW D, NEW V, InSync(x, C, D, V),
         Ended(x, y, op),
         op.kind = "write" /\ op.gen = x.generation => Broken(y)
  PROVE  InSync(y, C, D, V)
<1>1. SameMembers(x, y) /\ Ops(y, Writes) \subseteq Ops(x, Writes)
  BY DEF Ended, Ops, SameMembers
<1>2. CASE op.kind = "write" /\ op.gen = x.generation
  <2>1. \A m : OnWay(y, m) => OnWay(x, m)
    BY <1>1 DEF OnWay, Writing, InQueue, SameMembers
  <2>2. Listed(y, C, D)
    BY <1>1, <2>1 DEF InSync, Listed, Leaves, Ended, SameMembers
  <2>3. DownOK(y, V)
    BY <1>1 DEF InSync, DownOK, SameMembers
  <2>4. SocketOK(y) /\ FreshOK(y) /\ WaitingOK(y, C)
    BY <1>1 DEF InSync, SocketOK, FreshOK, WaitingOK, LetIn, SameMembers, Ended
  <2>5. ToldOK(y, C, V)
    BY <1>2 DEF ToldOK, Working
  <2>6. QED
    BY <2>2, <2>3, <2>4, <2>5 DEF InSync
<1>3. CASE ~(op.kind = "write" /\ op.gen = x.generation)
  <2>1. Ops(y, Writes) = Ops(x, Writes)
    BY <1>1, <1>3 DEF Ended, Ops, SameMembers, Writes
  <2>2. Hush(x, y)
    BY <1>1, <2>1 DEF Hush, Ended, SameMembers
  <2>3. QED
    BY <2>2, HushOK
<1>4. QED
  BY <1>2, <1>3

\* The venue takes the message that was being written.
Taught(V, m) == {t \in V \cup Topics : m = Sub(t) \/ (t \in V /\ m # Unsub(t))}

\* The venue does what a message that was written says.
LEMMA WrittenSync ==
  ASSUME NEW x, WellFormed(x), NEW y, NEW op \in x.ops, NEW C, NEW D,
         NEW V \in SUBSET Topics, InSync(x, C, D, V), Ended(x, y, op),
         op.kind = "write", op.gen = x.generation, ~x.sockClosed
  PROVE  InSync(y, C, D, Taught(V, op.what))
<1> DEFINE W == Taught(V, op.what)
<1>1. SameMembers(x, y) /\ op \in Ops(x, Writes)
  BY DEF Ended, Ops, Writes
<1>2. Ops(x, Writes) = {op} /\ Ops(y, Writes) = {}
  <2>1. \A o, p \in Ops(x, Writes) : o = p
    BY ClassesOK DEF WellFormed, Lone
  <2>2. Ops(x, Writes) = {op}
    BY <1>1, <2>1
  <2>3. QED
    BY <1>1, <2>2 DEF Ended, Ops, SameMembers
<1>3. ASSUME NEW m
      PROVE  /\ Writing(x, m) <=> m = op.what
             /\ OnWay(y, m) <=> InQueue(x, m)
             /\ OnWay(x, m) <=> m = op.what \/ InQueue(x, m)
  BY <1>1, <1>2 DEF OnWay, Writing, InQueue, SameMembers
<1>4. x.connected /\ y.connected
  BY <1>1 DEF InSync, DownOK, SameMembers
<1>5. ASSUME NEW t
      PROVE  /\ Leaves(y, C, t) => Leaves(x, C, t)
             /\ Leaves(x, C, t) => Leaves(y, C, t) \/ op.what = Unsub(t)
  BY <1>3 DEF Leaves, Ended
<1>6. Listed(y, C, D)
  BY <1>1, <1>5 DEF InSync, Listed, SameMembers
<1>7. DownOK(y, W) /\ SocketOK(y) /\ FreshOK(y) /\ WaitingOK(y, C)
  BY <1>1, <1>4
     DEF InSync, DownOK, SocketOK, FreshOK, WaitingOK, LetIn, SameMembers, Ended
<1>8. ASSUME Working(y) PROVE ToldOK(y, C, W)
  <2>1. /\ \A t \in x.subscriptions : t \in V \/ OnWay(x, Sub(t))
        /\ \A t \in Topics : t \in V \/ OnWay(x, Sub(t)) =>
                               t \in x.subscriptions \/ Leaves(x, C, t)
        /\ Ordered(x)
    BY <1>1, <1>8 DEF InSync, ToldOK, Working, SameMembers, Ended
  <2>2. ASSUME NEW t \in y.subscriptions PROVE t \in W \/ OnWay(y, Sub(t))
    <3>1. t \in x.subscriptions /\ t \in Topics
      BY <1>1 DEF SameMembers, WellFormed, Session
    <3>2. op.what # Unsub(t)
      BY <1>3, <3>1 DEF InSync, Listed, Leaves
    <3>3. QED
      BY <1>3, <2>1, <3>1, <3>2 DEF Taught
  <2>3. ASSUME NEW t \in Topics, t \in W \/ OnWay(y, Sub(t))
        PROVE  t \in y.subscriptions \/ Leaves(y, C, t)
    <3>1. y.subscriptions = x.subscriptions
      BY <1>1 DEF SameMembers
    <3>2. CASE t \in W
      <4>1. t \in V \/ OnWay(x, Sub(t))
        BY <1>3, <3>2 DEF Taught
      <4>2. op.what # Unsub(t)
        BY <3>2, NamesOK DEF Taught
      <4>3. QED
        BY <1>5, <2>1, <3>1, <4>1, <4>2
    <3>3. CASE OnWay(y, Sub(t))
      <4>1. InQueue(x, Sub(t)) /\ OnWay(x, Sub(t))
        BY <1>3, <3>3
      <4>2. op.what # Unsub(t)
        BY <1>3, <2>1, <4>1 DEF Ordered
      <4>3. QED
        BY <1>5, <2>1, <3>1, <4>1, <4>2
    <3>4. QED
      BY <2>3, <3>2, <3>3
  <2>4. Ordered(y)
    BY <1>1, <1>2, <2>1 DEF Ordered, Writing, SameMembers
  <2>5. QED
    BY <2>2, <2>3, <2>4 DEF ToldOK
<1>9. ToldOK(y, C, W)
  BY <1>8 DEF ToldOK
<1>10. QED
  BY <1>6, <1>7, <1>9 DEF InSync

-----------------------------------------------------------------------------
(* Every step keeps it.                                                     *)

SInv == IInv /\ (runs = 1 => InSync(s, calling, dropped, venueSubs))

\* The invariant holds at first.
LEMMA InitSync == Init => SInv
<1> SUFFICES ASSUME Init PROVE SInv
  OBVIOUS
<1>1. IInv
  BY InitOK
<1>2. PICK topics \in {{}} \cup {{t} : t \in Topics} : s = Initially(topics)
  BY DEF Init
<1>3. /\ ~s.connected /\ ~s.authenticated /\ s.subscriptions = {}
      /\ s.outboundQueue = <<>> /\ s.ops = {}
      /\ s.strand = <<Task("startConnect", Nothing)>> /\ ~s.sockClosed
  BY <1>2 DEF Initially
<1>4. Ops(s, Writes) = {}
  BY <1>3 DEF Ops
<1>5. \A m : ~OnWay(s, m)
  BY <1>3, <1>4 DEF OnWay, Writing, InQueue
<1>6. \A m : ~Tasked(s.strand, m) /\ ~Tasked(<<>>, m)
  <2>1. DOMAIN s.strand = {1} /\ s.strand[1].kind = "startConnect"
    BY <1>3, TaskFacts
  <2>2. QED
    BY <2>1 DEF Tasked
<1>7. calling = <<>> /\ dropped = {} /\ venueSubs = {}
  BY DEF Init
<1>8. Listed(s, calling, dropped)
  BY <1>5, <1>6, <1>7 DEF Listed, Leaves
<1>9. /\ DownOK(s, venueSubs) /\ SocketOK(s) /\ FreshOK(s)
      /\ ToldOK(s, calling, venueSubs) /\ WaitingOK(s, calling)
  BY <1>3, <1>4, <1>7 DEF DownOK, SocketOK, FreshOK, ToldOK, Working, WaitingOK, LetIn
<1>10. QED
  BY <1>1, <1>8, <1>9 DEF SInv, InSync

\* A handler of the strand runs.
LEMMA RunStrandSync ==
  ASSUME SInv, RunStrand, runs = 1
  PROVE  InSync(s', calling', dropped', venueSubs')
<1> DEFINE h == Head(s.strand)
           z == [s EXCEPT !.strand = Tail(@)]
<1>1. /\ WellFormed(s) /\ Stages(s) /\ Single(s)
      /\ InSync(s, calling, dropped, venueSubs) /\ s.strand # <<>>
  BY DEF SInv, IInv, RunStrand
<1>2. Taken(s, z, h) /\ Popped(s, z, h)
  BY <1>1, TakeOK, PoppedOK
<1>3. s' = Handle(z, h)
  BY DEF RunStrand
<1> HIDE DEF z, h
<1>4. Synced(s, s', calling, dropped, venueSubs)
  BY <1>1, <1>2, <1>3, HandleSync DEF Taking
<1>5. /\ venueSubs' = (IF s'.generation # s.generation \/ s'.sockClosed
                       THEN {} ELSE venueSubs)
      /\ UNCHANGED <<calling, dropped>>
  BY DEF RunStrand
<1>6. QED
  BY <1>4, <1>5 DEF Synced

\* An operation ends.
LEMMA OpSync ==
  ASSUME SInv, runs = 1, NEW op \in s.ops,
         \/ Progress(op) \/ LoginAnswered(op) \/ ReadSucceeds(op) \/ PingTick(op)
  PROVE  InSync(s', calling', dropped', venueSubs')
<1>1. WellFormed(s) /\ InSync(s, calling, dropped, venueSubs)
  BY DEF SInv, IInv
<1>2. /\ Nothing \in Payloads
      /\ \A what \in {<<"loginOk">>, <<"loginFail">>, <<"data">>, <<"garbage">>,
                      <<"onTime">>, <<"noPong">>, <<"noAck">>} : what \in Payloads
  BY MessagesOK DEF Payloads
<1>3. ASSUME NEW ok \in BOOLEAN, NEW what \in Payloads, Completes(op, ok, what),
             UNCHANGED <<calling, dropped, venueSubs>>, op.kind = "write" => ~ok
      PROVE  InSync(s', calling', dropped', venueSubs')
  <2>1. /\ Ended(s, s', op)
        /\ op.kind = "write" /\ op.gen = s.generation /\ ~ok => Broken(s')
    BY <1>1, <1>3, EndedIs DEF Completes
  <2>2. op.kind = "write" /\ op.gen = s.generation => Broken(s')
    BY <1>3, <2>1
  <2>3. InSync(s', calling, dropped, venueSubs)
    BY <1>1, <2>1, <2>2, EndedSync
  <2>4. QED
    BY <1>3, <2>3
<1>4. CASE OpFails(op)
  <2>1. Completes(op, FALSE, Nothing) /\ UNCHANGED <<calling, dropped, venueSubs>>
    BY <1>4 DEF OpFails
  <2>2. QED
    BY <1>2, <1>3, <2>1
<1>5. CASE StageSucceeds(op)
  <2>1. /\ Completes(op, TRUE, Nothing) /\ UNCHANGED <<calling, dropped, venueSubs>>
        /\ op.kind # "write"
    BY <1>5 DEF StageSucceeds, NextStage
  <2>2. QED
    BY <1>2, <1>3, <2>1
<1>6. CASE WriteSucceeds(op)
  <2>1. /\ op.kind = "write" /\ op.gen = s.generation /\ ~s.sockClosed
        /\ Completes(op, TRUE, Nothing) /\ UNCHANGED <<calling, dropped>>
    BY <1>6 DEF WriteSucceeds, Alive
  <2>2. venueSubs' = Taught(venueSubs, op.what)
    BY <1>6 DEF WriteSucceeds, Taught
  <2>3. Ended(s, s', op)
    BY <1>1, <1>2, <2>1, EndedIs DEF Completes
  <2>4. venueSubs \in SUBSET Topics
    BY DEF SInv, IInv
  <2>5. InSync(s', calling, dropped, Taught(venueSubs, op.what))
    BY <1>1, <2>1, <2>3, <2>4, WrittenSync
  <2>6. QED
    BY <2>1, <2>2, <2>5
<1>7. CASE ReconnectTick(op)
  <2>1. /\ Completes(op, TRUE, Nothing) /\ UNCHANGED <<calling, dropped, venueSubs>>
        /\ op.kind # "write"
    BY <1>7 DEF ReconnectTick
  <2>2. QED
    BY <1>2, <1>3, <2>1
<1>8. CASE LoginAnswered(op)
  <2>1. PICK what \in {<<"loginOk">>, <<"loginFail">>} : Completes(op, TRUE, what)
    BY <1>8 DEF LoginAnswered
  <2>2. UNCHANGED <<calling, dropped, venueSubs>> /\ op.kind # "write"
    BY <1>8 DEF LoginAnswered
  <2>3. QED
    BY <1>2, <1>3, <2>1, <2>2
<1>9. CASE ReadSucceeds(op)
  <2>1. PICK what \in {<<"data">>, <<"garbage">>} : Completes(op, TRUE, what)
    BY <1>9 DEF ReadSucceeds
  <2>2. UNCHANGED <<calling, dropped, venueSubs>> /\ op.kind # "write"
    BY <1>9 DEF ReadSucceeds
  <2>3. QED
    BY <1>2, <1>3, <2>1, <2>2
<1>10. CASE PingTick(op)
  <2>1. PICK what \in {<<"onTime">>, <<"noPong">>, <<"noAck">>} :
          Completes(op, TRUE, what)
    BY <1>10 DEF PingTick
  <2>2. UNCHANGED <<calling, dropped, venueSubs>> /\ op.kind # "write"
    BY <1>10 DEF PingTick
  <2>3. QED
    BY <1>2, <1>3, <2>1, <2>2
<1>11. QED
  BY <1>4, <1>5, <1>6, <1>7, <1>8, <1>9, <1>10 DEF Progress

\* The lists change under the session's lock, and nothing else does.
OnlyLists(x, y) ==
  /\ y.connected = x.connected /\ y.authenticated = x.authenticated
  /\ y.userClosed = x.userClosed /\ y.sockClosed = x.sockClosed
  /\ y.strand = x.strand /\ Ops(y, Writes) = Ops(x, Writes)
  /\ \A m : OnWay(y, m) <=> OnWay(x, m)
  /\ Ordered(y) <=> Ordered(x)
  /\ Working(y) <=> Working(x)
  /\ Has(y, Chain) <=> Has(x, Chain)

\* WithLists changes the lists alone.
LEMMA ListsSync ==
  ASSUME NEW x, WellFormed(x),
         NEW subscribed \in SUBSET Topics, NEW pending \in SUBSET Topics
  PROVE  /\ OnlyLists(x, WithLists(x, subscribed, pending))
         /\ WithLists(x, subscribed, pending).subscriptions = subscribed
         /\ WithLists(x, subscribed, pending).pendingTopics = pending
<1> DEFINE y == WithLists(x, subscribed, pending)
<1>1. x \in Session
  BY DEF WellFormed
<1>2. /\ y.ops = x.ops /\ y.strand = x.strand
      /\ y.generation = x.generation /\ y.connected = x.connected
      /\ y.authenticated = x.authenticated /\ y.userClosed = x.userClosed
      /\ y.sockClosed = x.sockClosed /\ y.outboundQueue = x.outboundQueue
      /\ y.subscriptions = subscribed /\ y.pendingTopics = pending
  BY <1>1 DEF Session, WithLists
<1> HIDE DEF y
<1>3. Ops(y, Writes) = Ops(x, Writes) /\ (Has(y, Chain) <=> Has(x, Chain))
  BY <1>2 DEF Ops, Has, Places
<1>4. /\ \A m : Writing(y, m) <=> Writing(x, m)
      /\ \A m : InQueue(y, m) <=> InQueue(x, m)
  BY <1>2, <1>3 DEF Writing, InQueue
<1>5. \A m : OnWay(y, m) <=> OnWay(x, m)
  BY <1>4 DEF OnWay
<1>6. Ordered(y) <=> Ordered(x)
  BY <1>2, <1>4 DEF Ordered
<1>7. Working(y) <=> Working(x)
  BY <1>2 DEF Working, Broken, Places
<1>8. OnlyLists(x, y)
  BY <1>2, <1>3, <1>5, <1>6, <1>7 DEF OnlyLists
<1>9. QED
  BY <1>2, <1>8 DEF y

\* What a call leaves to post.
LEMMA CallTasks ==
  /\ \A m : ~Tasked(<<>>, m)
  /\ ~Flushed(<<>>)
  /\ \A k, what, m : Tasked(<<Task(k, what)>>, m) <=> k = "sendUnsub" /\ what = m
  /\ Flushed(<<Task("flushTopics", Nothing)>>)
BY DEF Tasked, Flushed, Task

\* subscribe().
LEMMA SubscribeSync ==
  ASSUME SInv, runs = 1, ~Resubscribe, NEW t \in Topics, Subscribe(t)
  PROVE  InSync(s', calling', dropped', venueSubs')
<1> DEFINE pending == IF t \in s.subscriptions THEN s.pendingTopics
                      ELSE s.pendingTopics \cup {t}
<1>1. /\ WellFormed(s) /\ Stages(s) /\ s \in Session
      /\ InSync(s, calling, dropped, venueSubs) /\ calling = <<>>
  BY DEF SInv, IInv, WellFormed, Subscribe
<1>2. s.subscriptions \in SUBSET Topics /\ pending \in SUBSET Topics
  BY <1>1 DEF Session
<1>3. s' = WithLists(s, s.subscriptions, pending)
  BY <1>1 DEF Subscribe, AddTopic, Session, WithLists
<1>4. /\ calling' = <<Task("flushTopics", Nothing)>>
      /\ UNCHANGED <<dropped, venueSubs>> /\ t \notin dropped
  BY DEF Subscribe
<1>5. /\ OnlyLists(s, s')
      /\ s'.subscriptions = s.subscriptions /\ s'.pendingTopics = pending
  BY <1>1, <1>2, <1>3, ListsSync
<1>6. \A m : ~Tasked(calling', m) /\ ~Tasked(calling, m)
  BY <1>1, <1>4, CallTasks
<1>7. \A u : Leaves(s', calling', u) <=> Leaves(s, calling, u)
  BY <1>5, <1>6 DEF Leaves, OnlyLists
<1>8. Listed(s', calling', dropped)
  BY <1>1, <1>4, <1>5, <1>7 DEF InSync, Listed
<1>9. DownOK(s', venueSubs) /\ SocketOK(s') /\ FreshOK(s')
  BY <1>1, <1>5 DEF InSync, DownOK, SocketOK, FreshOK, OnlyLists
<1>10. ToldOK(s', calling', venueSubs)
  BY <1>1, <1>5, <1>7 DEF InSync, ToldOK, OnlyLists
<1>11. WaitingOK(s', calling')
  BY <1>4, CallTasks DEF WaitingOK
<1>12. QED
  BY <1>4, <1>8, <1>9, <1>10, <1>11 DEF InSync

\* unsubscribe().
LEMMA UnsubscribeSync ==
  ASSUME SInv, runs = 1, NEW t \in Topics, Unsubscribe(t)
  PROVE  InSync(s', calling', dropped', venueSubs')
<1>1. /\ WellFormed(s) /\ Stages(s) /\ s \in Session
      /\ InSync(s, calling, dropped, venueSubs) /\ calling = <<>>
  BY DEF SInv, IInv, WellFormed, Unsubscribe
<1>2. /\ s.subscriptions \ {t} \in SUBSET Topics
      /\ s.pendingTopics \ {t} \in SUBSET Topics
  BY <1>1 DEF Session
<1>3. s' = WithLists(s, s.subscriptions \ {t}, s.pendingTopics \ {t})
  BY DEF Unsubscribe, RemoveTopic, WithLists
<1>4. /\ calling' = (IF t \in s.subscriptions
                     THEN <<Task("sendUnsub", Unsub(t))>> ELSE <<>>)
      /\ venueSubs' = venueSubs /\ dropped' = dropped \cup {t}
  BY DEF Unsubscribe
<1>5. /\ OnlyLists(s, s')
      /\ s'.subscriptions = s.subscriptions \ {t}
      /\ s'.pendingTopics = s.pendingTopics \ {t}
  BY <1>1, <1>2, <1>3, ListsSync
<1>6. /\ \A m : ~Tasked(calling, m)
      /\ \A m : Tasked(calling', m) <=> t \in s.subscriptions /\ m = Unsub(t)
  BY <1>1, <1>4, CallTasks
<1>7. \A u : Leaves(s', calling', u) <=>
               Leaves(s, calling, u) \/ (t \in s.subscriptions /\ u = t)
  BY <1>5, <1>6, NamesOK DEF Leaves, OnlyLists
<1>8. Listed(s', calling', dropped')
  BY <1>1, <1>4, <1>5, <1>7 DEF InSync, Listed
<1>9. DownOK(s', venueSubs) /\ SocketOK(s') /\ FreshOK(s')
  BY <1>1, <1>5 DEF InSync, DownOK, SocketOK, FreshOK, OnlyLists
<1>10. ToldOK(s', calling', venueSubs)
  BY <1>1, <1>5, <1>7 DEF InSync, ToldOK, OnlyLists
<1>11. WaitingOK(s', calling')
  BY <1>1, <1>5, CallTasks DEF InSync, WaitingOK, LetIn, OnlyLists
<1>12. QED
  BY <1>4, <1>8, <1>9, <1>10, <1>11 DEF InSync

\* close().
LEMMA CloseCallSync ==
  ASSUME SInv, runs = 1, Close
  PROVE  InSync(s', calling', dropped', venueSubs')
<1>1. InSync(s, calling, dropped, venueSubs) /\ calling = <<>>
  BY DEF SInv, Close
<1>2. /\ calling' = <<Task("closeByUser", Nothing)>>
      /\ s' = s /\ dropped' = dropped /\ venueSubs' = venueSubs
  BY DEF Close
<1>3. \A m : ~Tasked(calling, m) /\ ~Tasked(calling', m)
  BY <1>1, <1>2, CallTasks
<1>4. \A u : Leaves(s, calling', u) <=> Leaves(s, calling, u)
  BY <1>3 DEF Leaves
<1>5. Listed(s, calling', dropped) /\ ToldOK(s, calling', venueSubs)
  BY <1>1, <1>4 DEF InSync, Listed, ToldOK
<1>6. WaitingOK(s, calling')
  BY <1>1, CallTasks DEF InSync, WaitingOK
<1>7. QED
  BY <1>1, <1>2, <1>5, <1>6 DEF InSync

\* A task of the user call reaches the strand.
LEMMA PostSync ==
  ASSUME SInv, runs = 1, Post
  PROVE  InSync(s', calling', dropped', venueSubs')
<1>1. /\ WellFormed(s) /\ calling \in Seq(Handler)
      /\ \A i \in 1..Len(calling) :
           calling[i].kind \in TaskKinds /\ Sound(calling[i], s.generation)
      /\ InSync(s, calling, dropped, venueSubs)
  BY DEF SInv, IInv, TasksOK
<1>2. /\ s' = [s EXCEPT !.strand = @ \o calling] /\ calling' = <<>>
      /\ dropped' = dropped /\ venueSubs' = venueSubs
  BY DEF Post
<1>3. Posted(s, s', calling)
  BY <1>1, <1>2, PostedOK
<1>4. s \in Session /\ s' \in Session /\ s'.strand = s.strand \o calling
  BY <1>1, <1>2, <1>3 DEF Posted, WellFormed, Session
<1>5. Longer(s, s', calling)
  BY <1>1, <1>4, AppendedPlaces
<1>6. DOMAIN calling = 1..Len(calling)
  BY <1>1, LenProperties
<1>7. ASSUME NEW m
      PROVE  Tasked(s'.strand, m) <=> Tasked(s.strand, m) \/ Tasked(calling, m)
  <2>1. Tasked(s'.strand, m) => Tasked(s.strand, m) \/ Tasked(calling, m)
    <3>1. ASSUME NEW i \in DOMAIN s'.strand,
                 s'.strand[i].kind = "sendUnsub", s'.strand[i].what = m
          PROVE  Tasked(s.strand, m) \/ Tasked(calling, m)
      <4>1. CASE i \in DOMAIN s.strand
        BY <1>5, <3>1, <4>1 DEF Tasked, Longer
      <4>2. CASE i \notin DOMAIN s.strand
        <5>1. /\ i - Len(s.strand) \in DOMAIN calling
              /\ s'.strand[i] = calling[i - Len(s.strand)]
          BY <1>5, <1>6, <4>2 DEF Longer
        <5>2. QED
          BY <3>1, <5>1 DEF Tasked
      <4>3. QED
        BY <4>1, <4>2
    <3>2. QED
      BY <3>1 DEF Tasked
  <2>2. Tasked(s.strand, m) => Tasked(s'.strand, m)
    BY <1>5 DEF Tasked, Longer
  <2>3. Tasked(calling, m) => Tasked(s'.strand, m)
    BY <1>5, <1>6 DEF Tasked, Longer
  <2>4. QED
    BY <2>1, <2>2, <2>3
<1>8. Flushed(s.strand) \/ Flushed(calling) => Flushed(s'.strand)
  <2>1. Flushed(s.strand) => Flushed(s'.strand)
    BY <1>5 DEF Flushed, Longer
  <2>2. Flushed(calling) => Flushed(s'.strand)
    BY <1>5, <1>6 DEF Flushed, Longer
  <2>3. QED
    BY <2>1, <2>2
<1>9. /\ SameMembers(s, s') /\ s'.ops = s.ops
      /\ Has(s', Chain) <=> Has(s, Chain)
      /\ Broken(s') <=> Broken(s)
  BY <1>3, ClassesOK DEF Posted
<1>10. Ops(s', Writes) = Ops(s, Writes)
  BY <1>9 DEF Ops, SameMembers
<1>11. /\ \A m : OnWay(s', m) <=> OnWay(s, m)
       /\ Ordered(s) => Ordered(s')
  BY <1>9, <1>10 DEF OnWay, Writing, InQueue, Ordered, SameMembers
<1>12. \A u : Leaves(s', calling', u) <=> Leaves(s, calling, u)
  BY <1>2, <1>7, <1>11, CallTasks DEF Leaves
<1>13. Listed(s', calling', dropped)
  BY <1>1, <1>9, <1>12 DEF InSync, Listed, SameMembers
<1>14. DownOK(s', venueSubs) /\ SocketOK(s') /\ FreshOK(s')
  BY <1>1, <1>9, <1>10 DEF InSync, DownOK, SocketOK, FreshOK, SameMembers
<1>15. ToldOK(s', calling', venueSubs)
  BY <1>1, <1>9, <1>11, <1>12 DEF InSync, ToldOK, Working, SameMembers
<1>16. WaitingOK(s', calling')
  BY <1>1, <1>8, <1>9 DEF InSync, WaitingOK, LetIn, SameMembers
<1>17. QED
  BY <1>2, <1>13, <1>14, <1>15, <1>16 DEF InSync

\* Every step keeps the invariant.
LEMMA StepSync ==
  ASSUME ~Resubscribe, SInv, [Next]_vars
  PROVE  SInv'
<1>1. IInv'
  BY StepOK DEF SInv
<1>2. ASSUME runs' = 1 PROVE InSync(s', calling', dropped', venueSubs')
  <2>1. CASE RunStrand
    BY <1>2, <2>1, RunStrandSync DEF RunStrand, bounds
  <2>2. ASSUME NEW op \in s.ops,
               \/ Progress(op) \/ LoginAnswered(op)
               \/ ReadSucceeds(op) \/ PingTick(op)
        PROVE  InSync(s', calling', dropped', venueSubs')
    <3>1. runs' = runs
      BY <2>2 DEF Progress, OpFails, StageSucceeds, WriteSucceeds, ReconnectTick,
                  LoginAnswered, ReadSucceeds, PingTick, bounds
    <3>2. QED
      BY <1>2, <2>2, <3>1, OpSync
  <2>3. ASSUME NEW t \in Topics, Subscribe(t) \/ Unsubscribe(t)
        PROVE  InSync(s', calling', dropped', venueSubs')
    <3>1. runs' = runs
      BY <2>3 DEF Subscribe, Unsubscribe
    <3>2. QED
      BY <1>2, <2>3, <3>1, SubscribeSync, UnsubscribeSync
  <2>4. CASE RunAgain
    <3>1. runs' = runs + 1 /\ runs \in Nat \ {0}
      BY <2>4 DEF RunAgain, SInv, IInv
    <3>2. QED
      BY <1>2, <3>1
  <2>5. CASE Close
    BY <1>2, <2>5, CloseCallSync DEF Close
  <2>6. CASE Post
    BY <1>2, <2>6, PostSync DEF Post, bounds
  <2>7. CASE UNCHANGED vars
    BY <1>2, <2>7 DEF vars, bounds, SInv
  <2>8. QED
    BY <2>1, <2>2, <2>3, <2>4, <2>5, <2>6, <2>7 DEF Next, User
<1>3. QED
  BY <1>1, <1>2 DEF SInv

\* "All subscriptions are replayed", and none that was given up: whenever nothing
\* is under way on a connection that was let in, the venue streams exactly the
\* topics of the active list and no topic still waits, after any number of
\* subscribe and unsubscribe calls, failures and reconnects.  A topic that is
\* subscribed again after it was unsubscribed is left out: its two messages can
\* be posted in either order.
THEOREM VenueFollows ==
  ASSUME ~Resubscribe
  PROVE  Spec => []VenueInSync
<1>1. SInv /\ [Next]_vars => SInv'
  BY StepSync
<1>2. SInv => VenueInSync
  <2> SUFFICES ASSUME SInv, Quiet PROVE venueSubs = s.subscriptions /\ s.pendingTopics = {}
    BY DEF VenueInSync
  <2>1. /\ InSync(s, calling, dropped, venueSubs) /\ WellFormed(s) /\ Stages(s)
        /\ venueSubs \subseteq Topics /\ s.subscriptions \subseteq Topics
    BY DEF SInv, IInv, Quiet, WellFormed, Session
  <2>2. /\ s.connected /\ ~s.userClosed /\ (AuthRequired => s.authenticated)
        /\ s.strand = <<>> /\ calling = <<>> /\ s.outboundQueue = <<>>
        /\ ~s.writeInFlight
    BY DEF Quiet
  <2>3. ~Has(s, Writes)
    BY <2>1, <2>2 DEF Stages, WriteTold
  <2>4. \A m : ~OnWay(s, m) /\ ~Tasked(s.strand, m) /\ ~Tasked(calling, m)
    BY <2>2, <2>3, CallTasks DEF OnWay, Writing, InQueue, Has
  <2>5. ~Flushed(s.strand) /\ ~Flushed(calling)
    BY <2>2, CallTasks
  <2>6. Working(s) /\ LetIn(s)
    BY <2>2 DEF Working, Broken, Places, LetIn
  <2>7. s.pendingTopics = {}
    BY <2>1, <2>2, <2>5, <2>6 DEF InSync, WaitingOK
  <2>8. /\ \A t \in s.subscriptions : t \in venueSubs
        /\ \A t \in venueSubs : t \in s.subscriptions
    BY <2>1, <2>4, <2>6 DEF InSync, ToldOK, Leaves
  <2>9. QED
    BY <2>7, <2>8
<1>3. QED
  BY InitSync, <1>1, <1>2, PTL DEF Spec

=============================================================================
