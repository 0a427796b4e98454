---------------------------- MODULE SocketLemmas ----------------------------
(***************************************************************************)
(* Facts about FIFO queues that the proofs about message passing use.      *)
(***************************************************************************)
EXTENDS Integers, Sequences, TLAPS

(* The messages in a queue, and the one sent last.                          *)
Elems(s) == {s[i] : i \in 1..Len(s)}
Newest(s) == s[Len(s)]

(* A sequence of elements of a set is one of elements of a larger set.      *)
LEMMA SeqGrows == ASSUME NEW S, NEW T, S \subseteq T PROVE Seq(S) \subseteq Seq(T)
BY SMT

(* What is read from a socket is a message, and messages are left.          *)
LEMMA HeadTail ==
    ASSUME NEW S, NEW s \in Seq(S), s # <<>>
    PROVE  Head(s) \in S /\ Tail(s) \in Seq(S)
OBVIOUS

(* A message is put behind those that are there.                           *)
LEMMA Sent ==
    ASSUME NEW S, NEW s \in Seq(S), NEW x
    PROVE  /\ Elems(Append(s, x)) = Elems(s) \union {x}
           /\ Append(s, x) # <<>>
           /\ Newest(Append(s, x)) = x
BY DEF Elems, Newest

(* The oldest message is taken; the newest stays so while one is left.      *)
LEMMA Received ==
    ASSUME NEW S, NEW s \in Seq(S), s # <<>>
    PROVE  /\ Elems(s) = Elems(Tail(s)) \union {Head(s)}
           /\ IF Tail(s) = <<>> THEN Head(s) = Newest(s) ELSE Newest(Tail(s)) = Newest(s)
<1>1. /\ Len(s) \in Nat /\ Len(s) > 0
      /\ Head(s) = s[1]
      /\ Tail(s) \in Seq(S) /\ Len(Tail(s)) = Len(s) - 1
      /\ \A i \in 1..(Len(s) - 1) : Tail(s)[i] = s[i + 1]
  OBVIOUS
<1>2. ASSUME NEW x \in Elems(s) PROVE x \in Elems(Tail(s)) \union {Head(s)}
  <2>1. PICK i \in 1..Len(s) : x = s[i]
    BY DEF Elems
  <2>2. CASE i = 1
    BY <1>1, <2>1, <2>2
  <2>3. CASE i # 1
    <3>1. i - 1 \in 1..Len(Tail(s)) /\ Tail(s)[i - 1] = x
      BY <1>1, <2>1, <2>3
    <3> QED  BY <3>1 DEF Elems
  <2> QED  BY <2>2, <2>3
<1>3. ASSUME NEW x \in Elems(Tail(s)) PROVE x \in Elems(s)
  <2>1. PICK i \in 1..(Len(s) - 1) : x = Tail(s)[i]
    BY <1>1 DEF Elems
  <2>2. i + 1 \in 1..Len(s) /\ x = s[i + 1]
    BY <1>1, <2>1
  <2> QED  BY <2>2 DEF Elems
<1>4. Head(s) \in Elems(s)
  BY <1>1 DEF Elems
<1>5. Elems(s) = Elems(Tail(s)) \union {Head(s)}
  BY <1>2, <1>3, <1>4
<1>6. Tail(s) = <<>> => Head(s) = Newest(s)
  <2>1. Tail(s) = <<>> => Len(s) = 1
    BY <1>1
  <2> QED  BY <1>1, <2>1 DEF Newest
<1>7. Tail(s) # <<>> => Newest(Tail(s)) = Newest(s)
  <2>1. Tail(s) # <<>> => Len(Tail(s)) \in 1..(Len(s) - 1)
    BY <1>1
  <2> QED  BY <1>1, <2>1 DEF Newest
<1> QED  BY <1>5, <1>6, <1>7

(* An empty queue.                                                          *)
LEMMA NothingSent == Elems(<<>>) = {}
BY DEF Elems

(* In ascending order the oldest message is the least, and is there once.   *)
LEMMA LeastReceived ==
    ASSUME NEW s \in Seq(Nat), s # <<>>,
           \A i, j \in 1..Len(s) : i < j => s[i] < s[j]
    PROVE  /\ Elems(Tail(s)) = Elems(s) \ {Head(s)}
           /\ \A n \in Elems(s) : Head(s) <= n
<1>1. /\ Len(s) \in Nat /\ Len(s) > 0 /\ 1 \in 1..Len(s)
      /\ Head(s) = s[1]
      /\ Len(Tail(s)) = Len(s) - 1
      /\ \A i \in 1..(Len(s) - 1) : Tail(s)[i] = s[i + 1]
      /\ \A i \in 1..Len(s) : s[i] \in Nat
  OBVIOUS
<1>2. \A n \in Elems(s) : Head(s) <= n
  <2> SUFFICES ASSUME NEW i \in 1..Len(s) PROVE s[1] <= s[i]
    BY <1>1 DEF Elems
  <2>1. i = 1 \/ 1 < i
    BY <1>1
  <2>2. CASE i = 1
    BY <1>1, <2>2
  <2>3. CASE 1 < i
    BY <1>1, <2>3
  <2> QED  BY <2>1, <2>2, <2>3
<1>3. Head(s) \notin Elems(Tail(s))
  <2> SUFFICES ASSUME NEW i \in 1..(Len(s) - 1) PROVE Tail(s)[i] # Head(s)
    BY <1>1 DEF Elems
  <2>1. i + 1 \in 1..Len(s) /\ 1 < i + 1
    BY <1>1
  <2>2. s[1] < s[i + 1] /\ s[1] \in Nat /\ s[i + 1] \in Nat
    BY <1>1, <2>1
  <2> QED  BY <1>1, <2>2
<1>4. Elems(s) = Elems(Tail(s)) \union {Head(s)}
  BY Received
<1> QED  BY <1>2, <1>3, <1>4

-----------------------------------------------------------------------------
(* A queue of numbers, or of records with a number, in ascending order.     *)
Ascending(s) == \A i, j \in 1..Len(s) : i < j => s[i] < s[j]
InOrder(s) == \A i, j \in 1..Len(s) : i < j => s[i].call < s[j].call

(* A larger number may follow.                                              *)
LEMMA AscendingSent ==
    ASSUME NEW s \in Seq(Nat), NEW n \in Nat, Ascending(s), \A m \in Elems(s) : m < n
    PROVE  Ascending(Append(s, n))
<1>1. /\ Len(Append(s, n)) = Len(s) + 1 /\ Len(s) \in Nat
      /\ \A i \in 1..Len(s) : Append(s, n)[i] = s[i] /\ s[i] \in Elems(s)
      /\ Append(s, n)[Len(s) + 1] = n
  BY DEF Elems
<1> SUFFICES ASSUME NEW i \in 1..(Len(s) + 1), NEW j \in 1..(Len(s) + 1), i < j
             PROVE  Append(s, n)[i] < Append(s, n)[j]
  BY <1>1 DEF Ascending
<1>2. i \in 1..Len(s)
  BY <1>1
<1>3. CASE j = Len(s) + 1
  BY <1>1, <1>2, <1>3
<1>4. CASE j # Len(s) + 1
  <2>1. j \in 1..Len(s)
    BY <1>1, <1>4
  <2> QED  BY <1>1, <1>2, <2>1 DEF Ascending
<1> QED  BY <1>3, <1>4

(* The rest of an ascending queue.                                          *)
LEMMA AscendingReceived ==
    ASSUME NEW s \in Seq(Nat), s # <<>>, Ascending(s)
    PROVE  Ascending(Tail(s))
<1>1. /\ Len(Tail(s)) = Len(s) - 1 /\ Len(s) \in Nat
      /\ \A i \in 1..(Len(s) - 1) : Tail(s)[i] = s[i + 1]
  OBVIOUS
<1> SUFFICES ASSUME NEW i \in 1..(Len(s) - 1), NEW j \in 1..(Len(s) - 1), i < j
             PROVE  s[i + 1] < s[j + 1]
  BY <1>1 DEF Ascending
<1>2. i + 1 \in 1..Len(s) /\ j + 1 \in 1..Len(s) /\ i + 1 < j + 1
  BY <1>1
<1> QED  BY <1>2 DEF Ascending

(* The same for records.                                                    *)
LEMMA RecordSent ==
    ASSUME NEW S, NEW s \in Seq(S), NEW x, InOrder(s), \A y \in Elems(s) : y.call < x.call
    PROVE  InOrder(Append(s, x))
<1>1. /\ Len(Append(s, x)) = Len(s) + 1 /\ Len(s) \in Nat
      /\ \A i \in 1..Len(s) : Append(s, x)[i] = s[i] /\ s[i] \in Elems(s)
      /\ Append(s, x)[Len(s) + 1] = x
  BY DEF Elems
<1> SUFFICES ASSUME NEW i \in 1..(Len(s) + 1), NEW j \in 1..(Len(s) + 1), i < j
             PROVE  Append(s, x)[i].call < Append(s, x)[j].call
  BY <1>1 DEF InOrder
<1>2. i \in 1..Len(s)
  BY <1>1
<1>3. CASE j = Len(s) + 1
  BY <1>1, <1>2, <1>3
<1>4. CASE j # Len(s) + 1
  <2>1. j \in 1..Len(s)
    BY <1>1, <1>4
  <2> QED  BY <1>1, <1>2, <2>1 DEF InOrder
<1> QED  BY <1>3, <1>4

LEMMA RecordReceived ==
    ASSUME NEW S, \A x \in S : x.call \in Nat, NEW s \in Seq(S), s # <<>>, InOrder(s)
    PROVE  /\ InOrder(Tail(s))
           /\ Head(s) \in Elems(s)
           /\ Elems(Tail(s)) = Elems(s) \ {Head(s)}
           /\ \A x \in Elems(Tail(s)) : Head(s).call < x.call
<1>1. /\ Len(Tail(s)) = Len(s) - 1 /\ Len(s) \in Nat /\ 1 \in 1..Len(s)
      /\ Head(s) = s[1]
      /\ \A i \in 1..(Len(s) - 1) : Tail(s)[i] = s[i + 1] /\ i + 1 \in 1..Len(s) /\ 1 < i + 1
      /\ \A i \in 1..Len(s) : s[i].call \in Nat
  OBVIOUS
<1>2. InOrder(Tail(s))
  <2> SUFFICES ASSUME NEW i \in 1..(Len(s) - 1), NEW j \in 1..(Len(s) - 1), i < j
               PROVE  s[i + 1].call < s[j + 1].call
    BY <1>1 DEF InOrder
  <2>1. i + 1 \in 1..Len(s) /\ j + 1 \in 1..Len(s) /\ i + 1 < j + 1
    BY <1>1
  <2> QED  BY <2>1 DEF InOrder
<1>3. \A x \in Elems(Tail(s)) : Head(s).call < x.call
  <2> SUFFICES ASSUME NEW i \in 1..(Len(s) - 1) PROVE s[1].call < s[i + 1].call
    BY <1>1 DEF Elems
  <2> QED  BY <1>1 DEF InOrder
<1>4. Elems(s) = Elems(Tail(s)) \union {Head(s)}
  BY Received
<1>5. Head(s) \notin Elems(Tail(s))
  BY <1>1, <1>3
<1> QED  BY <1>2, <1>3, <1>4, <1>5

(* The oldest record is replaced by one with the same number.               *)
LEMMA RecordReplaced ==
    ASSUME NEW S, \A x \in S : x.call \in Nat, NEW s \in Seq(S), s # <<>>, InOrder(s),
           NEW y \in S, y.call = Head(s).call
    PROVE  /\ <<y>> \o Tail(s) \in Seq(S)
           /\ <<y>> \o Tail(s) # <<>>
           /\ InOrder(<<y>> \o Tail(s))
           /\ Elems(<<y>> \o Tail(s)) = (Elems(s) \ {Head(s)}) \union {y}
<1> DEFINE q == <<y>> \o Tail(s)
<1>1. /\ Len(s) \in Nat /\ 1 \in 1..Len(s) /\ Head(s) = s[1]
      /\ q \in Seq(S) /\ Len(q) = Len(s)
      /\ q[1] = y
      /\ \A i \in 2..Len(s) : q[i] = s[i]
  OBVIOUS
<1> HIDE DEF q
<1>2. InOrder(q)
  <2> SUFFICES ASSUME NEW i \in 1..Len(s), NEW j \in 1..Len(s), i < j
               PROVE  q[i].call < q[j].call
    BY <1>1 DEF InOrder
  <2>1. q[i].call = s[i].call /\ q[j].call = s[j].call
    <3>1. j \in 2..Len(s) /\ (i = 1 \/ i \in 2..Len(s))
      BY <1>1
    <3> QED  BY <1>1, <3>1
  <2> QED  BY <2>1 DEF InOrder
<1>3. Elems(q) = {s[i] : i \in 2..Len(s)} \union {y}
  <2>1. 1..Len(s) = {1} \union 2..Len(s)
    BY <1>1
  <2> QED  BY <1>1, <2>1 DEF Elems
<1>4. Elems(s) \ {Head(s)} = {s[i] : i \in 2..Len(s)}
  <2>1. 1..Len(s) = {1} \union 2..Len(s)
    BY <1>1
  <2>2. ASSUME NEW i \in 2..Len(s) PROVE s[i] # s[1]
    <3>1. s[1].call < s[i].call /\ s[1].call \in Nat /\ s[i].call \in Nat
      BY <1>1, <2>2 DEF InOrder
    <3> QED  BY <3>1
  <2> QED  BY <1>1, <2>1, <2>2 DEF Elems
<1>5. q # <<>>
  BY <1>1
<1> QED  BY <1>1, <1>2, <1>3, <1>4, <1>5 DEF q
=============================================================================
