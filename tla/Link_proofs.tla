---------------------------- MODULE Link_proofs ----------------------------
(***************************************************************************)
(* Proofs about Link: its inductive invariant, the frames that stay whole  *)
(* while calls are made in turn, the failures that are final, and the      *)
(* steps of Exchange that the functions of the connection implement.       *)
(***************************************************************************)
EXTENDS Link, SequenceTheorems, TLAPS

-----------------------------------------------------------------------------
(* Sequences that are cut and joined. *)

\* A write or a read cuts a sequence in two, and loses nothing.
LEMMA CutInTwo ==
    ASSUME NEW S, NEW s \in Seq(S), NEW n \in 0 .. Len(s)
    PROVE  /\ SubSeq(s, 1, n) \in Seq(S) /\ SubSeq(s, n + 1, Len(s)) \in Seq(S)
           /\ Len(SubSeq(s, 1, n)) = n /\ Len(SubSeq(s, n + 1, Len(s))) = Len(s) - n
           /\ SubSeq(s, 1, n) \o SubSeq(s, n + 1, Len(s)) = s
<1>. Len(s) \in Nat /\ \A i \in 1 .. Len(s) : s[i] \in S
  BY LenProperties, ElementOfSeq
<1>1. SubSeq(s, 1, n) \in Seq(S) /\ Len(SubSeq(s, 1, n)) = n
  <2>1. \A i \in 1 .. n : s[i] \in S
    OBVIOUS
  <2>. QED  BY <2>1, SubSeqProperties
<1>2. SubSeq(s, n + 1, Len(s)) \in Seq(S) /\ Len(SubSeq(s, n + 1, Len(s))) = Len(s) - n
  <2>1. \A i \in n + 1 .. Len(s) : s[i] \in S
    OBVIOUS
  <2>2. Len(SubSeq(s, n + 1, Len(s))) = IF n + 1 <= Len(s) THEN Len(s) - (n + 1) + 1 ELSE 0
    BY <2>1, SubSeqProperties
  <2>3. SubSeq(s, n + 1, Len(s)) \in Seq(S)
    BY <2>1, SubSeqProperties
  <2>. QED  BY <2>2, <2>3
<1>3. SubSeq(s, 1, n) \o SubSeq(s, n + 1, Len(s)) = SubSeq(s, 1, Len(s))
  BY 1 \in 1 .. Len(s) + 1, n \in 1 - 1 .. Len(s), Len(s) \in n .. Len(s), ConcatAdjacentSubSeq
<1>. QED  BY <1>1, <1>2, <1>3, SubSeqFull

\* The beginning of a sequence is one of what it is joined to.
LEMMA PrefixOfConcat ==
    ASSUME NEW S, NEW s \in Seq(S), NEW t \in Seq(S)
    PROVE  IsPrefix(s, s \o t)
<1>. Len(s) \in Nat /\ Len(t) \in Nat
  BY LenProperties
<1>1. s \o t \in Seq(S) /\ Len(s \o t) = Len(s) + Len(t)
  BY ConcatProperties
<1>2. CASE Len(s) = 0
  <2>1. SubSeq(s, 1, Len(s)) = <<>> /\ SubSeq(s \o t, 1, Len(s)) = <<>>
    BY <1>2, SubSeqEmpty
  <2>. QED  BY <1>1, <2>1 DEF IsPrefix
<1>3. CASE Len(s) # 0
  <2>1. SubSeq(s \o t, 1, Len(s)) = SubSeq(s, 1, Len(s))
    BY <1>3, 1 \in 1 .. Len(s), Len(s) \in 1 .. Len(s), SubSeqOfConcat1
  <2>. QED  BY <1>1, <2>1 DEF IsPrefix
<1>. QED  BY <1>2, <1>3

\* A prefix is what it is element by element.
LEMMA PrefixElements ==
    ASSUME NEW S, NEW s \in Seq(S), NEW t \in Seq(S), IsPrefix(s, t)
    PROVE  Len(s) <= Len(t) /\ \A i \in 1 .. Len(s) : s[i] = t[i]
<1>. Len(s) \in Nat /\ Len(t) \in Nat /\ \A i \in 1 .. Len(t) : t[i] \in S
  BY LenProperties, ElementOfSeq
<1>1. Len(s) <= Len(t) /\ s = SubSeq(t, 1, Len(s))
  BY SubSeqFull DEF IsPrefix
<1>2. \A i \in 1 .. Len(s) : t[i] \in S
  BY <1>1
<1>3. \A i \in 1 .. Len(s) - 1 + 1 : SubSeq(t, 1, Len(s))[i] = t[1 + i - 1]
  BY <1>2, SubSeqProperties
<1>. QED  BY <1>1, <1>3

\* And the other way round.
LEMMA ElementsPrefix ==
    ASSUME NEW S, NEW s \in Seq(S), NEW t \in Seq(S),
           Len(s) <= Len(t), \A i \in 1 .. Len(s) : s[i] = t[i]
    PROVE  IsPrefix(s, t)
<1>. Len(s) \in Nat /\ Len(t) \in Nat /\ \A i \in 1 .. Len(t) : t[i] \in S
  BY LenProperties, ElementOfSeq
<1>1. \A i \in 1 .. Len(s) : t[i] \in S
  OBVIOUS
<1>2. SubSeq(t, 1, Len(s)) \in Seq(S)
  BY <1>1, SubSeqProperties
<1>3. Len(SubSeq(t, 1, Len(s))) = IF 1 <= Len(s) THEN Len(s) - 1 + 1 ELSE 0
  BY <1>1, SubSeqProperties
<1>4. \A i \in 1 .. Len(s) - 1 + 1 : SubSeq(t, 1, Len(s))[i] = t[1 + i - 1]
  BY <1>1, SubSeqProperties
<1>5. Len(SubSeq(t, 1, Len(s))) = Len(s)
  BY <1>3
<1>6. \A i \in 1 .. Len(s) : SubSeq(t, 1, Len(s))[i] = s[i]
  BY <1>4
<1>7. SubSeq(t, 1, Len(s)) = s
  BY <1>2, <1>5, <1>6, SeqEqual
<1>. QED  BY <1>7, SubSeqFull DEF IsPrefix

\* What has been read of a line is a prefix of all the line is a prefix of.
LEMMA PrefixOfPrefix ==
    ASSUME NEW S, NEW s \in Seq(S), NEW t \in Seq(S), NEW f \in Seq(S), IsPrefix(s \o t, f)
    PROVE  IsPrefix(s, f)
<1>. Len(s) \in Nat /\ Len(t) \in Nat /\ Len(f) \in Nat
  BY LenProperties
<1>1. /\ s \o t \in Seq(S) /\ Len(s \o t) = Len(s) + Len(t)
      /\ \A i \in 1 .. Len(s) + Len(t) :
            (s \o t)[i] = IF i <= Len(s) THEN s[i] ELSE t[i - Len(s)]
  BY ConcatProperties
<1>2. Len(s \o t) <= Len(f) /\ \A i \in 1 .. Len(s \o t) : (s \o t)[i] = f[i]
  BY <1>1, PrefixElements
<1>3. Len(s) <= Len(f) /\ \A i \in 1 .. Len(s) : s[i] = f[i]
  BY <1>1, <1>2
<1>. QED  BY <1>3, ElementsPrefix

\* A prefix as long as the whole is the whole.
LEMMA FullPrefix ==
    ASSUME NEW S, NEW s \in Seq(S), NEW t \in Seq(S), IsPrefix(s, t), Len(s) >= Len(t)
    PROVE  s = t
<1>. Len(s) \in Nat /\ Len(t) \in Nat
  BY LenProperties
<1>1. Len(s) <= Len(t) /\ \A i \in 1 .. Len(s) : s[i] = t[i]
  BY PrefixElements
<1>. QED  BY <1>1, SeqEqual

-----------------------------------------------------------------------------
(* Numbers and frames. *)

LEMMA Numbers ==
    /\ Base \in Nat \ {0} /\ Limit \in Nat
    /\ \A n \in RequestSizes \cup AnswerSizes :
        /\ n \in Nat /\ n >= 1 /\ n <= 2 * Limit - 1 /\ Short(n) \in Int
        /\ Short(n) > 0 <=> n < Limit
        /\ n < Limit => Short(n) = n /\ n + 2 <= Room
<1>1. Base \in Nat \ {0} /\ Base * Base \in Nat
  BY SizesAssumption
<1>2. Limit \in Nat
  BY <1>1 DEF Limit
<1>3. ASSUME NEW n \in RequestSizes \cup AnswerSizes
      PROVE  /\ n \in Nat /\ n >= 1 /\ n <= 2 * Limit - 1 /\ Short(n) \in Int
             /\ Short(n) > 0 <=> n < Limit
             /\ n < Limit => Short(n) = n
  <2>1. n \in 1 .. 2 * Limit - 1
    BY SizesAssumption
  <2>2. CASE n >= Limit
    <3>1. Short(n) = n - 2 * Limit
      BY <2>2 DEF Short
    <3>. QED  BY <1>2, <2>1, <2>2, <3>1
  <2>3. CASE ~(n >= Limit)
    <3>1. Short(n) = n
      BY <2>3 DEF Short
    <3>. QED  BY <1>2, <2>1, <2>3, <3>1
  <2>. QED  BY <2>2, <2>3
<1>4. \A n \in RequestSizes \cup AnswerSizes : n < Limit => n + 2 <= Room
  BY RoomAssumption
<1>. QED  BY <1>1, <1>2, <1>3, <1>4

LEMMA Division ==
    ASSUME NEW n \in Nat, NEW d \in Nat \ {0}
    PROVE  d * (n \div d) + (n % d) = n
BY SMTT(30)

\* The two bytes of the length, and any other.
LEMMA ByteValues ==
    ASSUME NEW b \in Bytes
    PROVE  /\ ByteValue(b) \in Int
           /\ b.at = 1 => ByteValue(b) = b.of.size \div Base
           /\ b.at = 2 => ByteValue(b) = b.of.size % Base
<1>2. 2 # 1 /\ 1 # 2
  OBVIOUS
<1>1. b.at = 1 => ByteValue(b) = b.of.size \div Base
  BY <1>2, Zenon DEF ByteValue
<1>3. b.at = 2 => ByteValue(b) = b.of.size % Base
  BY <1>2, Zenon DEF ByteValue
<1>4. b.at # 1 /\ b.at # 2 => ByteValue(b) = b.at % Base
  BY Zenon DEF ByteValue
<1>5. /\ b.of.size \in RequestSizes \cup AnswerSizes
      /\ b.at \in Nat /\ b.of.size \in Nat
  BY Numbers DEF Bytes, Messages
<1>. QED  BY <1>1, <1>3, <1>4, <1>5, Numbers

LEMMA Joining ==
    \A s, t, u \in Seq(Bytes) : (s \o t) \o u = s \o (t \o u)
BY ConcatAssociative

LEMMA LengthType ==
    ASSUME NEW s \in Seq(Bytes), Len(s) >= 2
    PROVE  Length(s) \in Int
<1>1. s[1] \in Bytes /\ s[2] \in Bytes
  BY ElementOfSeq, LenProperties
<1>2. Base * ByteValue(s[1]) + ByteValue(s[2]) \in Int
  BY <1>1, ByteValues, Numbers
<1>. QED  BY <1>2, Numbers DEF Length, Short

LEMMA FrameType ==
    ASSUME NEW m \in Messages
    PROVE  /\ Frame(m) \in Seq(Bytes) /\ Frame(m) # <<>>
           /\ m.size \in RequestSizes \cup AnswerSizes /\ m.size \in Nat /\ m.size >= 1
           /\ Len(Frame(m)) = m.size + 2
           /\ \A i \in 1 .. m.size + 2 :
                /\ Frame(m)[i] = [of |-> m, at |-> i]
                /\ Frame(m)[i].of = m /\ Frame(m)[i].at = i
<1>1. m.size \in RequestSizes \cup AnswerSizes /\ m.size \in Nat /\ m.size >= 1
      /\ m.size <= 2 * Limit - 1 /\ Limit \in Nat
  BY Numbers DEF Messages
<1>2. ASSUME NEW i \in 1 .. m.size + 2
      PROVE  [of |-> m, at |-> i] \in Bytes
  <2>1. i \in 1 .. 2 * Limit + 1
    BY <1>1
  <2>. QED  BY <2>1 DEF Bytes
<1>3. Frame(m) \in Seq(Bytes) /\ Len(Frame(m)) = m.size + 2
  BY <1>1, <1>2 DEF Frame
<1>4. Frame(m) # <<>>
  BY <1>1, <1>3
<1>. QED  BY <1>1, <1>3, <1>4 DEF Frame

\* The end of a frame, from its byte k on.
FrameFrom(m, k, s) ==
    /\ m.size \in Nat /\ k \in Nat /\ k >= 1 /\ k <= m.size + 2
    /\ Frame(m) \in Seq(Bytes) /\ Len(Frame(m)) = m.size + 2
    /\ Len(s) = m.size + 2 - k + 1
    /\ \A i \in 1 .. m.size + 2 - k + 1 : s[i] = Frame(m)[k + i - 1]
    /\ \A i \in 1 .. m.size + 2 : Frame(m)[i].of = m /\ Frame(m)[i].at = i

LEMMA FrameEnd ==
    ASSUME NEW m \in Messages, NEW k \in 1 .. m.size + 2
    PROVE  FrameFrom(m, k, SubSeq(Frame(m), k, m.size + 2))
<1> DEFINE s == SubSeq(Frame(m), k, m.size + 2)
<1>1. /\ m.size \in Nat /\ Frame(m) \in Seq(Bytes) /\ Len(Frame(m)) = m.size + 2
      /\ \A i \in 1 .. m.size + 2 : Frame(m)[i].of = m /\ Frame(m)[i].at = i
  BY FrameType
<1>2. k \in Int /\ m.size + 2 \in Int /\ k >= 1 /\ k <= m.size + 2
  BY <1>1
<1>3. \A i \in k .. m.size + 2 : Frame(m)[i] \in Bytes
  BY <1>1, <1>2, ElementOfSeq
<1> DEFINE f == Frame(m)
           n == m.size + 2
<1>. HIDE DEF f, n
<1>4. /\ Len(SubSeq(f, k, n)) = IF k <= n THEN n - k + 1 ELSE 0
      /\ \A i \in 1 .. n - k + 1 : SubSeq(f, k, n)[i] = f[k + i - 1]
  <2>1. k \in Int /\ n \in Int /\ \A i \in k .. n : f[i] \in Bytes
    BY <1>2, <1>3 DEF f, n
  <2>. QED  BY <2>1, SubSeqProperties, SMTT(30)
<1>5. Len(s) = n - k + 1 /\ \A i \in 1 .. n - k + 1 : s[i] = f[k + i - 1]
  BY <1>2, <1>4 DEF f, n
<1>. HIDE DEF s
<1>6. FrameFrom(m, k, s)
  BY <1>1, <1>2, <1>5 DEF f, n, FrameFrom
<1>. QED  BY <1>6 DEF s

\* The length read from the beginning of a frame is the size of its message.
LEMMA LengthOfFrame ==
    ASSUME NEW m \in Messages, m.size < Limit,
           NEW s \in Seq(Bytes), IsPrefix(s, Frame(m)), Len(s) >= 2
    PROVE  Length(s) = m.size
<1>1. Len(s) <= m.size + 2 /\ \A i \in 1 .. Len(s) : s[i] = Frame(m)[i]
  <2>1. Frame(m) \in Seq(Bytes) /\ Len(Frame(m)) = m.size + 2
    BY FrameType
  <2>. QED  BY <2>1, PrefixElements
<1>2. /\ s[1].of.size = m.size /\ s[1].at = 1
      /\ s[2].of.size = m.size /\ s[2].at = 2
  <2>1. Len(s) \in Nat /\ 1 \in 1 .. Len(s) /\ 2 \in 1 .. Len(s)
    BY LenProperties
  <2>2. 1 \in 1 .. m.size + 2 /\ 2 \in 1 .. m.size + 2
    BY FrameType
  <2>3. s[1] = [of |-> m, at |-> 1] /\ s[2] = [of |-> m, at |-> 2]
    <3>1. s[1] = Frame(m)[1] /\ s[2] = Frame(m)[2]
      BY <1>1, <2>1
    <3>2. \A i \in 1 .. m.size + 2 : Frame(m)[i] = [of |-> m, at |-> i]
      BY FrameType
    <3>. QED  BY <2>2, <3>1, <3>2
  <2>. QED  BY <2>3
<1>3. s[1] \in Bytes /\ s[2] \in Bytes
  BY ElementOfSeq, LenProperties
<1>4. ByteValue(s[1]) = m.size \div Base /\ ByteValue(s[2]) = m.size % Base
  BY <1>2, <1>3, ByteValues
<1>5. Base * (m.size \div Base) + (m.size % Base) = m.size
  <2>1. m.size \in Nat /\ Base \in Nat \ {0}
    BY FrameType, Numbers
  <2>. QED  BY <2>1, Division
<1>6. Short(m.size) = m.size
  BY Numbers, FrameType
<1>. QED  BY <1>4, <1>5, <1>6 DEF Length

-----------------------------------------------------------------------------
(* What the actions do to the bytes. *)

LEMMA EndsAre ==
    /\ Server \in Ends /\ Threads \subseteq Ends
    /\ \A e \in Ends : e # Server => e \in Threads
    /\ \A t \in Threads : t # Server
    /\ \A e \in Ends : In(e) \in Directions /\ Out(e) \in Directions /\ In(e) # Out(e)
    /\ In(Server) = "to_server" /\ Out(Server) = "to_threads"
    /\ \A t \in Threads : In(t) = "to_threads" /\ Out(t) = "to_server"
    /\ Process(Server) = {Server} /\ \A t \in Threads : Process(t) = Threads
BY ThreadsAssumption DEF Ends, In, Out, Directions, Process

\* The bytes read_all has yet to read, after got.
Owed(bytes) == (IF Len(bytes) < 2 THEN 2 ELSE 2 + Length(bytes)) - Len(bytes)

LEMMA MissingIsOwed ==
    \A e \in Ends : Missing(e) = Owed(got[e]) /\ Missing(e)' = Owed(got'[e])
BY DEF Missing, Owed

\* A write takes something from the front of what is left, and leaves the end
\* of a frame, or nothing.
LEMMA BufferType ==
    ASSUME TypeOK, NEW e \in Ends, stage[e] = "send"
    PROVE  Buffer(e) \in Int /\ Buffer(e) <= Len(unsent[e])
<1>1. unsent[e] # <<>>
  BY DEF TypeOK
<1>2. PICK m \in Messages : \E k \in 1 .. m.size + 2 : unsent[e] = SubSeq(Frame(m), k, m.size + 2)
  BY <1>1 DEF TypeOK, EndOfFrame
<1>3. PICK k \in 1 .. m.size + 2 : unsent[e] = SubSeq(Frame(m), k, m.size + 2)
  BY <1>2
<1>4. /\ m.size \in Nat /\ k \in Nat /\ k >= 1 /\ k <= m.size + 2
      /\ Len(unsent[e]) = m.size + 2 - k + 1
      /\ \A i \in 1 .. m.size + 2 - k + 1 : unsent[e][i] = Frame(m)[k + i - 1]
      /\ \A i \in 1 .. m.size + 2 : Frame(m)[i].at = i
  <2>1. FrameFrom(m, k, unsent[e])
    BY <1>3, FrameEnd
  <2>. QED  BY <2>1 DEF FrameFrom
<1>5. unsent[e][1] = Frame(m)[k]
  <2>1. 1 \in 1 .. m.size + 2 - k + 1 /\ k + 1 - 1 = k
    BY <1>4
  <2>. QED  BY <1>4, <2>1
<1>9. unsent[e][1].at = k
  BY <1>4, <1>5
<1>10. CASE k <= 2
  <2>1. Buffer(e) = 3 - k
    BY <1>9, <1>10, Zenon DEF Buffer
  <2>. QED  BY <2>1, <1>4, <1>10
<1>11. CASE ~(k <= 2)
  <2>1. Buffer(e) = Len(unsent[e])
    BY <1>9, <1>11, Zenon DEF Buffer
  <2>. QED  BY <2>1, <1>4
<1>. QED  BY <1>10, <1>11

LEMMA EndOfTheEnd ==
    ASSUME NEW s \in Seq(Bytes), EndOfFrame(s), NEW n \in 1 .. Len(s) - 1
    PROVE  EndOfFrame(SubSeq(s, n + 1, Len(s)))
<1>2. PICK m \in Messages : \E k \in 1 .. m.size + 2 : s = SubSeq(Frame(m), k, m.size + 2)
  BY DEF EndOfFrame
<1>3. PICK k \in 1 .. m.size + 2 : s = SubSeq(Frame(m), k, m.size + 2)
  BY <1>2
<1>5. FrameFrom(m, k, s)
  BY <1>3, FrameEnd
<1>4. m.size \in Nat /\ Frame(m) \in Seq(Bytes) /\ Len(Frame(m)) = m.size + 2
  BY <1>5 DEF FrameFrom
<1>7. Len(s) = m.size + 2 - k + 1 /\ k \in Nat /\ k >= 1 /\ k <= m.size + 2
  BY <1>5 DEF FrameFrom
<1>8. SubSeq(SubSeq(Frame(m), k, m.size + 2), n + 1, Len(s))
        = SubSeq(Frame(m), k + (n + 1) - 1, k + Len(s) - 1)
  <2>1. k \in 1 .. Len(Frame(m)) /\ m.size + 2 \in 1 .. Len(Frame(m))
    BY <1>4, <1>7
  <2>2. /\ n + 1 \in 1 .. m.size + 2 - k + 1
        /\ Len(s) \in 1 .. m.size + 2 - k + 1
    <3>1. n \in Int /\ n >= 1 /\ n + 1 <= Len(s)
      BY <1>4, <1>7
    <3>. QED  BY <1>4, <1>7, <3>1
  <2>. DEFINE F == Frame(m)
              N == m.size + 2
  <2>3. \A t \in Seq(Bytes) : \A i, j \in 1 .. Len(F) : \A a, b \in 1 .. j - i + 1 :
            SubSeq(SubSeq(F, i, j), a, b) = SubSeq(F, i + a - 1, i + b - 1)
    BY <1>4, SubSeqOfSubSeq
  <2>4. F \in Seq(Bytes) /\ k \in 1 .. Len(F) /\ N \in 1 .. Len(F)
        /\ n + 1 \in 1 .. N - k + 1 /\ Len(s) \in 1 .. N - k + 1
    BY <1>4, <2>1, <2>2, SMTT(30)
  <2>. HIDE DEF F, N
  <2>5. \A a, b \in 1 .. N - k + 1 :
            SubSeq(SubSeq(F, k, N), a, b) = SubSeq(F, k + a - 1, k + b - 1)
    BY <2>3, <2>4
  <2>6. SubSeq(SubSeq(F, k, N), n + 1, Len(s)) = SubSeq(F, k + (n + 1) - 1, k + Len(s) - 1)
    BY <2>4, <2>5
  <2>. QED  BY <2>6 DEF F, N
<1>9. k + Len(s) - 1 = m.size + 2 /\ k + (n + 1) - 1 \in 1 .. m.size + 2
  <2>1. Len(s) \in Nat /\ n \in Nat /\ n >= 1 /\ n + 1 <= Len(s)
    BY <1>4, <1>7
  <2>2. k + Len(s) - 1 = m.size + 2
    BY <1>4, <1>7
  <2>3. k + (n + 1) - 1 <= m.size + 2 /\ k + (n + 1) - 1 >= 1 /\ k + (n + 1) - 1 \in Int
    BY <1>4, <1>7, <2>1, SMTT(30)
  <2>. QED  BY <1>4, <2>2, <2>3
<1>. QED  BY <1>3, <1>8, <1>9 DEF EndOfFrame

LEMMA WriteEffect ==
    ASSUME TypeOK, NEW e \in Ends, WriteSome(e)
    PROVE  \E a, b \in Seq(Bytes) :
            /\ stage[e] = "send" /\ a # <<>> /\ unsent[e] = a \o b
            /\ b # <<>> => EndOfFrame(b)
            /\ unsent' = [unsent EXCEPT ![e] = b]
            /\ stage' = [stage EXCEPT ![e] = IF b = <<>> THEN "receive" ELSE "send"]
            /\ PeerGone(e) => wire' = wire
            /\ ~PeerGone(e) =>
                /\ Len(wire[Out(e)]) + Len(a) <= Room
                /\ wire' = [wire EXCEPT ![Out(e)] = wire[Out(e)] \o a]
            /\ UNCHANGED <<got, calls, handled, outcome, overlapped>>
<1>1. PICK n \in 1 .. Buffer(e) : Writes(e, n, SubSeq(unsent[e], n + 1, Len(unsent[e])))
  BY DEF WriteSome
<1> DEFINE a == SubSeq(unsent[e], 1, n)
           b == SubSeq(unsent[e], n + 1, Len(unsent[e]))
<1>2. stage[e] = "send"
  BY <1>1 DEF Writes
<1>3. unsent[e] \in Seq(Bytes) /\ Len(unsent[e]) \in Nat
  BY LenProperties DEF TypeOK
<1>4. n \in 0 .. Len(unsent[e]) /\ n # 0
  BY <1>2, <1>3, BufferType
<1>5. a \in Seq(Bytes) /\ b \in Seq(Bytes) /\ Len(a) = n /\ unsent[e] = a \o b
      /\ Len(b) = Len(unsent[e]) - n
  BY <1>3, <1>4, CutInTwo
<1>6. a # <<>>
  <2>1. Len(<<>>) = 0
    OBVIOUS
  <2>. QED  BY <1>4, <1>5, <2>1
<1>7. b # <<>> => EndOfFrame(b)
  <2>1. SUFFICES ASSUME b # <<>> PROVE EndOfFrame(b)
    OBVIOUS
  <2>2. n \in 1 .. Len(unsent[e]) - 1
    BY <1>3, <1>4, <1>5, <2>1, EmptySeq
  <2>3. EndOfFrame(unsent[e])
    BY <1>2 DEF TypeOK
  <2>. QED  BY <1>3, <2>2, <2>3, EndOfTheEnd
<1>8. /\ unsent' = [unsent EXCEPT ![e] = b]
      /\ stage' = [stage EXCEPT ![e] = IF b = <<>> THEN "receive" ELSE "send"]
      /\ UNCHANGED <<got, calls, handled, outcome, overlapped>>
  BY <1>1, <1>2 DEF Writes
<1>9. PeerGone(e) => wire' = wire
  BY <1>1 DEF Writes
<1>10. ~PeerGone(e) => n + Len(wire[Out(e)]) <= Room /\ wire' = [wire EXCEPT ![Out(e)] = wire[Out(e)] \o a]
  BY <1>1 DEF Writes
<1>11. Len(wire[Out(e)]) \in Nat
  BY EndsAre, LenProperties DEF TypeOK
<1>12. ~PeerGone(e) => Len(wire[Out(e)]) + Len(a) <= Room
  BY <1>4, <1>5, <1>10, <1>11
<1>. HIDE DEF a, b
<1>. QED  BY <1>2, <1>5, <1>6, <1>7, <1>8, <1>9, <1>10, <1>12

LEMMA ReadEffect ==
    ASSUME TypeOK, NEW e \in Ends, ReadSome(e)
    PROVE  \E a, b \in Seq(Bytes) :
            /\ stage[e] = "receive" /\ a # <<>> /\ wire[In(e)] = a \o b
            /\ got' = [got EXCEPT ![e] = got[e] \o a]
            /\ wire' = [wire EXCEPT ![In(e)] = b]
            /\ Len(a) <= Missing(e) /\ Len(b) <= Room
            /\ UNCHANGED <<stage, unsent, calls, handled, outcome, overlapped>>
<1>1. PICK n \in 1 .. Missing(e) : Reads(e, n)
  BY DEF ReadSome
<1> DEFINE a == SubSeq(wire[In(e)], 1, n)
           b == SubSeq(wire[In(e)], n + 1, Len(wire[In(e)]))
<1>2. stage[e] = "receive" /\ n <= Len(wire[In(e)])
  BY <1>1 DEF Reads
<1>3. wire[In(e)] \in Seq(Bytes) /\ Len(wire[In(e)]) \in Nat /\ Len(wire[In(e)]) <= Room
  BY EndsAre, LenProperties DEF TypeOK
<1>4. n \in Int /\ n >= 1 /\ n <= Missing(e)
  OBVIOUS
<1>5. n \in 0 .. Len(wire[In(e)])
  BY <1>2, <1>3, <1>4
<1>6. a \in Seq(Bytes) /\ b \in Seq(Bytes) /\ Len(a) = n /\ wire[In(e)] = a \o b
      /\ Len(b) = Len(wire[In(e)]) - n
  BY <1>3, <1>5, CutInTwo
<1>7. a # <<>>
  <2>1. Len(<<>>) = 0
    OBVIOUS
  <2>. QED  BY <1>4, <1>6, <2>1
<1>8. Len(a) <= Missing(e) /\ Len(b) <= Room
  BY <1>3, <1>4, <1>6, BoundsAssumption
<1>9. /\ got' = [got EXCEPT ![e] = got[e] \o a]
      /\ wire' = [wire EXCEPT ![In(e)] = b]
      /\ UNCHANGED <<stage, unsent, calls, handled, outcome, overlapped>>
  BY <1>1 DEF Reads
<1>. HIDE DEF a, b
<1>. QED  BY <1>2, <1>6, <1>7, <1>8, <1>9

\* What is read within what is owed leaves something owed, or nothing.
LEMMA OwedAfter ==
    ASSUME NEW s \in Seq(Bytes), NEW a \in Seq(Bytes), a # <<>>, Len(a) <= Owed(s)
    PROVE  s \o a \in Seq(Bytes) /\ (Len(s \o a) > 2 => Owed(s \o a) >= 0)
<1>1. Len(s) \in Nat /\ Len(a) \in Nat \ {0}
  BY LenProperties, EmptySeq
<1>2. s \o a \in Seq(Bytes) /\ Len(s \o a) = Len(s) + Len(a)
      /\ \A i \in 1 .. Len(s) + Len(a) : (s \o a)[i] = IF i <= Len(s) THEN s[i] ELSE a[i - Len(s)]
  BY ConcatProperties
<1>3. CASE Len(s) < 2
  <2>1. Len(a) <= 2 - Len(s)
    BY <1>3 DEF Owed
  <2>. QED  BY <1>1, <1>2, <2>1
<1>4. CASE ~(Len(s) < 2)
  <2>1. (s \o a)[1] = s[1] /\ (s \o a)[2] = s[2]
    BY <1>1, <1>2, <1>4
  <2>2. Length(s \o a) = Length(s)
    BY <2>1 DEF Length
  <2>3. Length(s) \in Int
    BY <1>1, <1>4, LengthType
  <2>4. Owed(s) = 2 + Length(s) - Len(s)
    BY <1>1, <1>4, <2>3 DEF Owed
  <2>5. Owed(s \o a) = 2 + Length(s) - (Len(s) + Len(a))
    BY <1>1, <1>2, <1>4, <2>2, <2>3 DEF Owed
  <2>. QED  BY <1>1, <1>2, <2>3, <2>4, <2>5
<1>. QED  BY <1>3, <1>4

LEMMA TypeInit == Init => TypeOK
<1>1. <<>> \in Seq(Bytes) /\ Len(<<>>) = 0
  BY EmptySeq
<1>. QED  BY <1>1, EndsAre, BoundsAssumption DEF Init, TypeOK, Ends

LEMMA TypeDies ==
    ASSUME TypeOK, NEW e \in Ends, Dies(e)
    PROVE  TypeOK'
<1>1. <<>> \in Seq(Bytes) /\ Len(<<>>) = 0
  BY EmptySeq
<1>2. \A f \in Ends : f \in Process(e) => got'[f] = <<>> /\ unsent'[f] = <<>> /\ stage'[f] = "dead"
  BY DEF Dies
<1>3. \A f \in Ends : f \notin Process(e) =>
        got'[f] = got[f] /\ unsent'[f] = unsent[f] /\ stage'[f] = stage[f]
  BY DEF Dies
<1>4. /\ stage' \in [Ends -> {"idle", "send", "receive", "invoked", "closed", "dead"}]
      /\ unsent' \in [Ends -> Seq(Bytes)] /\ got' \in [Ends -> Seq(Bytes)]
  BY <1>1 DEF Dies, TypeOK
<1>5. \A t, u \in Threads : stage'[t] = "dead" => stage'[u] = "dead"
  <2>1. CASE e = Server
    <3>1. \A t \in Threads : stage'[t] = stage[t]
      BY <2>1, <1>3, EndsAre
    <3>. QED  BY <3>1 DEF TypeOK
  <2>2. CASE e # Server
    <3>1. \A t \in Threads : stage'[t] = "dead"
      BY <2>2, <1>2, EndsAre
    <3>. QED  BY <3>1
  <2>. QED  BY <2>1, <2>2
<1>6. \A f \in Ends : Len(got'[f]) > 2 => Missing(f)' >= 0
  BY <1>1, <1>2, <1>3, MissingIsOwed DEF TypeOK
<1>7. UNCHANGED <<wire, calls, handled, outcome, overlapped>>
  BY DEF Dies
<1>8. \A f \in Ends :
        /\ unsent'[f] # <<>> <=> stage'[f] = "send"
        /\ unsent'[f] # <<>> => EndOfFrame(unsent'[f])
        /\ got'[f] # <<>> => stage'[f] \in {"receive", "invoked"}
  <2>. TAKE f \in Ends
  <2>1. /\ unsent[f] # <<>> <=> stage[f] = "send"
        /\ unsent[f] # <<>> => EndOfFrame(unsent[f])
        /\ got[f] # <<>> => stage[f] \in {"receive", "invoked"}
    BY DEF TypeOK
  <2>. QED  BY <1>2, <1>3, <2>1
<1>9. \A t \in Threads : stage'[t] \notin {"invoked", "closed"}
  BY <1>2, <1>3, EndsAre DEF TypeOK
<1>10. stage'[Server] # "idle" /\ (stage'[Server] = "invoked" => Len(got'[Server]) > 2)
  BY <1>2, <1>3, EndsAre DEF TypeOK
<1>. QED  BY <1>4, <1>5, <1>6, <1>7, <1>8, <1>9, <1>10 DEF TypeOK

\* A step of one end that leaves its stage, unsent and got as s, u and g.
OneEnd(e, s, u, g) ==
    /\ stage[e] # "dead"
    /\ s \in {"idle", "send", "receive", "invoked", "closed"}
    /\ u \in Seq(Bytes) /\ g \in Seq(Bytes)
    /\ stage' = [stage EXCEPT ![e] = s]
    /\ unsent' = [unsent EXCEPT ![e] = u]
    /\ got' = [got EXCEPT ![e] = g]
    /\ e = Server => s # "idle"
    /\ e # Server => s \notin {"invoked", "closed"}
    /\ u # <<>> <=> s = "send"
    /\ u # <<>> => EndOfFrame(u)
    /\ g # <<>> => s \in {"receive", "invoked"}
    /\ s = "invoked" => Len(g) > 2
    /\ Len(g) > 2 => Owed(g) >= 0

TypedRest ==
    /\ wire' \in [Directions -> Seq(Bytes)]
    /\ \A d \in Directions : Len(wire'[d]) <= Room
    /\ calls' \in [Threads -> 0 .. MaxCalls]
    /\ handled' \subseteq Requests
    /\ outcome' \in [Threads -> Requests \cup {None}]

LEMMA TypeOneEnd ==
    ASSUME TypeOK, NEW e \in Ends, NEW s, NEW u, NEW g, OneEnd(e, s, u, g), TypedRest
    PROVE  TypeOK'
<1>. USE DEF OneEnd, TypedRest
<1>1. stage'[e] = s /\ unsent'[e] = u /\ got'[e] = g
  BY DEF TypeOK
<1>2. \A f \in Ends : f # e => stage'[f] = stage[f] /\ unsent'[f] = unsent[f] /\ got'[f] = got[f]
  BY DEF TypeOK
<1>3. /\ stage' \in [Ends -> {"idle", "send", "receive", "invoked", "closed", "dead"}]
      /\ unsent' \in [Ends -> Seq(Bytes)] /\ got' \in [Ends -> Seq(Bytes)]
  BY DEF TypeOK
<1>4. \A f \in Ends :
        /\ unsent'[f] # <<>> <=> stage'[f] = "send"
        /\ unsent'[f] # <<>> => EndOfFrame(unsent'[f])
        /\ got'[f] # <<>> => stage'[f] \in {"receive", "invoked"}
        /\ Len(got'[f]) > 2 => Owed(got'[f]) >= 0
  <2>. TAKE f \in Ends
  <2>1. /\ unsent[f] # <<>> <=> stage[f] = "send"
        /\ unsent[f] # <<>> => EndOfFrame(unsent[f])
        /\ got[f] # <<>> => stage[f] \in {"receive", "invoked"}
        /\ Len(got[f]) > 2 => Owed(got[f]) >= 0
    BY MissingIsOwed DEF TypeOK
  <2>2. CASE f = e
    BY <1>1, <2>2
  <2>3. CASE f # e
    BY <1>2, <2>1, <2>3
  <2>. QED  BY <2>2, <2>3
<1>5. \A t \in Threads : stage'[t] \notin {"invoked", "closed"}
  BY <1>1, <1>2, EndsAre DEF TypeOK
<1>6. \A t, w \in Threads : stage'[t] = "dead" => stage'[w] = "dead"
  <2>. TAKE t, w \in Threads
  <2>1. stage[t] = "dead" => stage[w] = "dead" /\ e \notin Threads
    BY DEF TypeOK
  <2>2. t \in Ends /\ w \in Ends
    BY EndsAre
  <2>. QED  BY <1>1, <1>2, <2>1, <2>2
<1>7. stage'[Server] # "idle"
  BY <1>1, <1>2, EndsAre DEF TypeOK
<1>8. stage'[Server] = "invoked" => Len(got'[Server]) > 2
  BY <1>1, <1>2, EndsAre DEF TypeOK
<1>9. \A f \in Ends : Len(got'[f]) > 2 => Missing(f)' >= 0
  BY <1>4, MissingIsOwed
<1>. QED  BY <1>3, <1>4, <1>5, <1>6, <1>7, <1>8, <1>9 DEF TypeOK

LEMMA TypeWriteSome ==
    ASSUME TypeOK, NEW e \in Ends, WriteSome(e)
    PROVE  TypeOK'
<1>1. PICK a, b \in Seq(Bytes) :
        /\ stage[e] = "send" /\ a # <<>> /\ unsent[e] = a \o b
        /\ b # <<>> => EndOfFrame(b)
        /\ unsent' = [unsent EXCEPT ![e] = b]
        /\ stage' = [stage EXCEPT ![e] = IF b = <<>> THEN "receive" ELSE "send"]
        /\ PeerGone(e) => wire' = wire
        /\ ~PeerGone(e) =>
            /\ Len(wire[Out(e)]) + Len(a) <= Room
            /\ wire' = [wire EXCEPT ![Out(e)] = wire[Out(e)] \o a]
        /\ UNCHANGED <<got, calls, handled, outcome, overlapped>>
  BY WriteEffect
<1>2. wire' \in [Directions -> Seq(Bytes)] /\ \A d \in Directions : Len(wire'[d]) <= Room
  <2>1. CASE PeerGone(e)
    BY <1>1, <2>1 DEF TypeOK
  <2>2. CASE ~PeerGone(e)
    <3>1. Out(e) \in Directions /\ wire[Out(e)] \in Seq(Bytes)
      BY EndsAre DEF TypeOK
    <3>2. wire[Out(e)] \o a \in Seq(Bytes) /\ Len(wire[Out(e)] \o a) = Len(wire[Out(e)]) + Len(a)
      BY <3>1, ConcatProperties
    <3>. QED  BY <1>1, <2>2, <3>1, <3>2, ZenonT(30) DEF TypeOK
  <2>. QED  BY <2>1, <2>2
<1>3. <<>> \in Seq(Bytes) /\ Len(<<>>) = 0 /\ got' = [got EXCEPT ![e] = <<>>]
  <2>1. got \in [Ends -> Seq(Bytes)] /\ got[e] = <<>> /\ got' = got
    BY <1>1 DEF TypeOK
  <2>. QED  BY <2>1, EmptySeq
<1> DEFINE s == IF b = <<>> THEN "receive" ELSE "send"
<1>4. /\ s \in {"idle", "send", "receive", "invoked", "closed"}
      /\ b # <<>> <=> s = "send"
      /\ s # "idle" /\ s # "invoked" /\ s # "closed" /\ stage[e] # "dead"
      /\ stage' = [stage EXCEPT ![e] = s]
  BY <1>1
<1>5. /\ calls' \in [Threads -> 0 .. MaxCalls] /\ handled' \subseteq Requests
      /\ outcome' \in [Threads -> Requests \cup {None}]
  BY <1>1 DEF TypeOK
<1>. HIDE DEF s
<1>8. OneEnd(e, s, b, <<>>)
  <2>1. b \in Seq(Bytes) /\ (b # <<>> => EndOfFrame(b)) /\ unsent' = [unsent EXCEPT ![e] = b]
    BY <1>1
  <2>. QED  BY <1>3, <1>4, <2>1 DEF OneEnd
<1>9. TypedRest
  BY <1>2, <1>5 DEF TypedRest
<1>. QED  BY <1>8, <1>9, TypeOneEnd

LEMMA TypeReadSome ==
    ASSUME TypeOK, NEW e \in Ends, ReadSome(e)
    PROVE  TypeOK'
<1>1. PICK a, b \in Seq(Bytes) :
        /\ stage[e] = "receive" /\ a # <<>> /\ wire[In(e)] = a \o b
        /\ got' = [got EXCEPT ![e] = got[e] \o a]
        /\ wire' = [wire EXCEPT ![In(e)] = b]
        /\ Len(a) <= Missing(e) /\ Len(b) <= Room
        /\ UNCHANGED <<stage, unsent, calls, handled, outcome, overlapped>>
  BY ReadEffect
<1>2. wire' \in [Directions -> Seq(Bytes)] /\ \A d \in Directions : Len(wire'[d]) <= Room
  BY <1>1, EndsAre DEF TypeOK
<1>3. got[e] \in Seq(Bytes)
  BY DEF TypeOK
<1>4. Len(a) <= Owed(got[e])
  BY <1>1, MissingIsOwed
<1>5. got[e] \o a \in Seq(Bytes) /\ (Len(got[e] \o a) > 2 => Owed(got[e] \o a) >= 0)
  BY <1>1, <1>3, <1>4, OwedAfter
<1>6. /\ unsent[e] \in Seq(Bytes) /\ unsent[e] = <<>>
      /\ stage' = [stage EXCEPT ![e] = "receive"]
      /\ unsent' = [unsent EXCEPT ![e] = unsent[e]]
  BY <1>1 DEF TypeOK
<1>7. /\ calls' \in [Threads -> 0 .. MaxCalls] /\ handled' \subseteq Requests
      /\ outcome' \in [Threads -> Requests \cup {None}]
  BY <1>1 DEF TypeOK
<1>8. OneEnd(e, "receive", unsent[e], got[e] \o a)
  BY <1>1, <1>5, <1>6 DEF OneEnd
<1>9. TypedRest
  BY <1>2, <1>7 DEF TypedRest
<1>. QED  BY <1>8, <1>9, TypeOneEnd

LEMMA TypeGivesUp ==
    ASSUME TypeOK, NEW e \in Ends, GivesUp(e), stage[e] # "dead",
           wire' = wire \/ wire' = [wire EXCEPT ![In(e)] = <<>>]
    PROVE  TypeOK'
<1>1. <<>> \in Seq(Bytes) /\ Len(<<>>) = 0
  BY EmptySeq
<1>2. wire' \in [Directions -> Seq(Bytes)] /\ \A d \in Directions : Len(wire'[d]) <= Room
  <2>1. CASE wire' = wire
    BY <2>1 DEF TypeOK
  <2>2. CASE wire' = [wire EXCEPT ![In(e)] = <<>>]
    <3>1. wire \in [Directions -> Seq(Bytes)] /\ \A d \in Directions : Len(wire[d]) <= Room
      BY DEF TypeOK
    <3>2. \A d \in Directions : wire'[d] = <<>> \/ wire'[d] = wire[d]
      BY <2>2, <3>1
    <3>3. wire' \in [Directions -> Seq(Bytes)]
      BY <1>1, <2>2, <3>1
    <3>4. 0 <= Room
      BY BoundsAssumption
    <3>. QED  BY <1>1, <3>1, <3>2, <3>3, <3>4
  <2>. QED  BY <2>1, <2>2
<1>3. /\ calls' \in [Threads -> 0 .. MaxCalls] /\ handled' \subseteq Requests
      /\ outcome' \in [Threads -> Requests \cup {None}]
  BY DEF TypeOK, GivesUp
<1> DEFINE s == IF e = Server THEN "closed" ELSE "idle"
<1>4. /\ s \in {"idle", "send", "receive", "invoked", "closed"}
      /\ e = Server => s # "idle"
      /\ e # Server => s \notin {"invoked", "closed"}
      /\ s # "send" /\ s # "invoked"
  OBVIOUS
<1>5. /\ stage' = [stage EXCEPT ![e] = s] /\ unsent' = [unsent EXCEPT ![e] = <<>>]
      /\ got' = [got EXCEPT ![e] = <<>>]
  BY DEF GivesUp
<1>. HIDE DEF s
<1>8. OneEnd(e, s, <<>>, <<>>)
  BY <1>1, <1>4, <1>5 DEF OneEnd
<1>9. TypedRest
  BY <1>2, <1>3 DEF TypedRest
<1>. QED  BY <1>8, <1>9, TypeOneEnd

LEMMA TypePack ==
    ASSUME TypeOK, NEW e \in Ends, stage[e] # "dead", NEW m \in Messages, Pack(e, m),
           UNCHANGED wire,
           calls' \in [Threads -> 0 .. MaxCalls], handled' \subseteq Requests,
           outcome' \in [Threads -> Requests \cup {None}]
    PROVE  TypeOK'
<1>1. <<>> \in Seq(Bytes) /\ Len(<<>>) = 0
  BY EmptySeq
<1>2. Frame(m) \in Seq(Bytes) /\ Frame(m) # <<>>
  BY FrameType
<1>3. EndOfFrame(Frame(m))
  <2>1. Frame(m) = SubSeq(Frame(m), 1, m.size + 2) /\ 1 \in 1 .. m.size + 2
    BY FrameType, SubSeqFull
  <2>. QED  BY <2>1 DEF EndOfFrame
<1>4. wire' \in [Directions -> Seq(Bytes)] /\ \A d \in Directions : Len(wire'[d]) <= Room
  BY DEF TypeOK
<1>5. /\ stage' = [stage EXCEPT ![e] = "send"] /\ unsent' = [unsent EXCEPT ![e] = Frame(m)]
      /\ got' = [got EXCEPT ![e] = <<>>]
  BY DEF Pack
<1>8. OneEnd(e, "send", Frame(m), <<>>)
  BY <1>1, <1>2, <1>3, <1>5 DEF OneEnd
<1>9. TypedRest
  BY <1>4 DEF TypedRest
<1>. QED  BY <1>8, <1>9, TypeOneEnd

LEMMA TypeCall ==
    ASSUME TypeOK, NEW t \in Threads, Call(t)
    PROVE  TypeOK'
<1>1. t \in Ends
  BY EndsAre
<1>2. CASE PackDies(t, RequestSizes)
  BY <1>1, <1>2, TypeDies DEF PackDies
<1>3. ASSUME NEW m \in Message(<<t, calls[t] + 1>>, RequestSizes), Pack(t, m),
             calls' = [calls EXCEPT ![t] = @ + 1],
             UNCHANGED <<wire, handled, outcome>>
      PROVE  TypeOK'
  <2>1. calls[t] \in 0 .. MaxCalls /\ calls[t] < MaxCalls /\ stage[t] = "idle"
    BY DEF TypeOK, Call
  <2>2. calls[t] + 1 \in 1 .. MaxCalls /\ calls[t] + 1 \in 0 .. MaxCalls
    BY <2>1, BoundsAssumption
  <2>3. m \in Messages
    BY <1>3, <2>2 DEF Message, Messages, Requests
  <2>4. calls' \in [Threads -> 0 .. MaxCalls]
    BY <1>3, <2>2 DEF TypeOK
  <2>5. wire' = wire /\ handled' \subseteq Requests /\ outcome' \in [Threads -> Requests \cup {None}]
    BY <1>3 DEF TypeOK
  <2>. QED  BY <1>1, <1>3, <2>1, <2>3, <2>4, <2>5, TypePack
<1>. QED  BY <1>2, <1>3 DEF Call

\* What is received has a third byte, of some request.
LEMMA ReceivedBytes ==
    ASSUME TypeOK, NEW e \in Ends, Len(got[e]) > 2
    PROVE  /\ got[e] \in Seq(Bytes) /\ got[e] # <<>> /\ Len(got[e]) \in Nat
           /\ got[e][3] \in Bytes /\ got[e][3].of \in Messages
           /\ got[e][3].of.request \in Requests \cup {None}
<1>1. got[e] \in Seq(Bytes) /\ Len(got[e]) \in Nat /\ Len(<<>>) = 0
  BY LenProperties DEF TypeOK
<1>2. got[e][3] \in Bytes
  BY <1>1, ElementOfSeq
<1>. QED  BY <1>1, <1>2 DEF Bytes, Messages

\* A message that unpacks is, or answers, a request of which bytes were read, or
\* one that nobody sent.
LEMMA Unpacked ==
    ASSUME TypeOK, NEW e \in Ends, Len(got[e]) > 2, NEW r \in Unpacks(e)
    PROVE  /\ r \in Requests \cup {None}
           /\ IsWhole(e) => r = got[e][3].of.request
           /\ r = None \/ \E i \in DOMAIN got[e] : got[e][i].of.request = r
<1>1. /\ got[e] \in Seq(Bytes) /\ Len(got[e]) \in Nat /\ DOMAIN got[e] = 1 .. Len(got[e])
      /\ got[e][3].of.request \in Requests \cup {None}
  BY ReceivedBytes, LenProperties
<1>2. CASE IsWhole(e)
  <2>1. r = got[e][3].of.request /\ 3 \in DOMAIN got[e]
    BY <1>1, <1>2 DEF Unpacks
  <2>. QED  BY <1>1, <2>1
<1>3. CASE ~IsWhole(e) /\ r # None
  <2>1. PICK b \in Range(got[e]) : r = b.of.request
    BY <1>3 DEF Unpacks
  <2>2. PICK i \in DOMAIN got[e] : got[e][i] = b
    BY <2>1 DEF Range
  <2>3. b \in Bytes
    BY <1>1, <2>2, ElementOfSeq
  <2>4. b.of.request \in Requests \cup {None}
    BY <2>3 DEF Bytes, Messages
  <2>. QED  BY <1>3, <2>1, <2>2, <2>4
<1>. QED  BY <1>2, <1>3

\* What the server invoked, with the request it took it for.
TakenFor(s, r) == [s EXCEPT ![3] = [of |-> [request |-> r, size |-> s[3].of.size], at |-> s[3].at]]

LEMMA Taken ==
    ASSUME NEW s \in Seq(Bytes), Len(s) > 2, NEW r \in Requests \cup {None}
    PROVE  /\ TakenFor(s, r) \in Seq(Bytes) /\ Len(TakenFor(s, r)) = Len(s)
           /\ Owed(TakenFor(s, r)) = Owed(s)
           /\ TakenFor(s, r)[3].of.request = r
           /\ r = s[3].of.request => TakenFor(s, r) = s
<1> DEFINE b == [of |-> [request |-> r, size |-> s[3].of.size], at |-> s[3].at]
           h == TakenFor(s, r)
<1>1. Len(s) \in Nat /\ 3 \in 1 .. Len(s) /\ DOMAIN s = 1 .. Len(s)
  BY LenProperties
<1>2. s[3] \in Bytes /\ s[3].of \in Messages
  <2>1. s[3] \in Bytes
    BY <1>1, ElementOfSeq
  <2>. QED  BY <2>1 DEF Bytes
<1>3. b \in Bytes
  <2>1. [request |-> r, size |-> s[3].of.size] \in Messages
    BY <1>2 DEF Messages
  <2>2. s[3].at \in 1 .. 2 * Limit + 1
    BY <1>2 DEF Bytes
  <2>. QED  BY <2>1, <2>2 DEF Bytes
<1>4. h = [s EXCEPT ![3] = b]
  BY DEF TakenFor
<1>. HIDE DEF b, h
<1>5. /\ h \in Seq(Bytes) /\ Len(h) = Len(s) /\ h[3] = b
      /\ \A i \in 1 .. Len(s) : i # 3 => h[i] = s[i]
  BY <1>1, <1>3, <1>4, ExceptSeq
<1>6. h[1] = s[1] /\ h[2] = s[2]
  BY <1>1, <1>5
<1>7. Owed(h) = Owed(s)
  BY <1>5, <1>6 DEF Owed, Length
<1>8. b.of.request = r
  BY DEF b
<1>9. r = s[3].of.request => b = s[3]
  BY <1>2 DEF b, Bytes, Messages
<1>10. b = s[3] => h = s
  BY <1>1, <1>4
<1>. QED  BY <1>5, <1>7, <1>8, <1>9, <1>10 DEF h

\* What Handle does, with the request that the message is taken for.
Invoked(r) ==
    /\ Server \in Ends /\ stage[Server] = "receive"
    /\ Len(got[Server]) > 2 /\ Missing(Server) = 0 /\ got[Server] \in Seq(Bytes)
    /\ r \in Unpacks(Server) /\ r \in Requests \cup {None}
    /\ IsWhole(Server) => r = got[Server][3].of.request
    /\ stage' = [stage EXCEPT ![Server] = "invoked"]
    /\ handled' = handled \cup ({r} \ {None})
    /\ got' = [got EXCEPT ![Server] = TakenFor(got[Server], r)]
    /\ UNCHANGED <<unsent, wire, calls, outcome, overlapped>>

LEMMA HandleEffect == TypeOK /\ Handle => \E r : Invoked(r)
<1>. SUFFICES ASSUME TypeOK, Handle PROVE \E r : Invoked(r)
  OBVIOUS
<1>1. /\ Server \in Ends /\ stage[Server] = "receive"
      /\ Len(got[Server]) > 2 /\ Missing(Server) = 0
      /\ stage' = [stage EXCEPT ![Server] = "invoked"]
      /\ UNCHANGED <<unsent, wire, calls, outcome, overlapped>>
  BY EndsAre DEF Handle, Received
<1>2. PICK r \in Unpacks(Server) :
        /\ handled' = handled \cup ({r} \ {None})
        /\ got' = [got EXCEPT ![Server][3].of.request = r]
  BY DEF Handle
<1>3. /\ got[Server] \in Seq(Bytes) /\ r \in Requests \cup {None}
      /\ IsWhole(Server) => r = got[Server][3].of.request
      /\ got[Server][3] \in Bytes
  BY <1>1, ReceivedBytes, Unpacked
<1>4. [got[Server][3] EXCEPT !.of.request = r]
        = [of |-> [request |-> r, size |-> got[Server][3].of.size], at |-> got[Server][3].at]
  BY <1>3 DEF Bytes, Messages
<1>5. got' = [got EXCEPT ![Server] = TakenFor(got[Server], r)]
  BY <1>2, <1>4 DEF TakenFor
<1>. QED  BY <1>1, <1>2, <1>3, <1>5 DEF Invoked

LEMMA TypeReturn ==
    ASSUME TypeOK, NEW t \in Threads, Return(t)
    PROVE  TypeOK'
<1>1. t \in Ends /\ t # Server /\ <<>> \in Seq(Bytes) /\ Len(<<>>) = 0
  BY EndsAre, EmptySeq
<1>2. stage[t] = "receive" /\ Len(got[t]) > 2
  BY DEF Return, Received
<1>10. PICK r \in Unpacks(t) : outcome' = [outcome EXCEPT ![t] = r]
  BY DEF Return
<1>3. r \in Requests \cup {None}
  BY <1>1, <1>2, Unpacked
<1>4. /\ stage' = [stage EXCEPT ![t] = "idle"]
      /\ got' = [got EXCEPT ![t] = <<>>]
      /\ unsent' = unsent /\ wire' = wire /\ calls' = calls /\ handled' = handled
  BY DEF Return
<1>5. unsent \in [Ends -> Seq(Bytes)] /\ unsent[t] = <<>>
  BY <1>1, <1>2 DEF TypeOK
<1>6. unsent' = [unsent EXCEPT ![t] = <<>>]
  BY <1>1, <1>4, <1>5
<1>8. OneEnd(t, "idle", <<>>, <<>>)
  <2>1. /\ stage[t] # "dead" /\ stage' = [stage EXCEPT ![t] = "idle"]
        /\ got' = [got EXCEPT ![t] = <<>>]
    BY <1>2, <1>4
  <2>. QED  BY <1>1, <1>6, <2>1 DEF OneEnd
<1>9. TypedRest
  BY <1>10, <1>3, <1>4 DEF TypeOK, TypedRest
<1>. QED  BY <1>1, <1>8, <1>9, TypeOneEnd

LEMMA TypeHandle ==
    ASSUME TypeOK, Handle
    PROVE  TypeOK'
<1>1. Server \in Ends /\ <<>> \in Seq(Bytes) /\ Len(<<>>) = 0
  BY EndsAre, EmptySeq
<1>2. PICK r : Invoked(r)
  BY HandleEffect
<1> DEFINE h == TakenFor(got[Server], r)
<1>3. /\ stage[Server] = "receive" /\ Len(got[Server]) > 2 /\ got[Server] \in Seq(Bytes)
      /\ r \in Requests \cup {None}
  BY <1>2 DEF Invoked
<1>4. /\ stage' = [stage EXCEPT ![Server] = "invoked"]
      /\ handled' = handled \cup ({r} \ {None})
      /\ got' = [got EXCEPT ![Server] = h]
      /\ unsent' = unsent /\ wire' = wire /\ calls' = calls /\ outcome' = outcome
  BY <1>2 DEF Invoked
<1>5. unsent \in [Ends -> Seq(Bytes)] /\ unsent[Server] = <<>>
  BY <1>1, <1>3 DEF TypeOK
<1>6. unsent' = [unsent EXCEPT ![Server] = <<>>]
  BY <1>1, <1>4, <1>5
<1>7. Owed(got[Server]) >= 0
  BY <1>1, <1>3, MissingIsOwed DEF TypeOK
<1>10. h \in Seq(Bytes) /\ Len(h) = Len(got[Server]) /\ Owed(h) = Owed(got[Server])
  BY <1>3, Taken
<1>. HIDE DEF h
<1>8. OneEnd(Server, "invoked", <<>>, h)
  BY <1>1, <1>3, <1>4, <1>6, <1>7, <1>10 DEF OneEnd
<1>9. TypedRest
  BY <1>3, <1>4 DEF TypeOK, TypedRest
<1>. QED  BY <1>1, <1>8, <1>9, TypeOneEnd

LEMMA TypeAnswer ==
    ASSUME TypeOK, Answer
    PROVE  TypeOK'
<1>1. Server \in Ends /\ stage[Server] = "invoked"
  BY EndsAre DEF Answer
<1>2. CASE PackDies(Server, AnswerSizes)
  BY <1>1, <1>2, TypeDies DEF PackDies
<1>3. ASSUME NEW m \in Message(got[Server][3].of.request, AnswerSizes), Pack(Server, m),
             UNCHANGED <<wire, calls, handled, outcome, overlapped>>
      PROVE  TypeOK'
  <2>1. got[Server][3].of.request \in Requests \cup {None}
    BY <1>1, ReceivedBytes DEF TypeOK
  <2>2. m \in Messages
    BY <2>1 DEF Message, Messages
  <2>3. /\ wire' = wire /\ calls' \in [Threads -> 0 .. MaxCalls]
        /\ handled' \subseteq Requests /\ outcome' \in [Threads -> Requests \cup {None}]
    BY <1>3 DEF TypeOK
  <2>. QED  BY <1>1, <1>3, <2>2, <2>3, TypePack
<1>. QED  BY <1>2, <1>3 DEF Answer

LEMMA TypeFails ==
    ASSUME TypeOK, NEW e \in Ends, WriteFails(e) \/ ReadFails(e) \/ ReceiveFails(e)
    PROVE  TypeOK'
<1>1. GivesUp(e) /\ (wire' = wire \/ wire' = [wire EXCEPT ![In(e)] = <<>>]) /\ stage[e] # "dead"
  <2>1. CASE WriteFails(e)
    BY <2>1 DEF WriteFails
  <2>2. CASE ReadFails(e)
    BY <2>2 DEF ReadFails
  <2>3. CASE ReceiveFails(e)
    BY <2>3 DEF ReceiveFails
  <2>. QED  BY <2>1, <2>2, <2>3
<1>. QED  BY <1>1, TypeGivesUp

LEMMA TypeNext == TypeOK /\ [Next]_vars => TypeOK'
<1>. SUFFICES ASSUME TypeOK, [Next]_vars PROVE TypeOK'
  OBVIOUS
<1>1. ASSUME NEW t \in Threads, Call(t) PROVE TypeOK'
  BY <1>1, TypeCall
<1>2. ASSUME NEW e \in Ends, Step(e) PROVE TypeOK'
  <2>1. CASE WriteSome(e)
    BY <2>1, TypeWriteSome
  <2>2. CASE WriteFails(e) \/ ReadFails(e) \/ ReceiveFails(e)
    BY <2>2, TypeFails
  <2>3. CASE ReadSome(e)
    BY <2>3, TypeReadSome
  <2>4. CASE e # Server /\ Return(e)
    BY <2>4, EndsAre, TypeReturn
  <2>5. CASE Handle
    BY <2>5, TypeHandle
  <2>6. CASE Answer
    BY <2>6, TypeAnswer
  <2>. QED  BY <1>2, <2>1, <2>2, <2>3, <2>4, <2>5, <2>6 DEF Step
<1>3. ASSUME NEW e \in Ends, Dies(e) PROVE TypeOK'
  BY <1>3, TypeDies
<1>4. CASE UNCHANGED vars
  <2>1. /\ stage' = stage /\ unsent' = unsent /\ got' = got /\ wire' = wire
        /\ calls' = calls /\ handled' = handled /\ outcome' = outcome
    BY <1>4 DEF vars
  <2>2. \A e \in Ends : Missing(e)' = Missing(e)
    BY <2>1, MissingIsOwed
  <2>. QED  BY <2>1, <2>2 DEF TypeOK
<1>. QED  BY <1>1, <1>2, <1>3, <1>4 DEF Next

-----------------------------------------------------------------------------
(* A request is handled once. *)

LEMMA EndElements ==
    ASSUME NEW s \in Seq(Bytes), EndOfFrame(s)
    PROVE  /\ Len(s) \in Nat \ {0}
           /\ \A i \in 1 .. Len(s) :
                s[i].of = s[1].of /\ s[i].at = s[1].at + i - 1 /\ s[i].at \in Nat
<1>2. PICK m \in Messages : \E k \in 1 .. m.size + 2 : s = SubSeq(Frame(m), k, m.size + 2)
  BY DEF EndOfFrame
<1>3. PICK k \in 1 .. m.size + 2 : s = SubSeq(Frame(m), k, m.size + 2)
  BY <1>2
<1>5. FrameFrom(m, k, s)
  BY <1>3, FrameEnd
<1>4. m.size \in Nat
  BY <1>5 DEF FrameFrom
<1>7. \A i \in 1 .. m.size + 2 - k + 1 : s[i] = Frame(m)[k + i - 1]
  BY <1>5 DEF FrameFrom
<1>8. \A i \in 1 .. m.size + 2 : Frame(m)[i].of = m /\ Frame(m)[i].at = i
  BY <1>5 DEF FrameFrom
<1>9. k \in Nat /\ k >= 1 /\ k <= m.size + 2 /\ Len(s) = m.size + 2 - k + 1
  BY <1>5 DEF FrameFrom
<1>10. \A i \in 1 .. Len(s) : s[i].of = m /\ s[i].at = k + i - 1
  <2>. TAKE i \in 1 .. Len(s)
  <2>1. i \in 1 .. m.size + 2 - k + 1 /\ k + i - 1 \in 1 .. m.size + 2
    BY <1>4, <1>9
  <2>. QED  BY <1>7, <1>8, <2>1
<1>11. s[1].of = m /\ s[1].at = k
  <2>1. 1 \in 1 .. Len(s) /\ k + 1 - 1 = k
    BY <1>4, <1>9
  <2>. QED  BY <1>10, <2>1
<1>. QED  BY <1>9, <1>10, <1>11, <1>4, SMTT(30)

\* What is written of the end of a frame comes before what is left of it.
LEMMA EndCut ==
    ASSUME NEW s \in Seq(Bytes), EndOfFrame(s),
           NEW a \in Seq(Bytes), NEW b \in Seq(Bytes), s = a \o b, a # <<>>
    PROVE  /\ Ordered(a) /\ s[1].at \in Nat
           /\ \A i \in DOMAIN a : a[i].of = s[1].of /\ a[i].at \in Nat /\ a[i].at >= s[1].at
           /\ b # <<>> =>
                /\ b[1].of = s[1].of /\ b[1].at \in Nat /\ b[1].at > s[1].at
                /\ \A i \in DOMAIN a : a[i].at < b[1].at
<1>1. Len(a) \in Nat \ {0} /\ Len(b) \in Nat /\ (b # <<>> => Len(b) # 0)
  BY LenProperties, EmptySeq
<1>2. /\ Len(s) = Len(a) + Len(b)
      /\ \A i \in 1 .. Len(a) + Len(b) : s[i] = IF i <= Len(a) THEN a[i] ELSE b[i - Len(a)]
  BY ConcatProperties
<1>3. \A i \in 1 .. Len(s) :
        s[i].of = s[1].of /\ s[i].at = s[1].at + i - 1 /\ s[i].at \in Nat
  BY EndElements
<1>4. \A i \in 1 .. Len(a) : s[i] = a[i] /\ i \in 1 .. Len(s)
  BY <1>1, <1>2
<1>5. ASSUME b # <<>>
      PROVE  s[Len(a) + 1] = b[1] /\ Len(a) + 1 \in 1 .. Len(s)
  <2>1. Len(a) + 1 \in 1 .. Len(a) + Len(b) /\ ~(Len(a) + 1 <= Len(a)) /\ Len(a) + 1 - Len(a) = 1
    BY <1>1, <1>5
  <2>. QED  BY <1>2, <2>1
<1>6. s[1].at \in Nat
  BY <1>1, <1>2, <1>3
<1>7. DOMAIN a = 1 .. Len(a)
  BY LenProperties
<1>8. \A i \in DOMAIN a :
        /\ i \in Nat /\ i >= 1 /\ i <= Len(a)
        /\ a[i].of = s[1].of /\ a[i].at \in Nat /\ a[i].at = s[1].at + (i - 1)
  <2>. TAKE i \in DOMAIN a
  <2>1. i \in 1 .. Len(a) /\ i \in 1 .. Len(s) /\ s[i] = a[i]
    BY <1>4, <1>7
  <2>2. s[i].of = s[1].of /\ s[i].at = s[1].at + i - 1 /\ s[i].at \in Nat
    BY <1>3, <2>1
  <2>. QED  BY <1>1, <1>6, <2>1, <2>2
<1>9. Ordered(a)
  <2>1. SUFFICES ASSUME NEW i \in DOMAIN a, NEW j \in DOMAIN a, i < j
                 PROVE  a[i].at < a[j].at
    BY DEF Ordered
  <2>2. a[i].at = s[1].at + (i - 1) /\ a[j].at = s[1].at + (j - 1) /\ i \in Nat /\ j \in Nat
    BY <1>8
  <2>. QED  BY <1>6, <2>1, <2>2
<1>10. ASSUME b # <<>>
       PROVE  /\ b[1].of = s[1].of /\ b[1].at \in Nat /\ b[1].at = s[1].at + Len(a)
  <2>1. s[Len(a) + 1].of = s[1].of /\ s[Len(a) + 1].at = s[1].at + (Len(a) + 1) - 1
    BY <1>3, <1>5, <1>10
  <2>. QED  BY <1>1, <1>5, <1>6, <1>10, <2>1
<1>11. \A i \in DOMAIN a : a[i].of = s[1].of /\ a[i].at \in Nat /\ a[i].at >= s[1].at
  <2>. TAKE i \in DOMAIN a
  <2>. QED  BY <1>6, <1>8
<1>12. ASSUME b # <<>>
       PROVE  /\ b[1].of = s[1].of /\ b[1].at \in Nat /\ b[1].at > s[1].at
              /\ \A i \in DOMAIN a : a[i].at < b[1].at
  <2>1. b[1].of = s[1].of /\ b[1].at \in Nat /\ b[1].at = s[1].at + Len(a)
    BY <1>10, <1>12
  <2>2. ASSUME NEW i \in DOMAIN a PROVE a[i].at < b[1].at
    <3>1. i \in Nat /\ i >= 1 /\ i <= Len(a) /\ a[i].at = s[1].at + (i - 1)
      BY <1>8
    <3>2. Len(a) \in Nat /\ s[1].at \in Nat
      BY <1>1, <1>6
    <3>. QED  BY <2>1, <3>1, <3>2
  <2>. QED  BY <2>1, <2>2
<1>. QED  BY <1>6, <1>9, <1>11, <1>12

LEMMA OrderedEnd ==
    ASSUME NEW p \in Seq(Bytes), NEW s \in Seq(Bytes), Ordered(p \o s)
    PROVE  /\ Ordered(s)
           /\ \A i \in DOMAIN s : Len(p) + i \in DOMAIN (p \o s) /\ s[i] = (p \o s)[Len(p) + i]
<1>1. Len(p) \in Nat /\ Len(s) \in Nat /\ DOMAIN s = 1 .. Len(s)
  BY LenProperties
<1>2. /\ p \o s \in Seq(Bytes) /\ Len(p \o s) = Len(p) + Len(s)
      /\ \A i \in 1 .. Len(p) + Len(s) : (p \o s)[i] = IF i <= Len(p) THEN p[i] ELSE s[i - Len(p)]
  BY ConcatProperties
<1>3. DOMAIN (p \o s) = 1 .. Len(p) + Len(s)
  BY <1>2, LenProperties
<1>4. ASSUME NEW i \in DOMAIN s
      PROVE  Len(p) + i \in DOMAIN (p \o s) /\ s[i] = (p \o s)[Len(p) + i]
  <2>1. i \in Nat /\ i >= 1 /\ i <= Len(s)
    BY <1>1
  <2>2. Len(p) + i \in 1 .. Len(p) + Len(s) /\ ~(Len(p) + i <= Len(p)) /\ Len(p) + i - Len(p) = i
    BY <1>1, <2>1
  <2>. QED  BY <1>2, <1>3, <2>2
<1>5. Ordered(s)
  <2>1. SUFFICES ASSUME NEW i \in DOMAIN s, NEW j \in DOMAIN s,
                        i < j, s[i].of.request = s[j].of.request
                 PROVE  s[i].at < s[j].at
    BY DEF Ordered
  <2>2. Len(p) + i < Len(p) + j
    BY <1>1, <2>1
  <2>. QED  BY <1>4, <2>1, <2>2 DEF Ordered
<1>. QED  BY <1>4, <1>5

LEMMA OrderedConcat ==
    ASSUME NEW p \in Seq(Bytes), NEW s \in Seq(Bytes), Ordered(p), Ordered(s),
           \A i \in DOMAIN p : \A j \in DOMAIN s :
                p[i].of.request = s[j].of.request => p[i].at < s[j].at
    PROVE  /\ Ordered(p \o s)
           /\ \A k \in DOMAIN (p \o s) :
                (\E i \in DOMAIN p : (p \o s)[k] = p[i]) \/ (\E j \in DOMAIN s : (p \o s)[k] = s[j])
<1>1. Len(p) \in Nat /\ Len(s) \in Nat /\ DOMAIN s = 1 .. Len(s) /\ DOMAIN p = 1 .. Len(p)
  BY LenProperties
<1>2. /\ p \o s \in Seq(Bytes) /\ Len(p \o s) = Len(p) + Len(s)
      /\ \A i \in 1 .. Len(p) + Len(s) : (p \o s)[i] = IF i <= Len(p) THEN p[i] ELSE s[i - Len(p)]
  BY ConcatProperties
<1>3. DOMAIN (p \o s) = 1 .. Len(p) + Len(s)
  BY <1>2, LenProperties
<1>4. \A k \in DOMAIN (p \o s) :
        \/ k \in DOMAIN p /\ (p \o s)[k] = p[k]
        \/ ~(k <= Len(p)) /\ k - Len(p) \in DOMAIN s /\ (p \o s)[k] = s[k - Len(p)]
  BY <1>1, <1>2, <1>3
<1>5. Ordered(p \o s)
  <2>1. SUFFICES ASSUME NEW i \in DOMAIN (p \o s), NEW j \in DOMAIN (p \o s), i < j,
                        (p \o s)[i].of.request = (p \o s)[j].of.request
                 PROVE  (p \o s)[i].at < (p \o s)[j].at
    BY DEF Ordered
  <2>2. i \in Nat /\ j \in Nat
    BY <1>1, <1>3
  <2>3. CASE i \in DOMAIN p /\ j \in DOMAIN p
    BY <1>1, <1>4, <2>1, <2>3 DEF Ordered
  <2>4. CASE i \in DOMAIN p /\ j \notin DOMAIN p
    BY <1>1, <1>4, <2>1, <2>4
  <2>5. CASE i \notin DOMAIN p /\ j \in DOMAIN p
    BY <1>1, <2>1, <2>2, <2>5, <1>3
  <2>6. CASE i \notin DOMAIN p /\ j \notin DOMAIN p
    <3>1. i - Len(p) < j - Len(p)
      BY <1>1, <2>1, <2>2
    <3>. QED  BY <1>4, <2>1, <2>6, <3>1 DEF Ordered
  <2>. QED  BY <2>3, <2>4, <2>5, <2>6
<1>. QED  BY <1>4, <1>5

LineFacts ==
    /\ Arriving \in Seq(Bytes)
    /\ \A e \in Ends : Line(e) \in Seq(Bytes)
    /\ wire["to_server"] \in Seq(Bytes) /\ wire["to_threads"] \in Seq(Bytes)
    /\ \A i \in DOMAIN Arriving : Arriving[i] \in Bytes /\ Arriving[i].at \in Nat
    /\ \A e \in Ends : unsent[e] # <<>> => unsent[e][1] \in Bytes /\ unsent[e][1].at \in Nat

LEMMA LineType == TypeOK => LineFacts
<1>. SUFFICES ASSUME TypeOK PROVE LineFacts
  OBVIOUS
<1>1. wire["to_server"] \in Seq(Bytes) /\ wire["to_threads"] \in Seq(Bytes)
  BY DEF TypeOK, Directions
<1>2. \A e \in Ends : got[e] \in Seq(Bytes) /\ unsent[e] \in Seq(Bytes) /\ wire[In(e)] \in Seq(Bytes)
  BY EndsAre DEF TypeOK
<1>3. \A e \in Ends : Line(e) \in Seq(Bytes)
  BY <1>2, ConcatProperties DEF Line
<1>4. Arriving \in Seq(Bytes)
  BY <1>1, <1>3, EndsAre DEF Arriving
<1>5. \A b \in Bytes : b.at \in Nat
  BY DEF Bytes
<1>6. \A i \in DOMAIN Arriving : Arriving[i] \in Bytes
  BY <1>4, ElementOfSeq, LenProperties
<1>7. ASSUME NEW e \in Ends, unsent[e] # <<>>
      PROVE  unsent[e][1] \in Bytes
  BY <1>2, <1>7, ElementOfSeq, EmptySeq
<1>. QED  BY <1>1, <1>3, <1>4, <1>5, <1>6, <1>7 DEF LineFacts

LEMMA LineTypeNext == TypeOK' => LineFacts'
BY LineType, PTL

\* Bytes that are read, lost or given up on do not come again.
LEMMA OnceShrinks ==
    ASSUME TypeOK, TypeOK', RequestsOnce,
           NEW p \in Seq(Bytes), Arriving = p \o Arriving', handled' = handled, calls' = calls,
           \A t \in Threads : unsent'[t] # <<>> =>
                /\ unsent[t] # <<>>
                /\ unsent'[t][1].of.request = unsent[t][1].of.request
                /\ unsent'[t][1].at >= unsent[t][1].at
    PROVE  RequestsOnce'
<1>1. Arriving \in Seq(Bytes) /\ Arriving' \in Seq(Bytes) /\ DOMAIN Arriving' = 1 .. Len(Arriving')
  BY LineType, LineTypeNext, LenProperties DEF LineFacts
<1>2. /\ Ordered(Arriving')
      /\ \A i \in DOMAIN Arriving' : Len(p) + i \in DOMAIN Arriving /\ Arriving'[i] = Arriving[Len(p) + i]
  BY <1>1, OrderedEnd DEF RequestsOnce
<1>3. Sent' = Sent
  BY DEF Sent
<1>4. \A t \in Threads : /\ unsent[t] # <<>> => unsent[t][1].at \in Nat
                         /\ unsent'[t] # <<>> => unsent'[t][1].at \in Nat
  BY LineType, LineTypeNext, EndsAre DEF LineFacts
<1>5. ASSUME NEW i \in DOMAIN Arriving'
      PROVE  ByteOnce(Arriving[i])'
  <2>1. PICK j \in DOMAIN Arriving : Arriving'[i] = Arriving[j]
    BY <1>2
  <2>2. ByteOnce(Arriving[j]) /\ Arriving[j].at \in Nat
    BY LineType DEF RequestsOnce, LineFacts
  <2>3. ASSUME NEW t \in Threads, unsent'[t] # <<>>,
               unsent'[t][1].of.request = Arriving'[i].of.request
        PROVE  Arriving'[i].at < unsent'[t][1].at
    <3>1. Arriving[j].at < unsent[t][1].at
      BY <2>1, <2>2, <2>3 DEF ByteOnce
    <3>2. unsent'[t][1].at >= unsent[t][1].at /\ unsent[t] # <<>>
      BY <2>3
    <3>. QED  BY <1>4, <2>1, <2>2, <2>3, <3>1, <3>2
  <2>. QED  BY <1>3, <2>1, <2>2, <2>3 DEF ByteOnce
<1>6. ASSUME NEW t \in Threads, unsent'[t] # <<>>
      PROVE  /\ unsent'[t][1].of.request = <<t, calls'[t]>>
             /\ <<t, calls'[t]>> \in handled' => unsent'[t][1].at > 3
  <2>1. /\ unsent[t][1].of.request = <<t, calls[t]>>
        /\ <<t, calls[t]>> \in handled => unsent[t][1].at > 3
    BY <1>6 DEF RequestsOnce
  <2>. QED  BY <1>4, <1>6, <2>1, SMTT(30)
<1>7. handled' \subseteq Sent'
  BY <1>3 DEF RequestsOnce
<1>. QED  BY <1>2, <1>5, <1>6, <1>7 DEF RequestsOnce, Ordered

LEMMA OnceWrites ==
    ASSUME TypeOK, TypeOK', RequestsOnce, NEW t \in Threads,
           NEW a \in Seq(Bytes), NEW b \in Seq(Bytes),
           unsent[t] = a \o b, a # <<>>, unsent' = [unsent EXCEPT ![t] = b],
           Arriving' = Arriving \o a, handled' = handled, calls' = calls
    PROVE  RequestsOnce'
<1>1. t \in Ends /\ unsent \in [Ends -> Seq(Bytes)] /\ unsent[t] \in Seq(Bytes)
  BY EndsAre DEF TypeOK
<1>2. unsent[t] # <<>> /\ EndOfFrame(unsent[t])
  <2>1. unsent[t] # <<>>
    BY ConcatEqualIffEmpty
  <2>. QED  BY <1>1, <2>1 DEF TypeOK
<1>3. \A i \in DOMAIN a :
        a[i].of = unsent[t][1].of /\ a[i].at \in Nat /\ a[i].at >= unsent[t][1].at
  BY <1>1, <1>2, EndCut
<1>4. b # <<>> => /\ b[1].of = unsent[t][1].of /\ b[1].at \in Nat /\ b[1].at > unsent[t][1].at
                  /\ \A i \in DOMAIN a : a[i].at < b[1].at
  BY <1>1, <1>2, EndCut
<1>5. /\ unsent[t][1].of.request = <<t, calls[t]>>
      /\ <<t, calls[t]>> \in handled => unsent[t][1].at > 3
  BY <1>2 DEF RequestsOnce
<1>6. Ordered(a) /\ unsent[t][1].at \in Nat
  BY <1>1, <1>2, EndCut
<1>7. Arriving \in Seq(Bytes) /\ Ordered(Arriving)
  BY LineType DEF RequestsOnce, LineFacts
<1>8. \A i \in DOMAIN Arriving : ByteOnce(Arriving[i]) /\ Arriving[i].at \in Nat
  BY LineType DEF RequestsOnce, LineFacts
<1>9. \A i \in DOMAIN Arriving : \A j \in DOMAIN a :
        Arriving[i].of.request = a[j].of.request => Arriving[i].at < a[j].at
  <2>. TAKE i \in DOMAIN Arriving
  <2>. TAKE j \in DOMAIN a
  <2>. HAVE Arriving[i].of.request = a[j].of.request
  <2>1. a[j].of = unsent[t][1].of /\ a[j].at \in Nat /\ a[j].at >= unsent[t][1].at
    BY <1>3
  <2>2. Arriving[i].at < unsent[t][1].at
    BY <1>2, <1>8, <2>1 DEF ByteOnce
  <2>. QED  BY <1>6, <1>8, <2>1, <2>2
<1>10. /\ Ordered(Arriving \o a)
       /\ \A k \in DOMAIN (Arriving \o a) :
            \/ \E i \in DOMAIN Arriving : (Arriving \o a)[k] = Arriving[i]
            \/ \E j \in DOMAIN a : (Arriving \o a)[k] = a[j]
  BY <1>6, <1>7, <1>9, OrderedConcat
<1>11. Sent' = Sent /\ handled' \subseteq Sent
  BY DEF Sent, RequestsOnce
<1>12. unsent'[t] = b /\ \A u \in Threads : u # t => unsent'[u] = unsent[u]
  BY <1>1, EndsAre
<1>13. \A u \in Threads : unsent[u] # <<>> => unsent[u][1].of.request = <<u, calls[u]>>
  BY DEF RequestsOnce
<1>14. ASSUME NEW c, ByteOnce(c), c.at \in Nat
       PROVE  ByteOnce(c)'
  <2>1. ASSUME NEW u \in Threads, unsent'[u] # <<>>, unsent'[u][1].of.request = c.of.request
        PROVE  c.at < unsent'[u][1].at
    <3>1. CASE u = t
      <4>1. b # <<>> /\ b[1].of.request = c.of.request /\ unsent[t][1].of.request = c.of.request
        BY <1>4, <1>12, <2>1, <3>1
      <4>2. c.at < unsent[t][1].at
        BY <1>2, <1>14, <4>1 DEF ByteOnce
      <4>. QED  BY <1>4, <1>6, <1>12, <1>14, <3>1, <4>1, <4>2
    <3>2. CASE u # t
      BY <1>12, <1>14, <2>1, <3>2 DEF ByteOnce
    <3>. QED  BY <3>1, <3>2
  <2>. QED  BY <1>11, <1>14, <2>1 DEF ByteOnce
<1>15. ASSUME NEW j \in DOMAIN a
       PROVE  ByteOnce(a[j])'
  <2>1. /\ a[j] \in Bytes /\ a[j].of.request = <<t, calls[t]>>
        /\ a[j].at >= unsent[t][1].at /\ a[j].at \in Nat
    <3>1. a[j] \in Bytes
      BY LenProperties, ElementOfSeq
    <3>2. a[j].of = unsent[t][1].of /\ a[j].at >= unsent[t][1].at /\ a[j].at \in Nat
      BY <1>3
    <3>. QED  BY <1>5, <3>1, <3>2
  <2>2. a[j].of.request \in Sent
    <3>1. a[j].of.request \in Requests
      <4>1. <<t, calls[t]>> \in Threads \X Nat
        BY BoundsAssumption DEF TypeOK
      <4>2. a[j].of.request \in Requests \cup {None} /\ a[j].of.request # None
        BY <2>1, <4>1, ThreadsAssumption DEF Bytes, Messages
      <4>. QED  BY <4>2
    <3>2. calls[t] <= calls[t]
      BY DEF TypeOK
    <3>. QED  BY <2>1, <3>1, <3>2 DEF Sent
  <2>3. a[j].of.request \in handled => a[j].at > 3
    BY <1>5, <1>6, <2>1
  <2>4. ASSUME NEW u \in Threads, unsent'[u] # <<>>, unsent'[u][1].of.request = a[j].of.request
        PROVE  a[j].at < unsent'[u][1].at
    <3>1. CASE u = t
      BY <1>3, <1>4, <1>12, <2>1, <2>4, <3>1
    <3>2. CASE u # t
      BY <1>12, <1>13, <2>1, <2>4, <3>2
    <3>. QED  BY <3>1, <3>2
  <2>. QED  BY <1>11, <2>2, <2>3, <2>4 DEF ByteOnce
<1>16. ASSUME NEW k \in DOMAIN Arriving'
       PROVE  ByteOnce(Arriving[k])'
  <2>1. CASE \E i \in DOMAIN Arriving : (Arriving \o a)[k] = Arriving[i]
    <3>1. PICK i \in DOMAIN Arriving : (Arriving \o a)[k] = Arriving[i]
      BY <2>1
    <3>2. ByteOnce(Arriving[i]) /\ Arriving[i].at \in Nat /\ Arriving'[k] = Arriving[i]
      BY <1>8, <3>1
    <3>. DEFINE c == Arriving[i]
    <3>3. Arriving'[k] = c /\ ByteOnce(c) /\ c.at \in Nat
      BY <3>2
    <3>. QED  BY <1>11, <1>12, <3>2, <1>14 DEF ByteOnce
  <2>2. CASE \E j \in DOMAIN a : (Arriving \o a)[k] = a[j]
    BY <1>15, <2>2 DEF ByteOnce
  <2>. QED  BY <1>10, <1>16, <2>1, <2>2
<1>17. ASSUME NEW u \in Threads, unsent'[u] # <<>>
       PROVE  /\ unsent'[u][1].of.request = <<u, calls'[u]>>
              /\ <<u, calls'[u]>> \in handled' => unsent'[u][1].at > 3
  <2>1. CASE u = t
    BY <1>4, <1>5, <1>6, <1>12, <1>17, <2>1
  <2>2. CASE u # t
    BY <1>12, <1>17, <2>2 DEF RequestsOnce
  <2>. QED  BY <2>1, <2>2
<1>. QED  BY <1>10, <1>11, <1>16, <1>17 DEF RequestsOnce, Ordered

LEMMA OnceCalls ==
    ASSUME TypeOK, TypeOK', RequestsOnce, NEW t \in Threads,
           NEW m \in Messages, m.request = <<t, calls[t] + 1>>, Pack(t, m),
           calls' = [calls EXCEPT ![t] = calls[t] + 1], wire' = wire, handled' = handled
    PROVE  RequestsOnce'
<1>1. t \in Ends /\ t # Server /\ calls[t] \in Nat /\ calls \in [Threads -> 0 .. MaxCalls]
  BY EndsAre, BoundsAssumption, SMTT(30) DEF TypeOK
<1>2. /\ stage' = [stage EXCEPT ![t] = "send"] /\ got' = [got EXCEPT ![t] = <<>>]
      /\ unsent' = [unsent EXCEPT ![t] = Frame(m)]
  BY DEF Pack
<1>3. Arriving' = Arriving
  <2>1. stage'[Server] = stage[Server] /\ got'[Server] = got[Server]
    BY <1>1, <1>2, EndsAre DEF TypeOK
  <2>. QED  BY <2>1 DEF Arriving, Line, In
<1>4. /\ unsent'[t] = Frame(m) /\ unsent'[t] # <<>>
      /\ unsent'[t][1].of.request = <<t, calls[t] + 1>>
      /\ calls'[t] = calls[t] + 1
      /\ \A u \in Threads : u # t => unsent'[u] = unsent[u] /\ calls'[u] = calls[u]
  <2>1. 1 \in 1 .. m.size + 2
    BY FrameType
  <2>2. Frame(m)[1].of = m
    BY <2>1, FrameType
  <2>3. unsent \in [Ends -> Seq(Bytes)]
    BY DEF TypeOK
  <2>. QED  BY <1>1, <1>2, <2>2, <2>3, FrameType, EndsAre
<1>5. Sent \subseteq Sent' /\ <<t, calls[t] + 1>> \notin Sent
  <2>1. \A u \in Threads : calls[u] \in Int /\ calls'[u] \in Int /\ calls[u] <= calls'[u]
    BY <1>1, <1>4, BoundsAssumption
  <2>2. ASSUME NEW r \in Requests, r[2] <= calls[r[1]]
        PROVE  r[2] <= calls'[r[1]]
    BY <2>1, <2>2, BoundsAssumption DEF Requests
  <2>3. ~(calls[t] + 1 <= calls[t])
    BY <1>1
  <2>. QED  BY <2>2, <2>3 DEF Sent
<1>6. ASSUME NEW i \in DOMAIN Arriving
      PROVE  ByteOnce(Arriving[i])'
  <2>1. ByteOnce(Arriving[i])
    BY DEF RequestsOnce
  <2>2. Arriving[i].of.request \in Sent
    BY <2>1 DEF ByteOnce
  <2>3. ASSUME NEW u \in Threads, unsent'[u] # <<>>, unsent'[u][1].of.request = Arriving[i].of.request
        PROVE  Arriving[i].at < unsent'[u][1].at
    <3>1. CASE u = t
      BY <1>4, <1>5, <2>2, <2>3, <3>1
    <3>2. CASE u # t
      BY <1>4, <2>1, <2>3, <3>2 DEF ByteOnce
    <3>. QED  BY <3>1, <3>2
  <2>. QED  BY <1>3, <1>5, <2>1, <2>2, <2>3 DEF ByteOnce
<1>7. ASSUME NEW u \in Threads, unsent'[u] # <<>>
      PROVE  /\ unsent'[u][1].of.request = <<u, calls'[u]>>
             /\ <<u, calls'[u]>> \in handled' => unsent'[u][1].at > 3
  <2>1. CASE u = t
    BY <1>4, <1>5, <2>1 DEF RequestsOnce
  <2>2. CASE u # t
    BY <1>4, <1>7, <2>2 DEF RequestsOnce
  <2>. QED  BY <2>1, <2>2
<1>. QED  BY <1>3, <1>5, <1>6, <1>7 DEF RequestsOnce, Ordered

\* A whole message has the byte that follows the length in its place.
LEMMA ThirdByte ==
    ASSUME TypeOK, NEW e \in Ends, IsWhole(e)
    PROVE  Len(got[e]) > 2 /\ got[e][3].at = 3
<1>1. Len(got[e]) > 2
  BY DEF IsWhole
<1>2. /\ got[e] \in Seq(Bytes) /\ Len(got[e]) \in Nat /\ got[e][3].of \in Messages
  BY <1>1, ReceivedBytes
<1> DEFINE m == got[e][3].of
<1>4. m \in Messages /\ SubSeq(got[e], 3, Len(got[e])) = SubSeq(Frame(m), 3, m.size + 2)
  BY <1>2 DEF IsWhole
<1>. HIDE DEF m
<1>3. /\ Frame(m) \in Seq(Bytes) /\ Len(Frame(m)) = m.size + 2 /\ m.size \in Nat /\ m.size >= 1
      /\ \A i \in 1 .. m.size + 2 : Frame(m)[i].at = i
  BY <1>4, FrameType
<1>5. \A i \in 1 .. Len(got[e]) - 3 + 1 : SubSeq(got[e], 3, Len(got[e]))[i] = got[e][3 + i - 1]
  <2>1. \A i \in 3 .. Len(got[e]) : got[e][i] \in Bytes
    BY <1>2, ElementOfSeq
  <2>. QED  BY <1>2, <2>1, SubSeqProperties
<1>6. \A i \in 1 .. m.size + 2 - 3 + 1 : SubSeq(Frame(m), 3, m.size + 2)[i] = Frame(m)[3 + i - 1]
  <2>1. \A i \in 3 .. m.size + 2 : Frame(m)[i] \in Bytes
    BY <1>3, ElementOfSeq
  <2>. QED  BY <1>3, <2>1, SubSeqProperties
<1>7. SubSeq(got[e], 3, Len(got[e]))[1] = got[e][3]
  <2>1. 1 \in 1 .. Len(got[e]) - 3 + 1 /\ 3 + 1 - 1 = 3
    BY <1>1, <1>2
  <2>. QED  BY <1>5, <2>1
<1>8. SubSeq(Frame(m), 3, m.size + 2)[1] = Frame(m)[3]
  <2>1. 1 \in 1 .. m.size + 2 - 3 + 1 /\ 3 + 1 - 1 = 3
    BY <1>3
  <2>. QED  BY <1>6, <2>1
<1>9. Frame(m)[3].at = 3
  BY <1>3
<1>. QED  BY <1>1, <1>4, <1>7, <1>8, <1>9

\* A request that unpacks begins in what was read.
LEMMA Begins ==
    ASSUME TypeOK, NEW e \in Ends, Len(got[e]) > 2, NEW r \in Unpacks(e), r # None
    PROVE  \E i \in 1 .. Len(got[e]) : got[e][i].at = 3 /\ got[e][i].of.request = r
<1>1. got[e] \in Seq(Bytes) /\ Len(got[e]) \in Nat /\ DOMAIN got[e] = 1 .. Len(got[e])
  BY ReceivedBytes, LenProperties
<1>2. CASE IsWhole(e)
  <2>1. got[e][3].at = 3 /\ got[e][3].of.request = r
    BY <1>2, ThirdByte DEF Unpacks
  <2>. QED  BY <1>1, <2>1
<1>3. CASE ~IsWhole(e)
  <2>1. PICK b \in {c \in Range(got[e]) : c.at = 3} : r = b.of.request
    BY <1>3 DEF Unpacks
  <2>2. PICK i \in DOMAIN got[e] : got[e][i] = b
    BY <2>1 DEF Range
  <2>. QED  BY <1>1, <2>1, <2>2
<1>. QED  BY <1>2, <1>3

LEMMA OnceHandles ==
    ASSUME TypeOK, TypeOK', RequestsOnce, NEW r, Invoked(r)
    PROVE  RequestsOnce' /\ (r # None => r \in Sent \ handled)
<1> DEFINE g == got[Server]
           w == wire["to_server"]
<1>1. /\ Server \in Ends /\ stage[Server] = "receive" /\ Len(g) > 2
      /\ g \in Seq(Bytes) /\ Len(g) \in Nat
  BY LenProperties DEF Invoked
<1>2. /\ stage' = [stage EXCEPT ![Server] = "invoked"] /\ handled' = handled \cup ({r} \ {None})
      /\ UNCHANGED <<unsent, wire, calls, outcome, overlapped>>
  BY DEF Invoked
<1>18. r # None => \E k \in 1 .. Len(g) : g[k].at = 3 /\ g[k].of.request = r
  BY <1>1, Begins DEF Invoked
<1>3. w \in Seq(Bytes) /\ Len(w) \in Nat /\ DOMAIN w = 1 .. Len(w)
  BY LineType, LenProperties DEF LineFacts
<1>4. Arriving = g \o w
  BY <1>1 DEF Arriving, Line, In
<1>5. Arriving' = w
  <2>1. stage'[Server] = "invoked" /\ wire' = wire
    BY <1>1, <1>2 DEF TypeOK
  <2>. QED  BY <2>1 DEF Arriving
<1>. HIDE DEF g, w
<1>6. /\ Len(g \o w) = Len(g) + Len(w) /\ g \o w \in Seq(Bytes)
      /\ \A i \in 1 .. Len(g) + Len(w) : (g \o w)[i] = IF i <= Len(g) THEN g[i] ELSE w[i - Len(g)]
  BY <1>1, <1>3, ConcatProperties
<1>7. DOMAIN Arriving = 1 .. Len(g) + Len(w)
  BY <1>4, <1>6, LenProperties
<1>8. PICK k : r # None =>
        /\ k \in 1 .. Len(g) /\ k \in DOMAIN Arriving
        /\ Arriving[k].at = 3 /\ Arriving[k].of.request = r
  <2>1. CASE r = None
    BY <2>1
  <2>2. CASE r # None
    <3>1. PICK k \in 1 .. Len(g) : g[k].at = 3 /\ g[k].of.request = r
      BY <1>18, <2>2
    <3>2. k \in DOMAIN Arriving /\ Arriving[k] = g[k]
      BY <1>1, <1>3, <1>4, <1>6, <1>7
    <3>. QED  BY <3>1, <3>2
  <2>. QED  BY <2>1, <2>2
<1>9. r # None => ByteOnce(Arriving[k])
  BY <1>8 DEF RequestsOnce
<1>10. r # None => r \in Sent /\ r \notin handled
  BY <1>8, <1>9 DEF ByteOnce
<1>11. Ordered(w) /\ \A i \in DOMAIN w : Len(g) + i \in DOMAIN Arriving /\ w[i] = Arriving[Len(g) + i]
  BY <1>1, <1>3, <1>4, OrderedEnd DEF RequestsOnce
<1>12. Sent' = Sent /\ unsent' = unsent /\ calls' = calls
  BY <1>2 DEF Sent
<1>13. ASSUME NEW i \in DOMAIN Arriving'
       PROVE  ByteOnce(Arriving[i])'
  <2>1. /\ ByteOnce(Arriving[Len(g) + i]) /\ w[i] = Arriving[Len(g) + i]
        /\ i \in DOMAIN w /\ Arriving'[i] = w[i]
    BY <1>5, <1>11 DEF RequestsOnce
  <2>2. ByteOnce(w[i])
    BY <2>1
  <2>3. r # None /\ w[i].of.request = r => w[i].at > 3
    <3>. SUFFICES ASSUME r # None, w[i].of.request = r PROVE w[i].at > 3
      OBVIOUS
    <3>1. i \in Nat /\ i >= 1 /\ k < Len(g) + i
      BY <1>1, <1>3, <1>8, <2>1
    <3>2. Ordered(Arriving)
      BY DEF RequestsOnce
    <3>3. Arriving[k].at < Arriving[Len(g) + i].at
      BY <1>8, <1>11, <2>1, <3>1, <3>2 DEF Ordered
    <3>4. Arriving[Len(g) + i].at \in Nat
      BY <1>11, <2>1, LineType DEF LineFacts
    <3>. QED  BY <1>8, <1>11, <2>1, <3>3, <3>4
  <2>4. ASSUME NEW t \in Threads, unsent'[t] # <<>>,
               unsent'[t][1].of.request = Arriving'[i].of.request
        PROVE  Arriving'[i].at < unsent'[t][1].at
    BY <1>12, <2>1, <2>2, <2>4 DEF ByteOnce
  <2>5. Arriving'[i].of.request \in Sent' /\ (Arriving'[i].of.request \in handled' => Arriving'[i].at > 3)
    BY <1>2, <1>12, <2>1, <2>2, <2>3 DEF ByteOnce
  <2>. QED  BY <2>4, <2>5 DEF ByteOnce
<1>14. ASSUME NEW t \in Threads, unsent'[t] # <<>>
       PROVE  /\ unsent'[t][1].of.request = <<t, calls'[t]>>
              /\ <<t, calls'[t]>> \in handled' => unsent'[t][1].at > 3
  <2>1. /\ unsent[t][1].of.request = <<t, calls[t]>>
        /\ <<t, calls[t]>> \in handled => unsent[t][1].at > 3
    BY <1>12, <1>14 DEF RequestsOnce
  <2>2. r # None /\ <<t, calls[t]>> = r => 3 < unsent[t][1].at
    BY <1>8, <1>9, <1>12, <1>14, <2>1 DEF ByteOnce
  <2>3. unsent[t][1].at \in Nat
    BY <1>12, <1>14, LineType, EndsAre DEF LineFacts
  <2>. QED  BY <1>2, <1>12, <2>1, <2>2, <2>3
<1>15. handled' \subseteq Sent'
  BY <1>2, <1>10, <1>12 DEF RequestsOnce
<1>16. Ordered(Arriving')
  BY <1>5, <1>11
<1>17. RequestsOnce'
  BY <1>13, <1>14, <1>15, <1>16 DEF RequestsOnce, Ordered
<1>. QED  BY <1>10, <1>17

LEMMA OnceKept ==
    ASSUME TypeOK, TypeOK', RequestsOnce,
           NEW p \in Seq(Bytes), Arriving = p \o Arriving' \/ Arriving' = Arriving,
           handled' = handled, calls' = calls,
           \A t \in Threads : unsent'[t] = unsent[t] \/ unsent'[t] = <<>>
    PROVE  RequestsOnce'
<1>1. Arriving \in Seq(Bytes) /\ <<>> \in Seq(Bytes)
  BY LineType, EmptySeq DEF LineFacts
<1>2. \A t \in Threads : unsent[t] # <<>> => unsent[t][1].at \in Nat
  BY LineType, EndsAre DEF LineFacts
<1>3. \A t \in Threads : unsent'[t] # <<>> =>
        /\ unsent[t] # <<>>
        /\ unsent'[t][1].of.request = unsent[t][1].of.request
        /\ unsent'[t][1].at >= unsent[t][1].at
  BY <1>2
<1>4. CASE Arriving = p \o Arriving'
  BY <1>3, <1>4, OnceShrinks
<1>5. CASE Arriving' = Arriving
  <2>1. Arriving = <<>> \o Arriving'
    BY <1>1, <1>5, ConcatEmptySeq
  <2>. QED  BY <1>1, <1>3, <2>1, OnceShrinks
<1>. QED  BY <1>4, <1>5

LEMMA OnceWriteSome ==
    ASSUME TypeOK, TypeOK', RequestsOnce, NEW e \in Ends, WriteSome(e)
    PROVE  RequestsOnce'
<1>1. PICK a, b \in Seq(Bytes) :
        /\ stage[e] = "send" /\ a # <<>> /\ unsent[e] = a \o b
        /\ b # <<>> => EndOfFrame(b)
        /\ unsent' = [unsent EXCEPT ![e] = b]
        /\ stage' = [stage EXCEPT ![e] = IF b = <<>> THEN "receive" ELSE "send"]
        /\ PeerGone(e) => wire' = wire
        /\ ~PeerGone(e) =>
            /\ Len(wire[Out(e)]) + Len(a) <= Room
            /\ wire' = [wire EXCEPT ![Out(e)] = wire[Out(e)] \o a]
        /\ UNCHANGED <<got, calls, handled, outcome, overlapped>>
  BY WriteEffect
<1>2. /\ unsent \in [Ends -> Seq(Bytes)] /\ wire \in [Directions -> Seq(Bytes)]
      /\ stage \in [Ends -> {"idle", "send", "receive", "invoked", "closed", "dead"}]
      /\ got' = got /\ calls' = calls /\ handled' = handled
  BY <1>1 DEF TypeOK
<1>3. /\ got[Server] \in Seq(Bytes) /\ wire["to_server"] \in Seq(Bytes)
      /\ Server \in Ends /\ "to_server" \in Directions
      /\ Line(Server) = got[Server] \o wire["to_server"]
      /\ Line(Server)' = got'[Server] \o wire'["to_server"]
  BY EndsAre DEF TypeOK, Line, In, Directions
<1>4. CASE e = Server
  <2>1. wire'["to_server"] = wire["to_server"]
    BY <1>1, <1>2, <1>3, <1>4, EndsAre
  <2>2. stage[Server] # "invoked" /\ stage'[Server] # "invoked"
    BY <1>1, <1>2, <1>3, <1>4
  <2>3. Arriving' = Arriving
    BY <1>2, <1>3, <2>1, <2>2 DEF Arriving
  <2>4. \A t \in Threads : unsent'[t] = unsent[t]
    BY <1>1, <1>2, <1>4, EndsAre
  <2>. QED  BY <1>1, <1>2, <2>3, <2>4, OnceKept
<1>5. CASE e # Server
  <2>1. e \in Threads /\ Out(e) = "to_server" /\ stage'[Server] = stage[Server]
    BY <1>1, <1>2, <1>5, EndsAre
  <2>2. CASE PeerGone(e)
    <3>1. Arriving' = Arriving
      BY <1>1, <1>2, <1>3, <2>1, <2>2 DEF Arriving
    <3>2. <<>> \in Seq(Bytes) /\ Arriving \in Seq(Bytes)
      BY LineType, EmptySeq DEF LineFacts
    <3>3. Arriving = <<>> \o Arriving'
      BY <3>1, <3>2, ConcatEmptySeq
    <3>4. unsent[e] \in Seq(Bytes) /\ EndOfFrame(unsent[e])
      BY <1>1 DEF TypeOK
    <3>5. /\ unsent[e][1].at \in Nat
          /\ b # <<>> => b[1].of = unsent[e][1].of /\ b[1].at \in Nat /\ b[1].at > unsent[e][1].at
      BY <1>1, <3>4, EndCut, ZenonT(30)
    <3>6. \A t \in Threads : t # e => unsent'[t] = unsent[t]
      BY <1>1, <1>2, EndsAre
    <3>7. \A t \in Threads : unsent[t] # <<>> => unsent[t][1].at \in Nat
      BY LineType, EndsAre DEF LineFacts
    <3>8. unsent'[e] = b /\ unsent[e] # <<>>
      BY <1>1, <1>2 DEF TypeOK
    <3>9. \A t \in Threads : unsent'[t] # <<>> =>
            /\ unsent[t] # <<>>
            /\ unsent'[t][1].of.request = unsent[t][1].of.request
            /\ unsent'[t][1].at >= unsent[t][1].at
      <4>. TAKE t \in Threads
      <4>1. CASE t = e
        BY <3>5, <3>8, <4>1
      <4>2. CASE t # e
        BY <3>6, <3>7, <4>2
      <4>. QED  BY <4>1, <4>2
    <3>. QED  BY <1>2, <3>2, <3>3, <3>9, OnceShrinks
  <2>3. CASE ~PeerGone(e)
    <3>1. wire'["to_server"] = wire["to_server"] \o a
      BY <1>1, <1>2, <1>3, <2>1, <2>3
    <3>2. (got[Server] \o wire["to_server"]) \o a = got[Server] \o (wire["to_server"] \o a)
      BY <1>3, Joining
    <3>3. Arriving' = Arriving \o a
      BY <1>2, <1>3, <2>1, <3>1, <3>2 DEF Arriving
    <3>. QED  BY <1>1, <1>2, <2>1, <3>3, OnceWrites
  <2>. QED  BY <2>2, <2>3
<1>. QED  BY <1>4, <1>5

LEMMA OnceReadSome ==
    ASSUME TypeOK, TypeOK', RequestsOnce, NEW e \in Ends, ReadSome(e)
    PROVE  RequestsOnce'
<1>1. PICK a, b \in Seq(Bytes) :
        /\ stage[e] = "receive" /\ a # <<>> /\ wire[In(e)] = a \o b
        /\ got' = [got EXCEPT ![e] = got[e] \o a]
        /\ wire' = [wire EXCEPT ![In(e)] = b]
        /\ Len(a) <= Missing(e) /\ Len(b) <= Room
        /\ UNCHANGED <<stage, unsent, calls, handled, outcome, overlapped>>
  BY ReadEffect
<1>2. /\ got \in [Ends -> Seq(Bytes)] /\ wire \in [Directions -> Seq(Bytes)]
      /\ Server \in Ends /\ In(Server) = "to_server" /\ "to_server" \in Directions
      /\ <<>> \in Seq(Bytes)
  BY EndsAre, EmptySeq DEF TypeOK, Directions
<1>3. e # Server => Line(Server)' = Line(Server) /\ wire'[In(Server)] = wire[In(Server)]
  BY <1>1, <1>2, EndsAre DEF Line, In
<1>4. Line(Server)' = Line(Server)
  <2>1. CASE e = Server
    <3>1. got'[Server] = got[Server] \o a /\ wire'["to_server"] = b /\ wire["to_server"] = a \o b
      BY <1>1, <1>2, <2>1
    <3>2. (got[Server] \o a) \o b = got[Server] \o (a \o b)
      BY <1>2, ConcatAssociative, SMTT(30)
    <3>. QED  BY <3>1, <3>2 DEF Line, In
  <2>. QED  BY <1>3, <2>1
<1>5. Arriving' = Arriving
  <2>1. CASE stage[Server] = "invoked"
    <3>1. e # Server /\ stage'[Server] = "invoked"
      BY <1>1, <2>1
    <3>2. wire'["to_server"] = wire["to_server"]
      BY <1>1, <1>2, <3>1, EndsAre
    <3>. QED  BY <2>1, <3>1, <3>2 DEF Arriving
  <2>2. CASE stage[Server] # "invoked"
    BY <1>1, <1>4, <2>2 DEF Arriving
  <2>. QED  BY <2>1, <2>2
<1>. QED  BY <1>1, <1>2, <1>5, OnceKept

\* The bytes on their way to the server are no more once an end gives up.
LEMMA OnceGivesUp ==
    ASSUME TypeOK, TypeOK', RequestsOnce, NEW e \in Ends, GivesUp(e), stage[e] \in {"send", "receive"},
           wire' = wire \/ wire' = [wire EXCEPT ![In(e)] = <<>>]
    PROVE  RequestsOnce'
<1>1. /\ stage' = [stage EXCEPT ![e] = IF e = Server THEN "closed" ELSE "idle"]
      /\ unsent' = [unsent EXCEPT ![e] = <<>>] /\ got' = [got EXCEPT ![e] = <<>>]
      /\ calls' = calls /\ handled' = handled
  BY DEF GivesUp
<1>2. /\ unsent \in [Ends -> Seq(Bytes)] /\ got \in [Ends -> Seq(Bytes)]
      /\ wire \in [Directions -> Seq(Bytes)]
      /\ stage \in [Ends -> {"idle", "send", "receive", "invoked", "closed", "dead"}]
      /\ Server \in Ends /\ In(Server) = "to_server" /\ "to_server" \in Directions
      /\ <<>> \in Seq(Bytes)
  BY EndsAre, EmptySeq DEF TypeOK, Directions
<1>3. \A t \in Threads : unsent'[t] = unsent[t] \/ unsent'[t] = <<>>
  BY <1>1, <1>2, EndsAre
<1>4. CASE e = Server
  <2>1. stage[Server] # "invoked" /\ stage'[Server] = "closed" /\ got'[Server] = <<>>
    BY <1>1, <1>2, <1>4
  <2>2. wire'["to_server"] \in Seq(Bytes)
    BY LineTypeNext DEF LineFacts
  <2>3. Arriving = got[Server] \o wire["to_server"] /\ Arriving' = <<>> \o wire'["to_server"]
    BY <2>1 DEF Arriving, Line, In
  <2>4. Arriving' = wire'["to_server"]
    BY <2>2, <2>3, ConcatEmptySeq
  <2>5. got[Server] \in Seq(Bytes) /\ Arriving \in Seq(Bytes)
    BY <1>2, LineType DEF LineFacts
  <2>6. CASE wire' = wire
    <3>1. Arriving = got[Server] \o Arriving'
      BY <2>3, <2>4, <2>6
    <3>. QED  BY <1>1, <1>3, <2>5, <3>1, OnceKept
  <2>7. CASE wire' = [wire EXCEPT ![In(e)] = <<>>]
    <3>1. Arriving' = <<>>
      BY <1>2, <1>4, <2>4, <2>7
    <3>2. Arriving = Arriving \o Arriving'
      BY <2>5, <3>1, ConcatEmptySeq
    <3>. QED  BY <1>1, <1>3, <2>5, <3>2, OnceKept
  <2>. QED  BY <2>6, <2>7
<1>5. CASE e # Server
  <2>1. /\ stage'[Server] = stage[Server] /\ got'[Server] = got[Server]
        /\ wire'["to_server"] = wire["to_server"]
    BY <1>1, <1>2, <1>5, EndsAre
  <2>2. Arriving' = Arriving
    BY <2>1 DEF Arriving, Line, In
  <2>. QED  BY <1>1, <1>2, <1>3, <2>2, OnceKept
<1>. QED  BY <1>4, <1>5

LEMMA OnceDies ==
    ASSUME TypeOK, TypeOK', RequestsOnce, NEW e \in Ends, Dies(e)
    PROVE  RequestsOnce'
<1>1. \A f \in Ends : f \in Process(e) => got'[f] = <<>> /\ unsent'[f] = <<>> /\ stage'[f] = "dead"
  BY DEF Dies
<1>2. \A f \in Ends : f \notin Process(e) =>
        got'[f] = got[f] /\ unsent'[f] = unsent[f] /\ stage'[f] = stage[f]
  BY DEF Dies
<1>3. wire' = wire /\ calls' = calls /\ handled' = handled
  BY DEF Dies
<1>4. \A t \in Threads : unsent'[t] = unsent[t] \/ unsent'[t] = <<>>
  BY <1>1, <1>2, EndsAre
<1>5. /\ got[Server] \in Seq(Bytes) /\ wire["to_server"] \in Seq(Bytes)
      /\ Server \in Ends /\ <<>> \in Seq(Bytes)
  BY EndsAre, EmptySeq DEF TypeOK, Directions
<1>6. CASE e = Server
  <2>1. stage'[Server] = "dead" /\ got'[Server] = <<>>
    BY <1>1, <1>6, EndsAre
  <2>2. Arriving' = <<>> \o wire["to_server"]
    BY <1>3, <2>1 DEF Arriving, Line, In
  <2>3. Arriving' = wire["to_server"]
    BY <1>5, <2>2, ConcatEmptySeq
  <2>4. Arriving = wire["to_server"] \/ Arriving = got[Server] \o wire["to_server"]
    BY DEF Arriving, Line, In
  <2>5. Arriving = got[Server] \o Arriving' \/ Arriving' = Arriving
    BY <2>3, <2>4
  <2>. QED  BY <1>3, <1>4, <1>5, <2>5, OnceKept
<1>7. CASE e # Server
  <2>1. Server \notin Process(e)
    BY <1>7, EndsAre
  <2>2. stage'[Server] = stage[Server] /\ got'[Server] = got[Server]
    BY <1>2, <1>5, <2>1
  <2>3. Arriving' = Arriving
    BY <1>3, <2>2 DEF Arriving, Line, In
  <2>. QED  BY <1>3, <1>4, <1>5, <2>3, OnceKept
<1>. QED  BY <1>6, <1>7

LEMMA OnceAnswers ==
    ASSUME TypeOK, TypeOK', RequestsOnce, Answer
    PROVE  RequestsOnce'
<1>1. Server \in Ends /\ stage[Server] = "invoked"
  BY EndsAre DEF Answer
<1>2. CASE PackDies(Server, AnswerSizes)
  BY <1>1, <1>2, OnceDies DEF PackDies
<1>3. ASSUME NEW m, Pack(Server, m), UNCHANGED <<wire, calls, handled, outcome, overlapped>>
      PROVE  RequestsOnce'
  <2>1. /\ stage' = [stage EXCEPT ![Server] = "send"] /\ unsent' = [unsent EXCEPT ![Server] = Frame(m)]
        /\ got' = [got EXCEPT ![Server] = <<>>] /\ wire' = wire /\ calls' = calls /\ handled' = handled
    BY <1>3 DEF Pack
  <2>2. stage'[Server] = "send" /\ got'[Server] = <<>>
    BY <1>1, <2>1 DEF TypeOK
  <2>3. wire["to_server"] \in Seq(Bytes) /\ <<>> \in Seq(Bytes)
    BY LineType, EmptySeq DEF LineFacts
  <2>4. Arriving = wire["to_server"] /\ Arriving' = <<>> \o wire["to_server"]
    BY <1>1, <2>1, <2>2 DEF Arriving, Line, In
  <2>5. Arriving' = Arriving
    BY <2>3, <2>4, ConcatEmptySeq
  <2>6. \A t \in Threads : unsent'[t] = unsent[t]
    BY <2>1, EndsAre DEF TypeOK
  <2>. QED  BY <2>1, <2>3, <2>5, <2>6, OnceKept
<1>. QED  BY <1>2, <1>3 DEF Answer

LEMMA OnceReturns ==
    ASSUME TypeOK, TypeOK', RequestsOnce, NEW t \in Threads, Return(t)
    PROVE  RequestsOnce'
<1>1. /\ stage' = [stage EXCEPT ![t] = "idle"] /\ got' = [got EXCEPT ![t] = <<>>]
      /\ unsent' = unsent /\ wire' = wire /\ calls' = calls /\ handled' = handled
  BY DEF Return
<1>2. stage'[Server] = stage[Server] /\ got'[Server] = got[Server]
  BY <1>1, EndsAre DEF TypeOK
<1>3. Arriving' = Arriving
  BY <1>1, <1>2 DEF Arriving, Line, In
<1>4. <<>> \in Seq(Bytes)
  BY EmptySeq
<1>. QED  BY <1>1, <1>3, <1>4, OnceKept

LEMMA GivingUp ==
    ASSUME NEW e \in Ends, WriteFails(e) \/ ReadFails(e) \/ ReceiveFails(e)
    PROVE  /\ GivesUp(e) /\ stage[e] \in {"send", "receive"}
           /\ wire' = wire \/ wire' = [wire EXCEPT ![In(e)] = <<>>]
<1>1. CASE WriteFails(e)
  BY <1>1 DEF WriteFails
<1>2. CASE ReadFails(e)
  BY <1>2 DEF ReadFails
<1>3. CASE ReceiveFails(e)
  BY <1>3 DEF ReceiveFails
<1>. QED  BY <1>1, <1>2, <1>3

LEMMA OnceNext == TypeOK /\ TypeOK' /\ RequestsOnce /\ [Next]_vars => RequestsOnce'
<1>. SUFFICES ASSUME TypeOK, TypeOK', RequestsOnce, [Next]_vars PROVE RequestsOnce'
  OBVIOUS
<1>1. ASSUME NEW t \in Threads, Call(t) PROVE RequestsOnce'
  <2>1. CASE PackDies(t, RequestSizes)
    BY <2>1, OnceDies, EndsAre DEF PackDies
  <2>2. ASSUME NEW m \in Message(<<t, calls[t] + 1>>, RequestSizes), Pack(t, m),
               calls' = [calls EXCEPT ![t] = @ + 1],
               UNCHANGED <<wire, handled, outcome>>
        PROVE  RequestsOnce'
    <3>1. calls[t] \in 0 .. MaxCalls /\ calls[t] < MaxCalls
      BY <1>1 DEF TypeOK, Call
    <3>2. calls[t] + 1 \in 1 .. MaxCalls
      BY <3>1, BoundsAssumption
    <3>3. m \in Messages /\ m.request = <<t, calls[t] + 1>>
      BY <2>2, <3>2 DEF Message, Messages, Requests
    <3>. QED  BY <2>2, <3>3, OnceCalls
  <2>. QED  BY <1>1, <2>1, <2>2 DEF Call
<1>2. ASSUME NEW e \in Ends, Step(e) PROVE RequestsOnce'
  <2>1. CASE WriteSome(e)
    BY <2>1, OnceWriteSome
  <2>2. CASE WriteFails(e) \/ ReadFails(e) \/ ReceiveFails(e)
    BY <2>2, GivingUp, OnceGivesUp
  <2>3. CASE ReadSome(e)
    BY <2>3, OnceReadSome
  <2>4. CASE e # Server /\ Return(e)
    BY <2>4, EndsAre, OnceReturns
  <2>5. CASE Handle
    BY <2>5, HandleEffect, OnceHandles
  <2>6. CASE Answer
    BY <2>6, OnceAnswers
  <2>. QED  BY <1>2, <2>1, <2>2, <2>3, <2>4, <2>5, <2>6 DEF Step
<1>3. ASSUME NEW e \in Ends, Dies(e) PROVE RequestsOnce'
  BY <1>3, OnceDies
<1>4. CASE UNCHANGED vars
  <2>1. /\ stage' = stage /\ unsent' = unsent /\ got' = got /\ wire' = wire
        /\ calls' = calls /\ handled' = handled /\ <<>> \in Seq(Bytes)
    BY <1>4, EmptySeq DEF vars
  <2>2. Arriving' = Arriving
    BY <2>1 DEF Arriving, Line, In
  <2>. QED  BY <2>1, <2>2, OnceKept
<1>. QED  BY <1>1, <1>2, <1>3, <1>4 DEF Next

-----------------------------------------------------------------------------
(* An answer is written to a request that was handled. *)

Answers(s, requests) == \A i \in DOMAIN s : s[i].of.request \in requests

LEMMA AnswersCut ==
    \A h : \A s, t \in Seq(Bytes) : Answers(s \o t, h) <=> Answers(s, h) /\ Answers(t, h)
<1>. SUFFICES ASSUME NEW h, NEW s \in Seq(Bytes), NEW t \in Seq(Bytes)
              PROVE  Answers(s \o t, h) <=> Answers(s, h) /\ Answers(t, h)
  OBVIOUS
<1>1. Len(s) \in Nat /\ Len(t) \in Nat /\ DOMAIN s = 1 .. Len(s) /\ DOMAIN t = 1 .. Len(t)
  BY LenProperties
<1>2. /\ s \o t \in Seq(Bytes) /\ Len(s \o t) = Len(s) + Len(t)
      /\ \A i \in 1 .. Len(s) + Len(t) : (s \o t)[i] = IF i <= Len(s) THEN s[i] ELSE t[i - Len(s)]
  BY ConcatProperties
<1>3. DOMAIN (s \o t) = 1 .. Len(s) + Len(t)
  BY <1>2, LenProperties
<1>4. ASSUME Answers(s, h), Answers(t, h)
      PROVE  Answers(s \o t, h)
  <2>1. SUFFICES ASSUME NEW i \in DOMAIN (s \o t) PROVE (s \o t)[i].of.request \in h
    BY DEF Answers
  <2>2. CASE i <= Len(s)
    BY <1>1, <1>2, <1>3, <1>4, <2>2 DEF Answers
  <2>3. CASE ~(i <= Len(s))
    <3>1. i - Len(s) \in DOMAIN t /\ (s \o t)[i] = t[i - Len(s)]
      BY <1>1, <1>2, <1>3, <2>3
    <3>. QED  BY <1>4, <3>1 DEF Answers
  <2>. QED  BY <2>2, <2>3
<1>5. ASSUME Answers(s \o t, h)
      PROVE  Answers(s, h) /\ Answers(t, h)
  <2>1. ASSUME NEW i \in DOMAIN s PROVE s[i].of.request \in h
    <3>1. i \in DOMAIN (s \o t) /\ (s \o t)[i] = s[i]
      BY <1>1, <1>2, <1>3
    <3>. QED  BY <1>5, <3>1 DEF Answers
  <2>2. ASSUME NEW i \in DOMAIN t PROVE t[i].of.request \in h
    <3>1. /\ Len(s) + i \in 1 .. Len(s) + Len(t) /\ ~(Len(s) + i <= Len(s))
          /\ Len(s) + i - Len(s) = i
      BY <1>1
    <3>2. Len(s) + i \in DOMAIN (s \o t) /\ (s \o t)[Len(s) + i] = t[i]
      BY <1>2, <1>3, <3>1
    <3>. QED  BY <1>5, <3>2 DEF Answers
  <2>. QED  BY <2>1, <2>2 DEF Answers
<1>. QED  BY <1>4, <1>5

\* AnswersHandled of a state whose parts are these.
LEMMA AnswersKept ==
    ASSUME TypeOK', AnswersHandled, handled \subseteq handled',
           stage'[Server] = "invoked" => got'[Server][3].of.request \in handled' \cup {None},
           unsent'[Server] # <<>> => unsent'[Server][1].of.request \in handled' \cup {None},
           \A t \in Threads : got'[t] = got[t] \/ Answers(got'[t], handled' \cup {None}),
           wire'["to_threads"] = wire["to_threads"]
             \/ Answers(wire'["to_threads"], handled' \cup {None})
    PROVE  AnswersHandled'
<1>1. \A t \in Threads : Answers(got[t], handled \cup {None})
  BY DEF AnswersHandled, Answers
<1>2. Answers(wire["to_threads"], handled \cup {None})
  BY DEF AnswersHandled, Answers
<1>3. \A s : Answers(s, handled \cup {None}) => Answers(s, handled' \cup {None})
  BY DEF Answers
<1>4. \A t \in Threads : Answers(got'[t], handled' \cup {None})
  BY <1>1, <1>3
<1>5. Answers(wire'["to_threads"], handled' \cup {None})
  BY <1>2, <1>3
<1>. QED  BY <1>4, <1>5 DEF AnswersHandled, Answers

LEMMA AnswersWriteSome ==
    ASSUME TypeOK, TypeOK', AnswersHandled, NEW e \in Ends, WriteSome(e)
    PROVE  AnswersHandled'
<1>1. PICK a, b \in Seq(Bytes) :
        /\ stage[e] = "send" /\ a # <<>> /\ unsent[e] = a \o b
        /\ b # <<>> => EndOfFrame(b)
        /\ unsent' = [unsent EXCEPT ![e] = b]
        /\ stage' = [stage EXCEPT ![e] = IF b = <<>> THEN "receive" ELSE "send"]
        /\ PeerGone(e) => wire' = wire
        /\ ~PeerGone(e) =>
            /\ Len(wire[Out(e)]) + Len(a) <= Room
            /\ wire' = [wire EXCEPT ![Out(e)] = wire[Out(e)] \o a]
        /\ UNCHANGED <<got, calls, handled, outcome, overlapped>>
  BY WriteEffect
<1>2. /\ unsent \in [Ends -> Seq(Bytes)] /\ wire \in [Directions -> Seq(Bytes)]
      /\ stage \in [Ends -> {"idle", "send", "receive", "invoked", "closed", "dead"}]
      /\ got' = got /\ handled' = handled /\ "to_threads" \in Directions /\ Server \in Ends
  BY <1>1, EndsAre DEF TypeOK, Directions
<1>3. stage'[Server] = "invoked" => stage[Server] = "invoked"
  BY <1>1, <1>2
<1>4. stage'[Server] = "invoked" => got'[Server][3].of.request \in handled' \cup {None}
  BY <1>2, <1>3 DEF AnswersHandled
<1>5. CASE e = Server
  <2>1. unsent[Server] \in Seq(Bytes) /\ EndOfFrame(unsent[Server]) /\ unsent[Server] # <<>>
    BY <1>1, <1>5 DEF TypeOK
  <2>2. unsent[Server][1].of.request \in handled \cup {None}
    BY <2>1 DEF AnswersHandled
  <2>3. /\ \A i \in DOMAIN a : a[i].of = unsent[Server][1].of
        /\ b # <<>> => b[1].of = unsent[Server][1].of
    <3>1. unsent[Server] = a \o b /\ a # <<>> /\ a \in Seq(Bytes) /\ b \in Seq(Bytes)
      BY <1>1, <1>5
    <3>. QED  BY <2>1, <3>1, EndCut, ZenonT(30)
  <2>4. Answers(a, handled \cup {None})
    BY <2>2, <2>3 DEF Answers
  <2>5. unsent'[Server] # <<>> => unsent'[Server][1].of.request \in handled' \cup {None}
    BY <1>1, <1>2, <1>5, <2>2, <2>3
  <2>6. wire'["to_threads"] = wire["to_threads"] \/ wire'["to_threads"] = wire["to_threads"] \o a
    BY <1>1, <1>2, <1>5, EndsAre
  <2>7. Answers(wire["to_threads"], handled \cup {None})
    BY DEF AnswersHandled, Answers
  <2>8. Answers(wire["to_threads"] \o a, handled \cup {None})
    BY <1>2, <2>4, <2>7, AnswersCut
  <2>. QED  BY <1>2, <1>4, <2>5, <2>6, <2>8, AnswersKept
<1>6. CASE e # Server
  <2>1. unsent'[Server] = unsent[Server] /\ wire'["to_threads"] = wire["to_threads"]
    BY <1>1, <1>2, <1>6, EndsAre
  <2>2. unsent'[Server] # <<>> => unsent'[Server][1].of.request \in handled' \cup {None}
    BY <1>2, <2>1 DEF AnswersHandled
  <2>. QED  BY <1>2, <1>4, <2>1, <2>2, AnswersKept
<1>. QED  BY <1>5, <1>6

LEMMA AnswersReadSome ==
    ASSUME TypeOK, TypeOK', AnswersHandled, NEW e \in Ends, ReadSome(e)
    PROVE  AnswersHandled'
<1>1. PICK a, b \in Seq(Bytes) :
        /\ stage[e] = "receive" /\ a # <<>> /\ wire[In(e)] = a \o b
        /\ got' = [got EXCEPT ![e] = got[e] \o a]
        /\ wire' = [wire EXCEPT ![In(e)] = b]
        /\ Len(a) <= Missing(e) /\ Len(b) <= Room
        /\ UNCHANGED <<stage, unsent, calls, handled, outcome, overlapped>>
  BY ReadEffect
<1>2. /\ got \in [Ends -> Seq(Bytes)] /\ wire \in [Directions -> Seq(Bytes)]
      /\ unsent' = unsent /\ stage' = stage /\ handled' = handled
      /\ "to_threads" \in Directions /\ Server \in Ends
  BY <1>1, EndsAre DEF TypeOK, Directions
<1>3. stage'[Server] = "invoked" => got'[Server][3].of.request \in handled' \cup {None}
  <2>1. stage'[Server] = "invoked" => got'[Server] = got[Server]
    BY <1>1, <1>2
  <2>. QED  BY <1>2, <2>1 DEF AnswersHandled
<1>4. unsent'[Server] # <<>> => unsent'[Server][1].of.request \in handled' \cup {None}
  BY <1>2 DEF AnswersHandled
<1>5. CASE e = Server
  <2>1. /\ wire'["to_threads"] = wire["to_threads"]
        /\ \A t \in Threads : got'[t] = got[t]
    BY <1>1, <1>2, <1>5, EndsAre
  <2>. QED  BY <1>2, <1>3, <1>4, <2>1, AnswersKept
<1>6. CASE e # Server
  <2>1. /\ e \in Threads /\ wire["to_threads"] = a \o b /\ wire'["to_threads"] = b
        /\ got'[e] = got[e] \o a /\ \A t \in Threads : t # e => got'[t] = got[t]
        /\ got[e] \in Seq(Bytes)
    BY <1>1, <1>2, <1>6, EndsAre
  <2>2. Answers(a \o b, handled \cup {None}) /\ Answers(got[e], handled \cup {None})
    BY <2>1 DEF AnswersHandled, Answers
  <2>3. Answers(a, handled \cup {None}) /\ Answers(b, handled \cup {None})
    BY <2>2, AnswersCut
  <2>4. Answers(got[e] \o a, handled \cup {None})
    BY <2>1, <2>2, <2>3, AnswersCut
  <2>5. \A t \in Threads : got'[t] = got[t] \/ Answers(got'[t], handled' \cup {None})
    BY <1>2, <2>1, <2>4
  <2>. QED  BY <1>2, <1>3, <1>4, <2>1, <2>3, <2>5, AnswersKept
<1>. QED  BY <1>5, <1>6

\* Nothing is left of what was neither read nor written.
LEMMA AnswersDrop ==
    ASSUME TypeOK, TypeOK', AnswersHandled, handled' = handled,
           stage'[Server] = "invoked" => stage[Server] = "invoked" /\ got'[Server] = got[Server],
           \A e \in Ends : unsent'[e] = unsent[e] \/ unsent'[e] = <<>>,
           \A e \in Ends : got'[e] = got[e] \/ got'[e] = <<>>,
           wire'["to_threads"] = wire["to_threads"] \/ wire'["to_threads"] = <<>>
    PROVE  AnswersHandled'
<1>1. Answers(<<>>, handled' \cup {None})
  BY DEF Answers
<1>2. stage'[Server] = "invoked" => got'[Server][3].of.request \in handled' \cup {None}
  BY DEF AnswersHandled
<1>3. unsent'[Server] # <<>> => unsent'[Server][1].of.request \in handled' \cup {None}
  BY EndsAre DEF AnswersHandled
<1>. QED  BY <1>1, <1>2, <1>3, EndsAre, AnswersKept

LEMMA AnswersDies ==
    ASSUME TypeOK, TypeOK', AnswersHandled, NEW e \in Ends, Dies(e)
    PROVE  AnswersHandled'
<1>1. \A f \in Ends : f \in Process(e) => got'[f] = <<>> /\ unsent'[f] = <<>> /\ stage'[f] = "dead"
  BY DEF Dies
<1>2. \A f \in Ends : f \notin Process(e) =>
        got'[f] = got[f] /\ unsent'[f] = unsent[f] /\ stage'[f] = stage[f]
  BY DEF Dies
<1>3. wire' = wire /\ handled' = handled
  BY DEF Dies
<1>4. stage'[Server] = "invoked" => stage[Server] = "invoked" /\ got'[Server] = got[Server]
  BY <1>1, <1>2, EndsAre
<1>. QED  BY <1>1, <1>2, <1>3, <1>4, AnswersDrop

LEMMA AnswersGivesUp ==
    ASSUME TypeOK, TypeOK', AnswersHandled, NEW e \in Ends, GivesUp(e),
           wire' = wire \/ wire' = [wire EXCEPT ![In(e)] = <<>>]
    PROVE  AnswersHandled'
<1>1. /\ stage' = [stage EXCEPT ![e] = IF e = Server THEN "closed" ELSE "idle"]
      /\ unsent' = [unsent EXCEPT ![e] = <<>>] /\ got' = [got EXCEPT ![e] = <<>>]
      /\ handled' = handled
  BY DEF GivesUp
<1>2. /\ unsent \in [Ends -> Seq(Bytes)] /\ got \in [Ends -> Seq(Bytes)]
      /\ wire \in [Directions -> Seq(Bytes)] /\ "to_threads" \in Directions
      /\ stage \in [Ends -> {"idle", "send", "receive", "invoked", "closed", "dead"}]
      /\ Server \in Ends
  BY EndsAre DEF TypeOK, Directions
<1>3. stage'[Server] = "invoked" => stage[Server] = "invoked" /\ got'[Server] = got[Server]
  BY <1>1, <1>2
<1>4. /\ \A f \in Ends : unsent'[f] = unsent[f] \/ unsent'[f] = <<>>
      /\ \A f \in Ends : got'[f] = got[f] \/ got'[f] = <<>>
      /\ wire'["to_threads"] = wire["to_threads"] \/ wire'["to_threads"] = <<>>
  BY <1>1, <1>2
<1>. QED  BY <1>1, <1>3, <1>4, AnswersDrop

LEMMA AnswersNext == TypeOK /\ TypeOK' /\ AnswersHandled /\ [Next]_vars => AnswersHandled'
<1>. SUFFICES ASSUME TypeOK, TypeOK', AnswersHandled, [Next]_vars PROVE AnswersHandled'
  OBVIOUS
<1>0. /\ unsent \in [Ends -> Seq(Bytes)] /\ got \in [Ends -> Seq(Bytes)]
      /\ stage \in [Ends -> {"idle", "send", "receive", "invoked", "closed", "dead"}]
      /\ Server \in Ends /\ Answers(<<>>, handled' \cup {None})
  BY EndsAre DEF TypeOK, Answers
<1>1. ASSUME NEW t \in Threads, Call(t) PROVE AnswersHandled'
  <2>1. CASE PackDies(t, RequestSizes)
    BY <2>1, AnswersDies, EndsAre DEF PackDies
  <2>2. ASSUME NEW m, Pack(t, m), UNCHANGED <<wire, handled, outcome>>
        PROVE  AnswersHandled'
    <3>1. /\ stage' = [stage EXCEPT ![t] = "send"] /\ unsent' = [unsent EXCEPT ![t] = Frame(m)]
          /\ got' = [got EXCEPT ![t] = <<>>] /\ wire' = wire /\ handled' = handled
      BY <2>2 DEF Pack
    <3>2. /\ stage'[Server] = stage[Server] /\ unsent'[Server] = unsent[Server]
          /\ got'[Server] = got[Server]
          /\ \A u \in Threads : got'[u] = got[u] \/ got'[u] = <<>>
      BY <1>0, <3>1, EndsAre
    <3>. QED  BY <1>0, <3>1, <3>2, AnswersKept DEF AnswersHandled
  <2>. QED  BY <1>1, <2>1, <2>2 DEF Call
<1>2. ASSUME NEW e \in Ends, Step(e) PROVE AnswersHandled'
  <2>1. CASE WriteSome(e)
    BY <2>1, AnswersWriteSome
  <2>2. CASE WriteFails(e) \/ ReadFails(e) \/ ReceiveFails(e)
    BY <2>2, GivingUp, AnswersGivesUp
  <2>3. CASE ReadSome(e)
    BY <2>3, AnswersReadSome
  <2>4. CASE e # Server /\ Return(e)
    <3>1. /\ stage' = [stage EXCEPT ![e] = "idle"] /\ got' = [got EXCEPT ![e] = <<>>]
          /\ unsent' = unsent /\ wire' = wire /\ handled' = handled
      BY <2>4 DEF Return
    <3>2. stage'[Server] = stage[Server] /\ got'[Server] = got[Server]
      BY <1>0, <2>4, <3>1
    <3>3. \A f \in Ends : got'[f] = got[f] \/ got'[f] = <<>>
      BY <1>0, <3>1
    <3>. QED  BY <3>1, <3>2, <3>3, AnswersDrop
  <2>5. CASE Handle
    <3>1. PICK r : Invoked(r)
      BY <2>5, HandleEffect
    <3>2. /\ handled \subseteq handled' /\ r \in handled' \cup {None}
          /\ unsent' = unsent /\ wire' = wire
          /\ got' = [got EXCEPT ![Server] = TakenFor(got[Server], r)]
          /\ TakenFor(got[Server], r)[3].of.request = r
      BY <3>1, Taken DEF Invoked
    <3>3. got'[Server][3].of.request = r /\ \A t \in Threads : got'[t] = got[t]
      BY <1>0, <3>2, EndsAre
    <3>4. unsent'[Server] # <<>> => unsent'[Server][1].of.request \in handled' \cup {None}
      BY <3>2 DEF AnswersHandled
    <3>. QED  BY <3>2, <3>3, <3>4, AnswersKept
  <2>6. CASE Answer
    <3>1. CASE PackDies(Server, AnswerSizes)
      BY <1>0, <3>1, AnswersDies DEF PackDies
    <3>2. ASSUME NEW m \in Message(got[Server][3].of.request, AnswerSizes), Pack(Server, m),
                 UNCHANGED <<wire, calls, handled, outcome, overlapped>>
          PROVE  AnswersHandled'
      <4>1. /\ stage' = [stage EXCEPT ![Server] = "send"]
            /\ unsent' = [unsent EXCEPT ![Server] = Frame(m)]
            /\ got' = [got EXCEPT ![Server] = <<>>] /\ wire' = wire /\ handled' = handled
        BY <3>2 DEF Pack
      <4>2. stage[Server] = "invoked" /\ got[Server][3].of.request \in handled \cup {None}
        BY <2>6 DEF Answer, AnswersHandled
      <4>3. got[Server][3].of.request \in Requests \cup {None}
        BY <1>0, <4>2, ReceivedBytes DEF TypeOK
      <4>4. m \in Messages /\ m.request = got[Server][3].of.request
        BY <3>2, <4>3 DEF Message, Messages
      <4>5. Frame(m)[1].of = m
        <5>1. m \in Messages
          BY <4>4
        <5>2. m.size \in Nat /\ \A i \in 1 .. m.size + 2 : Frame(m)[i].of = m
          BY <5>1, FrameType
        <5>. QED  BY <5>2
      <4>6. unsent'[Server][1].of.request \in handled' \cup {None} /\ stage'[Server] = "send"
            /\ \A t \in Threads : got'[t] = got[t]
        BY <1>0, <4>1, <4>2, <4>4, <4>5, EndsAre
      <4>. QED  BY <4>1, <4>6, AnswersKept
    <3>. QED  BY <2>6, <3>1, <3>2 DEF Answer
  <2>. QED  BY <1>2, <2>1, <2>2, <2>3, <2>4, <2>5, <2>6 DEF Step
<1>3. ASSUME NEW e \in Ends, Dies(e) PROVE AnswersHandled'
  BY <1>3, AnswersDies
<1>4. CASE UNCHANGED vars
  BY <1>4, AnswersDrop DEF vars
<1>. QED  BY <1>1, <1>2, <1>3, <1>4 DEF Next

-----------------------------------------------------------------------------
(* Calls in turn. *)

LEMMA FramesAre ==
    ASSUME NEW r, NEW sizes, NEW f \in Frames(r, sizes)
    PROVE  \E m \in Messages :
            /\ f = Frame(m) /\ m.request = r /\ m.size \in sizes /\ m.size < Limit
            /\ f \in Seq(Bytes) /\ Len(f) = m.size + 2 /\ m.size \in Nat /\ m.size >= 1
            /\ \A i \in 1 .. m.size + 2 : f[i].of = m /\ f[i].at = i
<1>1. PICK m \in Messages : f = Frame(m) /\ m.request = r /\ m.size \in sizes /\ m.size < Limit
  BY DEF Frames
<1>2. /\ Frame(m) \in Seq(Bytes) /\ Len(Frame(m)) = m.size + 2 /\ m.size \in Nat /\ m.size >= 1
      /\ \A i \in 1 .. m.size + 2 : Frame(m)[i].of = m /\ Frame(m)[i].at = i
  BY FrameType
<1>. QED  BY <1>1, <1>2

LEMMA FramesType ==
    \A r, sizes : \A f \in Frames(r, sizes) :
        f \in Seq(Bytes) /\ Len(f) \in Nat /\ Len(f) > 2 /\ f # <<>>
<1>. SUFFICES ASSUME NEW r, NEW sizes, NEW f \in Frames(r, sizes)
              PROVE  f \in Seq(Bytes) /\ Len(f) \in Nat /\ Len(f) > 2 /\ f # <<>>
  OBVIOUS
<1>1. PICK m \in Messages :
        f \in Seq(Bytes) /\ Len(f) = m.size + 2 /\ m.size \in Nat /\ m.size >= 1
  BY FramesAre
<1>2. Len(<<>>) = 0
  OBVIOUS
<1>. QED  BY <1>1, <1>2

\* Bytes that begin a frame and owe nothing are the frame.
LEMMA WholeFrame ==
    ASSUME TypeOK, NEW e \in Ends, NEW r, NEW sizes, NEW f \in Frames(r, sizes),
           IsPrefix(got[e], f), Len(got[e]) >= 2, Missing(e) <= 0
    PROVE  got[e] = f /\ IsWhole(e) /\ got[e][3].of.request = r
<1>1. PICK m \in Messages :
        /\ f = Frame(m) /\ m.request = r /\ m.size \in sizes /\ m.size < Limit
        /\ f \in Seq(Bytes) /\ Len(f) = m.size + 2 /\ m.size \in Nat /\ m.size >= 1
        /\ \A i \in 1 .. m.size + 2 : f[i].of = m /\ f[i].at = i
  BY FramesAre
<1>2. got[e] \in Seq(Bytes) /\ Len(got[e]) \in Nat
  BY LenProperties DEF TypeOK
<1>3. Length(got[e]) = m.size
  BY <1>1, <1>2, LengthOfFrame
<1>4. Missing(e) = 2 + m.size - Len(got[e])
  BY <1>1, <1>2, <1>3 DEF Missing
<1>5. got[e] = f
  BY <1>1, <1>2, <1>4, FullPrefix
<1>6. got[e][3].of = m
  BY <1>1, <1>5
<1>7. SubSeq(got[e], 3, Len(got[e])) = SubSeq(Frame(m), 3, m.size + 2)
  BY <1>1, <1>5
<1>8. IsWhole(e)
  BY <1>1, <1>5, <1>6, <1>7 DEF IsWhole
<1>. QED  BY <1>1, <1>5, <1>6, <1>8

LEMMA PrefixParts ==
    ASSUME NEW s \in Seq(Bytes), NEW t \in Seq(Bytes), NEW f \in Seq(Bytes), IsPrefix(s \o t, f)
    PROVE  IsPrefix(s, f) /\ (s = f => t = <<>>)
<1>1. IsPrefix(s, f)
  BY PrefixOfPrefix
<1>2. s \o t \in Seq(Bytes) /\ Len(s \o t) = Len(s) + Len(t)
  BY ConcatProperties
<1>3. Len(s \o t) <= Len(f)
  BY <1>2, PrefixElements
<1>4. Len(s) \in Nat /\ Len(t) \in Nat /\ (t # <<>> => Len(t) # 0)
  BY LenProperties, EmptySeq
<1>. QED  BY <1>1, <1>2, <1>3, <1>4

LEMMA SamePrefix ==
    ASSUME NEW s \in Seq(Bytes), NEW t \in Seq(Bytes), NEW f \in Seq(Bytes), s \o t = f
    PROVE  IsPrefix(s, f) /\ (s = f => t = <<>>)
<1>1. IsPrefix(s, f)
  BY PrefixOfConcat
<1>2. s = f => t = <<>>
  BY ConcatEqualIffEmpty
<1>. QED  BY <1>1, <1>2

\* What an end has read in turn begins a frame.
LEMMA GotBegins ==
    ASSUME TypeOK, InTurn, NEW e \in Ends, got[e] # <<>>
    PROVE  \E r, sizes : \E f \in Frames(r, sizes) : IsPrefix(Line(e), f) /\ IsPrefix(got[e], f)
<1>1. got[e] \in Seq(Bytes) /\ wire[In(e)] \in Seq(Bytes) /\ Line(e) = got[e] \o wire[In(e)]
      /\ Line(e) \in Seq(Bytes)
  BY EndsAre, LineType DEF TypeOK, Line, LineFacts
<1>2. Line(e) # <<>>
  BY <1>1, ConcatEqualIffEmpty
<1>3. \E r, sizes : \E f \in Frames(r, sizes) : IsPrefix(Line(e), f)
  <2>1. CASE e = Server
    <3>1. stage[Server] \in {"receive", "invoked"}
      BY <2>1 DEF TypeOK
    <3>. QED  BY <1>2, <2>1, <3>1 DEF InTurn
  <2>2. CASE e # Server
    <3>1. e \in Threads /\ stage[e] = "receive"
      BY <2>2, EndsAre DEF TypeOK
    <3>2. Handling(e) \/ Answering(e) \/ Abandoned(e)
      BY <3>1 DEF InTurn, Waiting
    <3>3. CASE Answering(e)
      <4>1. Line(e) \o unsent[Server] \in Frames(<<e, calls[e]>>, AnswerSizes)
        BY <3>3 DEF Answering
      <4>2. unsent[Server] \in Seq(Bytes)
        BY EndsAre DEF TypeOK
      <4>3. IsPrefix(Line(e), Line(e) \o unsent[Server])
        BY <1>1, <4>2, PrefixOfConcat
      <4>. QED  BY <4>1, <4>3
    <3>. QED  BY <1>2, <3>2, <3>3 DEF Handling, Abandoned
  <2>. QED  BY <2>1, <2>2
<1>4. PICK r, sizes : \E f \in Frames(r, sizes) : IsPrefix(Line(e), f)
  BY <1>3
<1>5. PICK f \in Frames(r, sizes) : IsPrefix(Line(e), f)
  BY <1>4
<1>6. f \in Seq(Bytes)
  BY FramesType
<1>7. IsPrefix(got[e], f)
  BY <1>1, <1>5, <1>6, PrefixParts
<1>. QED  BY <1>5, <1>7

\* What is received in turn is a message.
LEMMA NoGarbage ==
    ASSUME TypeOK, InTurn, NEW e \in Ends
    PROVE  ~ReceiveFails(e)
<1>1. SUFFICES ASSUME Len(got[e]) >= 2, Missing(e) <= 0 PROVE IsWhole(e)
  BY DEF ReceiveFails
<1>2. got[e] # <<>>
  <2>1. Len(<<>>) = 0
    OBVIOUS
  <2>. QED  BY <1>1, <2>1
<1>3. PICK r, sizes : \E f \in Frames(r, sizes) : IsPrefix(Line(e), f) /\ IsPrefix(got[e], f)
  BY <1>2, GotBegins
<1>4. PICK f \in Frames(r, sizes) : IsPrefix(Line(e), f) /\ IsPrefix(got[e], f)
  BY <1>3
<1>. QED  BY <1>1, <1>4, WholeFrame

LEMMA TurnServerWrites ==
    ASSUME TypeOK, TypeOK', InTurn, WriteSome(Server)
    PROVE  InTurn'
<1>0. Server \in Ends
  BY EndsAre
<1>1. PICK a, b \in Seq(Bytes) :
        /\ stage[Server] = "send" /\ a # <<>> /\ unsent[Server] = a \o b
        /\ b # <<>> => EndOfFrame(b)
        /\ unsent' = [unsent EXCEPT ![Server] = b]
        /\ stage' = [stage EXCEPT ![Server] = IF b = <<>> THEN "receive" ELSE "send"]
        /\ PeerGone(Server) => wire' = wire
        /\ ~PeerGone(Server) =>
            /\ Len(wire[Out(Server)]) + Len(a) <= Room
            /\ wire' = [wire EXCEPT ![Out(Server)] = wire[Out(Server)] \o a]
        /\ UNCHANGED <<got, calls, handled, outcome, overlapped>>
  BY <1>0, WriteEffect
<1>2. /\ unsent \in [Ends -> Seq(Bytes)] /\ wire \in [Directions -> Seq(Bytes)]
      /\ stage \in [Ends -> {"idle", "send", "receive", "invoked", "closed", "dead"}]
      /\ got \in [Ends -> Seq(Bytes)] /\ got' = got /\ calls' = calls
      /\ "to_threads" \in Directions /\ "to_server" \in Directions
  BY <1>1 DEF TypeOK, Directions
<1>3. /\ \A t \in Threads : stage'[t] = stage[t]
      /\ stage'[Server] \in {"send", "receive"} /\ unsent'[Server] = b
      /\ wire'["to_server"] = wire["to_server"]
      /\ Waiting' = Waiting
  BY <1>0, <1>1, <1>2, EndsAre DEF Waiting
<1>4. Line(Server)' = Line(Server) /\ Line(Server) = <<>>
  BY <1>1, <1>2, <1>3 DEF Line, In, InTurn
<1>5. ~Quiet /\ (Quiet' <=> Quiet)
  BY <1>1, <1>3 DEF Quiet, InTurn
<1>6. ASSUME NEW t \in Waiting
      PROVE  stage[t] = "receive" /\ Answering(t)'
  <2>1. t \in Threads /\ t \in Ends /\ stage[t] \in {"send", "receive"}
    BY EndsAre DEF Waiting
  <2>2. stage[t] = "receive" /\ Answering(t)
    BY <1>1, <2>1 DEF InTurn, Sending, Handling, Abandoned
  <2>3. ~PeerGone(Server)
    BY <1>0, <2>1, EndsAre DEF PeerGone
  <2>4. wire'["to_threads"] = wire["to_threads"] \o a
    BY <1>1, <1>2, <2>3, EndsAre
  <2>5. Line(t) = got[t] \o wire["to_threads"] /\ Line(t)' = got[t] \o (wire["to_threads"] \o a)
    BY <1>2, <2>1, <2>4, EndsAre DEF Line
  <2>6. got[t] \in Seq(Bytes) /\ wire["to_threads"] \in Seq(Bytes) /\ wire["to_threads"] \o a \in Seq(Bytes)
    BY <1>2, <2>1, ConcatProperties
  <2>8. Line(t)' \o b = Line(t) \o (a \o b)
    <3>1. (got[t] \o wire["to_threads"]) \o a = got[t] \o (wire["to_threads"] \o a)
      BY <2>6, Joining, ZenonT(30)
    <3>2. (Line(t) \o a) \o b = Line(t) \o (a \o b)
      <4>1. Line(t) \in Seq(Bytes)
        BY <2>1, LineType DEF LineFacts
      <4>. QED  BY <4>1, Joining
    <3>3. Line(t)' = Line(t) \o a
      BY <2>5, <3>1
    <3>. QED  BY <3>2, <3>3
  <2>9. Line(t)' \o unsent'[Server] \in Frames(<<t, calls[t]>>, AnswerSizes)
    BY <1>1, <1>3, <2>2, <2>8 DEF Answering
  <2>. QED  BY <1>2, <1>3, <1>4, <2>2, <2>9 DEF Answering
<1>7. \A t, u \in Waiting' : t = u
  BY <1>3 DEF InTurn
<1>8. \A t \in Waiting' : stage'[t] = "receive" /\ Answering(t)'
  BY <1>3, <1>6 DEF Waiting
<1>. QED  BY <1>3, <1>4, <1>5, <1>7, <1>8 DEF InTurn

LEMMA TurnThreadWrites ==
    ASSUME TypeOK, TypeOK', InTurn, NEW t \in Threads, WriteSome(t)
    PROVE  InTurn'
<1>0. t \in Ends /\ Server \in Ends /\ t # Server
  BY EndsAre
<1>1. PICK a, b \in Seq(Bytes) :
        /\ stage[t] = "send" /\ a # <<>> /\ unsent[t] = a \o b
        /\ b # <<>> => EndOfFrame(b)
        /\ unsent' = [unsent EXCEPT ![t] = b]
        /\ stage' = [stage EXCEPT ![t] = IF b = <<>> THEN "receive" ELSE "send"]
        /\ PeerGone(t) => wire' = wire
        /\ ~PeerGone(t) =>
            /\ Len(wire[Out(t)]) + Len(a) <= Room
            /\ wire' = [wire EXCEPT ![Out(t)] = wire[Out(t)] \o a]
        /\ UNCHANGED <<got, calls, handled, outcome, overlapped>>
  BY <1>0, WriteEffect
<1>2. /\ unsent \in [Ends -> Seq(Bytes)] /\ wire \in [Directions -> Seq(Bytes)]
      /\ stage \in [Ends -> {"idle", "send", "receive", "invoked", "closed", "dead"}]
      /\ got \in [Ends -> Seq(Bytes)] /\ got' = got /\ calls' = calls
      /\ "to_threads" \in Directions /\ "to_server" \in Directions
  BY <1>1 DEF TypeOK, Directions
<1>3. /\ stage'[Server] = stage[Server] /\ unsent'[Server] = unsent[Server]
      /\ wire'["to_threads"] = wire["to_threads"]
      /\ stage'[t] = IF b = <<>> THEN "receive" ELSE "send"
      /\ unsent'[t] = b
      /\ \A u \in Threads : u # t => stage'[u] = stage[u]
  BY <1>0, <1>1, <1>2, EndsAre
<1>4. t \in Waiting /\ Sending(t) /\ Waiting' = Waiting /\ Waiting = {t}
  <2>1. t \in Waiting /\ Sending(t)
    BY <1>1 DEF Waiting, InTurn
  <2>2. Waiting = {t}
    BY <2>1 DEF InTurn
  <2>3. Waiting' = Waiting
    BY <1>1, <1>3 DEF Waiting
  <2>. QED  BY <2>1, <2>2, <2>3
<1>5. stage[Server] # "closed" /\ (PeerGone(t) <=> stage[Server] = "dead")
  <2>1. stage[Server] # "closed"
    BY <1>0, <1>1 DEF InTurn
  <2>2. Ends \ Process(t) = {Server}
    BY <1>0, EndsAre
  <2>. QED  BY <2>1, <2>2 DEF PeerGone
<1>6. Line(t)' = <<>> /\ wire'["to_threads"] = <<>>
  <2>1. got[t] = <<>> /\ wire["to_threads"] = <<>> /\ <<>> \in Seq(Bytes)
    BY <1>0, <1>1, <1>4, EmptySeq DEF TypeOK, Sending
  <2>2. Line(t)' = got'[t] \o wire'["to_threads"]
    BY <1>0, EndsAre DEF Line
  <2>. QED  BY <1>2, <1>3, <2>1, <2>2, ConcatEmptySeq
<1>7. ~Quiet'
  BY <1>4 DEF Quiet
<1>8. CASE stage[Server] = "dead"
  <2>1. Sending(t)' /\ Abandoned(t)'
    BY <1>3, <1>6, <1>8 DEF Sending, Abandoned
  <2>2. /\ \A u, v \in Waiting' : u = v
        /\ \A u \in Waiting' : u = t
    BY <1>4
  <2>. QED  BY <1>3, <1>7, <1>8, <2>1, <2>2 DEF InTurn
<1>9. CASE stage[Server] # "dead"
  <2>1. stage[Server] = "receive" /\ Line(Server) \o unsent[t] \in Frames(<<t, calls[t]>>, RequestSizes)
    BY <1>4, <1>9 DEF Sending
  <2>2. wire'["to_server"] = wire["to_server"] \o a
    BY <1>0, <1>1, <1>2, <1>5, <1>9, EndsAre
  <2>3. /\ got[Server] \in Seq(Bytes) /\ wire["to_server"] \in Seq(Bytes)
        /\ Line(Server) = got[Server] \o wire["to_server"]
        /\ Line(Server)' = got[Server] \o (wire["to_server"] \o a)
        /\ Line(Server) \in Seq(Bytes) /\ Line(Server)' \in Seq(Bytes)
    BY <1>0, <1>2, <2>2, EndsAre, LineType, LineTypeNext DEF Line, LineFacts
  <2>5. Line(Server)' \o b = Line(Server) \o (a \o b)
    <3>1. (got[Server] \o wire["to_server"]) \o a = got[Server] \o (wire["to_server"] \o a)
      BY <2>3, Joining, ZenonT(30), SMTT(30)
    <3>2. (Line(Server) \o a) \o b = Line(Server) \o (a \o b)
      BY <2>3, Joining, ZenonT(30)
    <3>3. Line(Server)' = Line(Server) \o a
      BY <2>3, <3>1
    <3>. QED  BY <3>2, <3>3
  <2>6. Line(Server)' \o b \in Frames(<<t, calls[t]>>, RequestSizes)
    BY <1>1, <2>1, <2>5
  <2>7. IsPrefix(Line(Server)', Line(Server)' \o b)
    BY <2>3, PrefixOfConcat
  <2>8. \E u \in Threads : \E f \in Frames(<<u, calls'[u]>>, RequestSizes) : IsPrefix(Line(Server)', f)
    BY <1>2, <2>6, <2>7
  <2>10. IF stage'[t] = "send" THEN Sending(t)' ELSE Handling(t)'
    <3>1. CASE b = <<>>
      <4>1. Line(Server)' \in Frames(<<t, calls[t]>>, RequestSizes)
        BY <2>3, <2>6, <3>1, ConcatEmptySeq
      <4>. QED  BY <1>2, <1>3, <1>6, <2>1, <3>1, <4>1 DEF Handling
    <3>2. CASE b # <<>>
      BY <1>2, <1>3, <1>6, <2>1, <2>6, <3>2 DEF Sending
    <3>. QED  BY <3>1, <3>2
  <2>11. /\ \A u, v \in Waiting' : u = v
         /\ \A u \in Waiting' : u = t
    BY <1>4
  <2>. QED  BY <1>3, <1>7, <2>1, <2>8, <2>10, <2>11 DEF InTurn
<1>. QED  BY <1>8, <1>9

LEMMA TurnReads ==
    ASSUME TypeOK, TypeOK', InTurn, NEW e \in Ends, ReadSome(e)
    PROVE  InTurn'
<1>1. PICK a, b \in Seq(Bytes) :
        /\ stage[e] = "receive" /\ a # <<>> /\ wire[In(e)] = a \o b
        /\ got' = [got EXCEPT ![e] = got[e] \o a]
        /\ wire' = [wire EXCEPT ![In(e)] = b]
        /\ Len(a) <= Missing(e) /\ Len(b) <= Room
        /\ UNCHANGED <<stage, unsent, calls, handled, outcome, overlapped>>
  BY ReadEffect
<1>2. /\ got \in [Ends -> Seq(Bytes)] /\ wire \in [Directions -> Seq(Bytes)]
      /\ stage' = stage /\ unsent' = unsent /\ calls' = calls
      /\ Server \in Ends /\ In(e) \in Directions
      /\ "to_threads" \in Directions /\ "to_server" \in Directions
  BY <1>1, EndsAre DEF TypeOK, Directions
<1>3. Line(e)' = Line(e)
  <2>1. got'[e] = got[e] \o a /\ wire'[In(e)] = b
    BY <1>1, <1>2
  <2>2. got[e] \in Seq(Bytes)
    BY <1>2
  <2>3. (got[e] \o a) \o b = got[e] \o (a \o b)
    BY <2>2, Joining
  <2>4. Line(e)' = got'[e] \o wire'[In(e)]
    BY DEF Line, In
  <2>. QED  BY <1>1, <2>1, <2>3, <2>4 DEF Line
<1>4. Waiting' = Waiting /\ (Quiet' <=> Quiet)
  <2>1. Waiting' = Waiting
    BY <1>2 DEF Waiting
  <2>. QED  BY <1>2, <2>1 DEF Quiet
<1>5. CASE e = Server
  <2>1. /\ Line(Server)' = Line(Server) /\ stage[Server] = "receive"
        /\ wire'["to_threads"] = wire["to_threads"]
        /\ \A t \in Threads : got'[t] = got[t] /\ wire'[In(t)] = wire[In(t)]
    BY <1>1, <1>2, <1>3, <1>5, EndsAre
  <2>2. \A t \in Threads : Line(t)' = Line(t)
    BY <2>1 DEF Line, In
  <2>3. ASSUME NEW t \in Waiting
        PROVE  /\ Sending(t) => Sending(t)'
               /\ Handling(t) => Handling(t)'
               /\ Answering(t) => Answering(t)'
               /\ Abandoned(t) => Abandoned(t)'
    <3>1. t \in Threads
      BY DEF Waiting
    <3>2. Line(t)' = Line(t)
      BY <2>2, <3>1
    <3>. QED  BY <1>2, <2>1, <3>2 DEF Sending, Handling, Answering, Abandoned
  <2>4. \A t \in Waiting' :
            IF stage'[t] = "send" THEN Sending(t)' ELSE Handling(t)' \/ Answering(t)' \/ Abandoned(t)'
    BY <1>2, <1>4, <2>3 DEF InTurn
  <2>. QED  BY <1>2, <1>4, <2>1, <2>4 DEF InTurn
<1>6. CASE e # Server
  <2>1. /\ e \in Threads /\ e \in Waiting
        /\ got'[Server] = got[Server] /\ wire'["to_server"] = wire["to_server"]
    BY <1>1, <1>2, <1>6, EndsAre DEF Waiting
  <2>2. Line(Server)' = Line(Server)
    BY <2>1 DEF Line, In
  <2>3. ~Quiet' /\ \A t \in Waiting' : t = e
    BY <1>4, <2>1 DEF InTurn, Quiet
  <2>4. Handling(e) \/ Answering(e) \/ Abandoned(e)
    BY <1>1, <2>1 DEF InTurn
  <2>5. Handling(e)' \/ Answering(e)' \/ Abandoned(e)'
    BY <1>2, <1>3, <2>2, <2>4 DEF Handling, Answering, Abandoned
  <2>6. /\ \A t, u \in Waiting' : t = u
        /\ \A t \in Waiting' :
            IF stage'[t] = "send" THEN Sending(t)' ELSE Handling(t)' \/ Answering(t)' \/ Abandoned(t)'
    BY <1>1, <1>2, <2>3, <2>5
  <2>. QED  BY <1>2, <2>1, <2>2, <2>3, <2>6 DEF InTurn
<1>. QED  BY <1>5, <1>6

LEMMA TurnFails ==
    ASSUME TypeOK, TypeOK', InTurn, NEW e \in Ends, WriteFails(e) \/ ReadFails(e)
    PROVE  InTurn'
<1>1. /\ stage' = [stage EXCEPT ![e] = IF e = Server THEN "closed" ELSE "idle"]
      /\ PeerGone(e) /\ stage[e] \in {"send", "receive"} /\ calls' = calls
  BY DEF WriteFails, ReadFails, GivesUp
<1>2. /\ stage \in [Ends -> {"idle", "send", "receive", "invoked", "closed", "dead"}]
      /\ wire \in [Directions -> Seq(Bytes)] /\ "to_threads" \in Directions
      /\ Server \in Ends /\ \A t \in Threads : stage[t] # "closed"
  BY EndsAre DEF TypeOK, Directions
<1>3. CASE e = Server
  <2>1. \A t \in Threads : stage[t] = "dead"
    BY <1>1, <1>2, <1>3, EndsAre DEF PeerGone
  <2>2. stage'[Server] = "closed" /\ \A t \in Threads : stage'[t] = "dead"
    BY <1>1, <1>2, <1>3, <2>1, EndsAre
  <2>3. Waiting' = {} /\ ~Quiet'
    BY <2>2 DEF Waiting, Quiet
  <2>. QED  BY <2>2, <2>3 DEF InTurn
<1>4. CASE e # Server
  <2>1. e \in Threads /\ e \in Waiting
    BY <1>1, <1>4, EndsAre DEF Waiting
  <2>2. stage[Server] = "dead"
    <3>1. stage[Server] \in {"closed", "dead"}
      BY <1>1, <1>2, <2>1, EndsAre DEF PeerGone
    <3>. QED  BY <1>1, <2>1, <3>1 DEF InTurn
  <2>3. /\ stage'[Server] = "dead" /\ stage'[e] = "idle"
        /\ \A t \in Threads : t # e => stage'[t] = stage[t]
    BY <1>1, <1>2, <1>4, <2>2, EndsAre
  <2>4. Waiting' = {}
    <3>1. \A t \in Threads : t # e => t \notin Waiting
      BY <2>1 DEF InTurn
    <3>. QED  BY <2>3, <3>1 DEF Waiting
  <2>5. wire'["to_threads"] = <<>>
    <3>1. CASE WriteFails(e)
      <4>1. Sending(e) /\ wire' = wire
        BY <2>1, <3>1 DEF WriteFails, InTurn
      <4>. QED  BY <4>1 DEF Sending
    <3>2. CASE ReadFails(e)
      BY <1>2, <2>1, <3>2, EndsAre DEF ReadFails
    <3>. QED  BY <3>1, <3>2
  <2>. QED  BY <2>3, <2>4, <2>5 DEF InTurn
<1>. QED  BY <1>3, <1>4

LEMMA TurnDies ==
    ASSUME TypeOK, TypeOK', InTurn, NEW e \in Ends, Dies(e)
    PROVE  InTurn'
<1>1. \A f \in Ends : f \in Process(e) => got'[f] = <<>> /\ unsent'[f] = <<>> /\ stage'[f] = "dead"
  BY DEF Dies
<1>2. \A f \in Ends : f \notin Process(e) =>
        got'[f] = got[f] /\ unsent'[f] = unsent[f] /\ stage'[f] = stage[f]
  BY DEF Dies
<1>3. wire' = wire /\ calls' = calls /\ stage[e] # "dead"
  BY DEF Dies
<1>4. Server \in Ends /\ Threads \subseteq Ends
  BY EndsAre
<1>5. CASE e # Server
  <2>1. /\ \A t \in Threads : stage'[t] = "dead"
        /\ stage'[Server] = stage[Server] /\ got'[Server] = got[Server]
    BY <1>1, <1>2, <1>4, <1>5, EndsAre
  <2>2. Waiting' = {} /\ ~Quiet'
    BY <2>1 DEF Waiting, Quiet
  <2>3. Line(Server)' = Line(Server)
    BY <1>3, <2>1 DEF Line, In
  <2>. QED  BY <1>3, <2>1, <2>2, <2>3 DEF InTurn
<1>6. CASE e = Server
  <2>1. /\ stage'[Server] = "dead" /\ stage[Server] # "dead"
        /\ \A t \in Threads : stage'[t] = stage[t] /\ got'[t] = got[t] /\ unsent'[t] = unsent[t]
    BY <1>1, <1>2, <1>3, <1>4, <1>6, EndsAre
  <2>2. Waiting' = Waiting /\ (Quiet' <=> Quiet)
    <3>1. Waiting' = Waiting
      BY <2>1 DEF Waiting
    <3>. QED  BY <2>1, <3>1 DEF Quiet
  <2>3. \A t \in Threads : Line(t)' = Line(t) /\ Line(t) \in Seq(Bytes)
    BY <1>3, <1>4, <2>1, LineType DEF Line, In, LineFacts
  <2>4. ASSUME NEW t \in Waiting
        PROVE  IF stage'[t] = "send" THEN Sending(t)' ELSE Abandoned(t)'
    <3>1. t \in Threads /\ stage'[t] = stage[t] /\ Line(t)' = Line(t) /\ Line(t) \in Seq(Bytes)
      BY <2>1, <2>3 DEF Waiting
    <3>2. CASE stage[t] = "send"
      <4>1. Sending(t)
        BY <3>2 DEF InTurn
      <4>. QED  BY <1>3, <2>1, <3>1, <3>2, <4>1 DEF Sending
    <3>3. CASE stage[t] # "send"
      <4>1. Handling(t) \/ Answering(t)
        BY <2>1, <3>3 DEF InTurn, Abandoned
      <4>2. CASE Handling(t)
        BY <2>1, <3>1, <3>3, <4>2 DEF Handling, Abandoned
      <4>3. CASE Answering(t)
        <5>1. Line(t) \o unsent[Server] \in Frames(<<t, calls[t]>>, AnswerSizes)
          BY <4>3 DEF Answering
        <5>2. unsent[Server] \in Seq(Bytes)
          BY <1>4 DEF TypeOK
        <5>3. IsPrefix(Line(t), Line(t) \o unsent[Server])
          BY <3>1, <5>2, PrefixOfConcat
        <5>. QED  BY <1>3, <2>1, <3>1, <3>3, <5>1, <5>3 DEF Abandoned
      <4>. QED  BY <4>1, <4>2, <4>3
    <3>. QED  BY <3>2, <3>3
  <2>5. /\ \A t, u \in Waiting' : t = u
        /\ Quiet' => wire'["to_threads"] = <<>>
    BY <1>3, <2>2 DEF InTurn
  <2>6. \A t \in Waiting' :
            IF stage'[t] = "send" THEN Sending(t)' ELSE Handling(t)' \/ Answering(t)' \/ Abandoned(t)'
    BY <2>2, <2>4
  <2>. QED  BY <2>1, <2>5, <2>6 DEF InTurn
<1>. QED  BY <1>5, <1>6

LEMMA TurnCall ==
    ASSUME TypeOK, TypeOK', InTurn, ~overlapped', NEW t \in Threads, Call(t)
    PROVE  InTurn'
<1>0. t \in Ends /\ Server \in Ends /\ t # Server
  BY EndsAre
<1>1. CASE PackDies(t, RequestSizes)
  BY <1>0, <1>1, TurnDies DEF PackDies
<1>2. ASSUME NEW m \in Message(<<t, calls[t] + 1>>, RequestSizes), Pack(t, m),
             calls' = [calls EXCEPT ![t] = @ + 1],
             overlapped' = (overlapped \/ Waiting # {}),
             UNCHANGED <<wire, handled, outcome>>
      PROVE  InTurn'
  <2>1. stage[t] = "idle" /\ calls[t] \in 0 .. MaxCalls /\ calls[t] < MaxCalls
    BY DEF TypeOK, Call
  <2>2. calls[t] + 1 \in 1 .. MaxCalls
    BY <2>1, BoundsAssumption
  <2>3. m \in Messages /\ m.request = <<t, calls[t] + 1>> /\ m.size \in RequestSizes
    BY <2>2 DEF Message, Messages, Requests
  <2>4. m.size < Limit
    <3>1. Short(m.size) > 0
      BY <1>2 DEF Pack
    <3>. QED  BY <2>3, <3>1, Numbers
  <2>5. /\ stage'[t] = "send" /\ unsent'[t] = Frame(m) /\ wire' = wire
        /\ stage'[Server] = stage[Server] /\ got'[Server] = got[Server]
        /\ calls'[t] = calls[t] + 1
        /\ \A u \in Threads : u # t => stage'[u] = stage[u]
    BY <1>0, <1>2, EndsAre DEF Pack, TypeOK
  <2>6. Waiting = {} /\ Quiet
    BY <1>2, <2>1 DEF Quiet
  <2>7. /\ wire["to_threads"] = <<>>
        /\ stage[Server] = "dead" \/ (stage[Server] = "receive" /\ Line(Server) = <<>>)
    BY <2>6 DEF InTurn
  <2>8. Waiting' = {t} /\ ~Quiet'
    <3>1. Waiting' = {t}
      BY <2>5, <2>6 DEF Waiting
    <3>. QED  BY <3>1 DEF Quiet
  <2>9. Line(Server)' = Line(Server)
    BY <2>5 DEF Line, In
  <2>10. Frame(m) \in Frames(<<t, calls'[t]>>, RequestSizes)
    BY <2>3, <2>4, <2>5 DEF Frames
  <2>11. Frame(m) \in Seq(Bytes)
    BY <2>3, FrameType
  <2>12. stage'[Server] # "dead" => Line(Server)' \o unsent'[t] = Frame(m)
    BY <2>5, <2>7, <2>9, <2>11, ConcatEmptySeq
  <2>13. Sending(t)'
    BY <2>5, <2>7, <2>10, <2>12 DEF Sending
  <2>14. /\ \A u, v \in Waiting' : u = v
         /\ \A u \in Waiting' : stage'[u] = "send" /\ Sending(u)'
    BY <2>5, <2>8, <2>13
  <2>. QED  BY <2>5, <2>7, <2>8, <2>9, <2>14 DEF InTurn
<1>. QED  BY <1>1, <1>2 DEF Call

\* A thread that receives in turn has the answer to its own request, and all of it.
LEMMA OwnAnswer ==
    ASSUME TypeOK, InTurn, NEW t \in Threads, Received(t)
    PROVE  /\ Unpacks(t) = {<<t, calls[t]>>}
           /\ wire["to_threads"] = <<>>
           /\ stage[Server] = "dead" \/ (stage[Server] = "receive" /\ Line(Server) = <<>>)
<1>0. t \in Ends /\ Server \in Ends /\ In(t) = "to_threads"
  BY EndsAre
<1>1. stage[t] = "receive" /\ Len(got[t]) > 2 /\ Missing(t) = 0
  BY DEF Received
<1>2. got[t] \in Seq(Bytes) /\ got[t] # <<>> /\ Len(got[t]) \in Nat
      /\ wire["to_threads"] \in Seq(Bytes) /\ unsent[Server] \in Seq(Bytes)
      /\ Line(t) = got[t] \o wire["to_threads"] /\ Line(t) \in Seq(Bytes)
  BY <1>0, <1>1, ReceivedBytes, LineType DEF TypeOK, Line, LineFacts
<1>3. Line(t) # <<>>
  BY <1>2, ConcatEqualIffEmpty
<1>4. Answering(t) \/ Abandoned(t)
  BY <1>1, <1>3 DEF InTurn, Waiting, Handling
<1>5. CASE Answering(t)
  <2> DEFINE f == Line(t) \o unsent[Server]
  <2>1. f \in Frames(<<t, calls[t]>>, AnswerSizes) /\ f \in Seq(Bytes)
    BY <1>5, FramesType DEF Answering
  <2>2. IsPrefix(Line(t), f) /\ (Line(t) = f => unsent[Server] = <<>>)
    BY <1>2, <2>1, SamePrefix
  <2>. HIDE DEF f
  <2>3. IsPrefix(got[t], f) /\ (got[t] = f => wire["to_threads"] = <<>>)
    BY <1>2, <2>1, <2>2, PrefixParts
  <2>4. got[t] = f /\ Unpacks(t) = {<<t, calls[t]>>}
    BY <1>0, <1>1, <2>1, <2>3, WholeFrame DEF Unpacks
  <2>5. wire["to_threads"] = <<>> /\ Line(t) = f
    BY <1>2, <2>3, <2>4, ConcatEmptySeq
  <2>6. unsent[Server] = <<>> /\ stage[Server] # "send"
    BY <1>0, <2>2, <2>5 DEF TypeOK
  <2>. QED  BY <1>5, <2>4, <2>5, <2>6 DEF Answering
<1>6. CASE Abandoned(t)
  <2>1. PICK f \in Frames(<<t, calls[t]>>, AnswerSizes) : IsPrefix(Line(t), f)
    BY <1>3, <1>6 DEF Abandoned
  <2>2. f \in Seq(Bytes)
    BY FramesType
  <2>3. IsPrefix(got[t], f) /\ (got[t] = f => wire["to_threads"] = <<>>)
    BY <1>2, <2>1, <2>2, PrefixParts
  <2>4. got[t] = f /\ Unpacks(t) = {<<t, calls[t]>>}
    BY <1>0, <1>1, <2>3, WholeFrame DEF Unpacks
  <2>. QED  BY <1>6, <2>3, <2>4 DEF Abandoned
<1>. QED  BY <1>4, <1>5, <1>6

LEMMA TurnReturn ==
    ASSUME TypeOK, TypeOK', InTurn, NEW t \in Threads, Return(t)
    PROVE  InTurn'
<1>0. t \in Ends /\ Server \in Ends /\ t # Server
  BY EndsAre
<1>1. /\ wire["to_threads"] = <<>>
      /\ stage[Server] = "dead" \/ (stage[Server] = "receive" /\ Line(Server) = <<>>)
  BY OwnAnswer DEF Return
<1>2. /\ stage'[t] = "idle" /\ stage'[Server] = stage[Server] /\ got'[Server] = got[Server]
      /\ wire' = wire /\ calls' = calls
      /\ \A u \in Threads : u # t => stage'[u] = stage[u]
  BY <1>0, EndsAre DEF Return, TypeOK
<1>3. t \in Waiting
  BY DEF Waiting, Return, Received
<1>4. Waiting' = {}
  <2>1. \A u \in Threads : u # t => u \notin Waiting
    BY <1>3 DEF InTurn
  <2>. QED  BY <1>2, <2>1 DEF Waiting
<1>5. Line(Server)' = Line(Server)
  BY <1>2 DEF Line, In
<1>. QED  BY <1>1, <1>2, <1>4, <1>5 DEF InTurn

LEMMA TurnHandle ==
    ASSUME TypeOK, TypeOK', InTurn, Handle
    PROVE  InTurn'
<1>0. Server \in Ends /\ In(Server) = "to_server"
  BY EndsAre
<1>10. PICK q : Invoked(q)
  BY HandleEffect
<1>1. /\ stage[Server] = "receive" /\ Len(got[Server]) > 2 /\ Missing(Server) = 0
      /\ stage' = [stage EXCEPT ![Server] = "invoked"]
      /\ wire' = wire /\ unsent' = unsent /\ calls' = calls
  BY <1>10 DEF Invoked
<1>2. /\ got[Server] \in Seq(Bytes) /\ got[Server] # <<>> /\ Len(got[Server]) \in Nat
      /\ wire["to_server"] \in Seq(Bytes)
      /\ Line(Server) = got[Server] \o wire["to_server"] /\ Line(Server) \in Seq(Bytes)
  BY <1>0, <1>1, ReceivedBytes, LineType DEF Line, LineFacts
<1>3. Line(Server) # <<>>
  BY <1>2, ConcatEqualIffEmpty
<1>4. wire["to_server"] = <<>> /\ IsWhole(Server)
  <2>1. PICK t \in Threads : \E f \in Frames(<<t, calls[t]>>, RequestSizes) : IsPrefix(Line(Server), f)
    BY <1>1, <1>3 DEF InTurn
  <2>2. PICK f \in Frames(<<t, calls[t]>>, RequestSizes) : IsPrefix(Line(Server), f)
    BY <2>1
  <2>3. f \in Seq(Bytes)
    BY FramesType
  <2>4. IsPrefix(got[Server], f) /\ (got[Server] = f => wire["to_server"] = <<>>)
    BY <1>2, <2>2, <2>3, PrefixParts
  <2>5. got[Server] = f /\ IsWhole(Server)
    BY <1>0, <1>1, <2>4, WholeFrame
  <2>. QED  BY <2>4, <2>5
<1>11. got' = got
  <2>1. TakenFor(got[Server], q) = got[Server]
    BY <1>4, <1>10, Taken DEF Invoked
  <2>2. got \in [Ends -> Seq(Bytes)]
    BY DEF TypeOK
  <2>. QED  BY <1>10, <2>1, <2>2 DEF Invoked
<1>5. /\ stage'[Server] = "invoked" /\ \A t \in Threads : stage'[t] = stage[t]
      /\ Waiting' = Waiting /\ (Quiet' <=> Quiet) /\ ~Quiet
  <2>1. stage'[Server] = "invoked" /\ \A t \in Threads : stage'[t] = stage[t]
    BY <1>0, <1>1, EndsAre DEF TypeOK
  <2>2. Waiting' = Waiting
    BY <2>1 DEF Waiting
  <2>. QED  BY <1>1, <1>3, <2>1, <2>2 DEF Quiet, InTurn
<1>6. Line(Server)' = Line(Server) /\ \A t \in Threads : Line(t)' = Line(t)
  BY <1>1, <1>11 DEF Line, In
<1>7. ASSUME NEW t \in Waiting
      PROVE  stage[t] # "send" /\ Handling(t)'
  <2>1. t \in Threads /\ t \in Ends
    BY EndsAre DEF Waiting
  <2>2. stage[t] # "send"
    <3>1. SUFFICES ASSUME stage[t] = "send" PROVE FALSE
      OBVIOUS
    <3>2. Sending(t) /\ unsent[t] # <<>> /\ unsent[t] \in Seq(Bytes)
      BY <2>1, <3>1 DEF InTurn, TypeOK
    <3> DEFINE f == Line(Server) \o unsent[t]
    <3>3. f \in Frames(<<t, calls[t]>>, RequestSizes) /\ f \in Seq(Bytes)
      BY <1>1, <3>2, FramesType DEF Sending
    <3>4. IsPrefix(Line(Server), f) /\ (Line(Server) = f => unsent[t] = <<>>)
      BY <1>2, <3>2, <3>3, SamePrefix
    <3>. HIDE DEF f
    <3>5. IsPrefix(got[Server], f)
      BY <1>2, <3>3, <3>4, PrefixParts
    <3>6. got[Server] = f
      BY <1>0, <1>1, <3>3, <3>5, WholeFrame
    <3>7. Line(Server) = f
      BY <1>2, <1>4, <3>6, ConcatEmptySeq
    <3>. QED  BY <3>2, <3>4, <3>7
  <2>3. Handling(t)
    BY <1>1, <1>3, <2>2 DEF InTurn, Answering, Abandoned
  <2>. QED  BY <1>1, <1>5, <1>6, <2>1, <2>2, <2>3 DEF Handling
<1>8. /\ \A t, u \in Waiting' : t = u
      /\ \A t \in Waiting' : stage'[t] # "send" /\ Handling(t)'
  <2>1. \A t \in Waiting : stage'[t] = stage[t]
    BY <1>5 DEF Waiting
  <2>. QED  BY <1>5, <1>7, <2>1 DEF InTurn
<1>9. \E t \in Threads : \E f \in Frames(<<t, calls'[t]>>, RequestSizes) : IsPrefix(Line(Server)', f)
  BY <1>1, <1>3, <1>6 DEF InTurn
<1>. QED  BY <1>1, <1>4, <1>5, <1>8, <1>9 DEF InTurn

LEMMA TurnAnswer ==
    ASSUME TypeOK, TypeOK', InTurn, Answer
    PROVE  InTurn'
<1>0. Server \in Ends /\ In(Server) = "to_server" /\ stage[Server] = "invoked"
  BY EndsAre DEF Answer
<1>1. CASE PackDies(Server, AnswerSizes)
  BY <1>0, <1>1, TurnDies DEF PackDies
<1>2. ASSUME NEW m \in Message(got[Server][3].of.request, AnswerSizes), Pack(Server, m),
             UNCHANGED <<wire, calls, handled, outcome, overlapped>>
      PROVE  InTurn'
  <2>1. /\ Len(got[Server]) > 2 /\ wire["to_server"] = <<>>
        /\ got[Server] \in Seq(Bytes) /\ got[Server][3].of.request \in Requests \cup {None}
    BY <1>0, ReceivedBytes DEF TypeOK, InTurn
  <2>2. m \in Messages /\ m.request = got[Server][3].of.request /\ m.size \in AnswerSizes
    BY <2>1 DEF Message, Messages
  <2>3. m.size < Limit
    <3>1. Short(m.size) > 0
      BY <1>2 DEF Pack
    <3>. QED  BY <2>2, <3>1, Numbers
  <2>4. /\ stage'[Server] = "send" /\ unsent'[Server] = Frame(m) /\ got'[Server] = <<>>
        /\ wire' = wire /\ calls' = calls
        /\ \A u \in Threads : stage'[u] = stage[u] /\ got'[u] = got[u]
    BY <1>0, <1>2, EndsAre DEF Pack, TypeOK
  <2>5. Frame(m) \in Seq(Bytes) /\ <<>> \in Seq(Bytes)
    BY <2>2, FrameType, EmptySeq
  <2>6. Line(Server)' = <<>>
    <3>1. Line(Server)' = got'[Server] \o wire'["to_server"]
      BY <1>0, EndsAre DEF Line
    <3>. QED  BY <2>1, <2>4, <2>5, <3>1, ConcatEmptySeq
  <2>7. Waiting' = Waiting /\ ~Quiet'
    <3>1. Waiting' = Waiting
      BY <2>4 DEF Waiting
    <3>2. ~Quiet
      BY <1>0 DEF InTurn
    <3>. QED  BY <2>4, <3>1, <3>2 DEF Quiet
  <2>8. ASSUME NEW t \in Waiting
        PROVE  stage'[t] # "send" /\ Answering(t)'
    <3>1. t \in Threads /\ stage[t] # "send"
      BY <1>0 DEF Waiting, InTurn, Sending
    <3>2. Line(t) = <<>> /\ Line(Server) \in Frames(<<t, calls[t]>>, RequestSizes)
      BY <1>0, <3>1 DEF InTurn, Handling, Answering, Abandoned
    <3>3. got[Server] \in Frames(<<t, calls[t]>>, RequestSizes)
      <4>1. Line(Server) = got[Server]
        BY <1>0, <2>1, ConcatEmptySeq DEF Line
      <4>. QED  BY <3>2, <4>1
    <3>4. got[Server][3].of.request = <<t, calls[t]>>
      <4>1. PICK n \in Messages :
              /\ n.request = <<t, calls[t]>> /\ n.size \in Nat /\ n.size >= 1
              /\ \A i \in 1 .. n.size + 2 : got[Server][i].of = n
        BY <3>3, FramesAre, SMTT(30)
      <4>2. 3 \in 1 .. n.size + 2
        BY <4>1
      <4>. QED  BY <4>1, <4>2
    <3>5. Line(t)' = Line(t)
      BY <2>4, <3>1 DEF Line, In
    <3>6. Frame(m) \in Frames(<<t, calls'[t]>>, AnswerSizes)
      BY <2>2, <2>3, <2>4, <3>4 DEF Frames
    <3>7. Line(t)' \o unsent'[Server] = Frame(m)
      BY <2>4, <2>5, <3>2, <3>5, ConcatEmptySeq
    <3>. QED  BY <2>4, <2>6, <3>1, <3>6, <3>7 DEF Answering
  <2>9. /\ \A t, u \in Waiting' : t = u
        /\ \A t \in Waiting' : stage'[t] # "send" /\ Answering(t)'
    BY <2>7, <2>8 DEF InTurn
  <2>. QED  BY <2>4, <2>6, <2>7, <2>9 DEF InTurn
<1>. QED  BY <1>1, <1>2 DEF Answer

LEMMA TurnKept == InTurn /\ UNCHANGED vars => InTurn'
<1>. SUFFICES ASSUME InTurn, UNCHANGED vars PROVE InTurn'
  OBVIOUS
<1>1. stage' = stage /\ unsent' = unsent /\ got' = got /\ wire' = wire /\ calls' = calls
  BY DEF vars
<1>2. Waiting' = Waiting /\ \A e \in Ends : Line(e)' = Line(e)
  BY <1>1 DEF Waiting, Line, In
<1>3. (Quiet' <=> Quiet) /\ Line(Server)' = Line(Server)
  BY <1>1, <1>2, EndsAre DEF Quiet
<1>4. ASSUME NEW t \in Threads
      PROVE  /\ Sending(t) => Sending(t)'
             /\ Handling(t) => Handling(t)'
             /\ Answering(t) => Answering(t)'
             /\ Abandoned(t) => Abandoned(t)'
  <2>1. Line(t)' = Line(t)
    BY <1>2, EndsAre
  <2>. QED  BY <1>1, <1>3, <2>1 DEF Sending, Handling, Answering, Abandoned
<1>5. \A t \in Waiting' :
        IF stage'[t] = "send" THEN Sending(t)' ELSE Handling(t)' \/ Answering(t)' \/ Abandoned(t)'
  <2>1. Waiting \subseteq Threads
    BY DEF Waiting
  <2>. QED  BY <1>1, <1>2, <1>4, <2>1 DEF InTurn
<1>. QED  BY <1>1, <1>2, <1>3, <1>5 DEF InTurn

LEMMA TurnNext ==
    TypeOK /\ TypeOK' /\ (overlapped \/ InTurn) /\ [Next]_vars => (overlapped \/ InTurn)'
<1>. SUFFICES ASSUME TypeOK, TypeOK', overlapped \/ InTurn, [Next]_vars, ~overlapped'
              PROVE  InTurn'
  OBVIOUS
<1>1. overlapped => overlapped'
  <2>1. ASSUME NEW t \in Threads, Call(t) PROVE overlapped => overlapped'
    BY <2>1 DEF Call, PackDies, Dies
  <2>2. ASSUME NEW e \in Ends, Step(e) PROVE overlapped => overlapped'
    BY <2>2 DEF Step, WriteSome, Writes, WriteFails, ReadSome, Reads, ReadFails, ReceiveFails,
                GivesUp, Return, Handle, Answer, PackDies, Dies
  <2>3. ASSUME NEW e \in Ends, Dies(e) PROVE overlapped => overlapped'
    BY <2>3 DEF Dies
  <2>4. CASE UNCHANGED vars
    BY <2>4 DEF vars
  <2>. QED  BY <2>1, <2>2, <2>3, <2>4 DEF Next
<1>2. InTurn
  BY <1>1
<1>3. ASSUME NEW t \in Threads, Call(t) PROVE InTurn'
  BY <1>2, <1>3, TurnCall
<1>4. ASSUME NEW e \in Ends, Step(e) PROVE InTurn'
  <2>1. CASE WriteSome(e)
    BY <1>2, <2>1, EndsAre, TurnServerWrites, TurnThreadWrites
  <2>2. CASE WriteFails(e) \/ ReadFails(e)
    BY <1>2, <2>2, TurnFails
  <2>3. CASE ReceiveFails(e)
    BY <1>2, <2>3, NoGarbage
  <2>4. CASE ReadSome(e)
    BY <1>2, <2>4, TurnReads
  <2>5. CASE e # Server /\ Return(e)
    BY <1>2, <2>5, EndsAre, TurnReturn
  <2>6. CASE Handle
    BY <1>2, <2>6, TurnHandle
  <2>7. CASE Answer
    BY <1>2, <2>7, TurnAnswer
  <2>. QED  BY <1>4, <2>1, <2>2, <2>3, <2>4, <2>5, <2>6, <2>7 DEF Step
<1>5. ASSUME NEW e \in Ends, Dies(e) PROVE InTurn'
  BY <1>2, <1>5, TurnDies
<1>6. CASE UNCHANGED vars
  BY <1>2, <1>6, TurnKept
<1>. QED  BY <1>3, <1>4, <1>5, <1>6 DEF Next

-----------------------------------------------------------------------------
(* The inductive invariant and what follows from it. *)

LEMMA LinkInit == Init => LinkInv
<1>. SUFFICES ASSUME Init PROVE LinkInv
  OBVIOUS
<1>1. TypeOK
  BY TypeInit
<1>2. /\ stage[Server] = "receive" /\ \A t \in Threads : stage[t] = "idle" /\ calls[t] = 0
      /\ \A e \in Ends : unsent[e] = <<>> /\ got[e] = <<>>
      /\ \A d \in Directions : wire[d] = <<>>
      /\ handled = {} /\ Server \in Ends
  BY EndsAre DEF Init
<1>3. wire["to_server"] = <<>> /\ wire["to_threads"] = <<>> /\ <<>> \in Seq(Bytes) /\ DOMAIN <<>> = {}
  BY <1>2, EmptySeq DEF Directions
<1>4. Line(Server) = <<>> /\ Arriving = <<>>
  <2>1. Line(Server) = <<>> \o <<>>
    BY <1>2, <1>3, EndsAre DEF Line
  <2>2. Line(Server) = <<>>
    BY <1>3, <2>1, ConcatEmptySeq
  <2>. QED  BY <1>2, <2>2 DEF Arriving
<1>5. RequestsOnce
  <2>1. Ordered(Arriving) /\ \A i \in DOMAIN Arriving : ByteOnce(Arriving[i])
    BY <1>3, <1>4 DEF Ordered
  <2>. QED  BY <1>2, <2>1, EndsAre DEF RequestsOnce
<1>6. AnswersHandled
  <2>1. \A t \in Threads : got[t] = <<>>
    BY <1>2, EndsAre
  <2>2. \A t \in Threads : \A i \in DOMAIN got[t] : got[t][i].of.request \in handled
    BY <1>3, <2>1
  <2>3. \A i \in DOMAIN wire["to_threads"] : wire["to_threads"][i].of.request \in handled
    BY <1>3
  <2>. QED  BY <1>2, <2>2, <2>3 DEF AnswersHandled
<1>7. InTurn
  <2>1. Waiting = {}
    BY <1>2 DEF Waiting
  <2>. QED  BY <1>2, <1>3, <1>4, <2>1 DEF InTurn
<1>. QED  BY <1>1, <1>5, <1>6, <1>7 DEF LinkInv

LEMMA LinkNext == LinkInv /\ [Next]_vars => LinkInv'
<1>. SUFFICES ASSUME LinkInv, [Next]_vars PROVE LinkInv'
  OBVIOUS
<1>1. TypeOK /\ RequestsOnce /\ AnswersHandled /\ (overlapped \/ InTurn)
  BY DEF LinkInv
<1>2. TypeOK'
  BY <1>1, TypeNext
<1>3. RequestsOnce'
  BY <1>1, <1>2, OnceNext
<1>4. AnswersHandled'
  BY <1>1, <1>2, AnswersNext
<1>5. (overlapped \/ InTurn)'
  BY <1>1, <1>2, TurnNext
<1>. QED  BY <1>2, <1>3, <1>4, <1>5 DEF LinkInv

\* Whatever calls overlap, the bytes of network_send_receive and of
\* client_procedure stay in the order they were written, no request is handled
\* a second time and what is answered was handled; while calls are made in turn,
\* the two ends agree on the frame that is on its way.
THEOREM LinkCorrect == Spec => []LinkInv
<1>1. Init => LinkInv
  BY LinkInit
<1>2. LinkInv /\ [Next]_vars => LinkInv'
  BY LinkNext
<1>. QED  BY <1>1, <1>2, PTL DEF Spec, Safety

\* However write_all and read_all are cut into writes and reads, what an end has
\* received while calls were made in turn is the beginning of one message.
THEOREM FramesStayWhole == Spec => []FramesWholeInTurn
<1>1. LinkInv => FramesWholeInTurn
  <2>. SUFFICES ASSUME TypeOK, InTurn, NEW e \in Ends, got[e] # <<>>
                PROVE  IsPrefix(got[e], Frame(got[e][1].of))
    BY DEF LinkInv, FramesWholeInTurn, FramesWhole
  <2>1. PICK r, sizes : \E f \in Frames(r, sizes) : IsPrefix(Line(e), f) /\ IsPrefix(got[e], f)
    BY GotBegins
  <2>2. PICK f \in Frames(r, sizes) : IsPrefix(got[e], f)
    BY <2>1
  <2>3. PICK m \in Messages :
          /\ f = Frame(m) /\ f \in Seq(Bytes) /\ Len(f) = m.size + 2 /\ m.size \in Nat
          /\ \A i \in 1 .. m.size + 2 : f[i].of = m
    BY <2>2, FramesAre
  <2>4. got[e] \in Seq(Bytes) /\ Len(got[e]) \in Nat /\ Len(got[e]) # 0
    BY LenProperties, EmptySeq DEF TypeOK
  <2>5. got[e][1] = f[1] /\ f[1].of = m
    <3>1. \A i \in 1 .. Len(got[e]) : got[e][i] = f[i]
      BY <2>2, <2>3, <2>4, PrefixElements
    <3>. QED  BY <2>3, <2>4, <3>1
  <2>. QED  BY <2>2, <2>3, <2>5
<1>. QED  BY <1>1, LinkCorrect, PTL

\* While calls are made in turn, network_send_receive returns NULL only when the
\* server is dead: a call that failed leaves no answer a later one could take
\* for its own.
THEOREM FailuresFinal == Spec => FailuresAreFinal
<1>1. ASSUME LinkInv, [Next]_vars,
             NEW t \in Threads, t \in Waiting, stage'[t] = "idle", outcome'[t] = None, ~overlapped
      PROVE  stage[Server] = "dead"
  <2>1. TypeOK /\ InTurn /\ stage[t] \in {"send", "receive"}
    BY <1>1 DEF LinkInv, Waiting
  <2>2. t \in Ends /\ Server \in Ends /\ t # Server
    BY EndsAre
  <2>3. \A u \in Threads : ~Call(u)
    <3>. SUFFICES ASSUME NEW u \in Threads, Call(u) PROVE FALSE
      OBVIOUS
    <3>1. u \in Ends /\ t # u
      BY <2>1, EndsAre DEF Call
    <3>2. CASE Dies(u)
      BY <1>1, <2>1, <2>2, <3>1, <3>2 DEF Dies, TypeOK
    <3>3. ASSUME NEW m, Pack(u, m) PROVE FALSE
      <4>1. stage \in [Ends -> {"idle", "send", "receive", "invoked", "closed", "dead"}]
        BY <2>1 DEF TypeOK
      <4>2. stage'[t] = stage[t]
        BY <2>2, <3>1, <3>3, <4>1 DEF Pack
      <4>. QED  BY <1>1, <2>1, <4>2
    <3>. QED  BY <3>2, <3>3 DEF Call, PackDies
  <2>4. ASSUME NEW e \in Ends, Dies(e) PROVE FALSE
    <3>1. stage'[t] \in {"dead", stage[t]}
      BY <2>2, <2>4 DEF Dies
    <3>. QED  BY <1>1, <2>1, <3>1
  <2>5. ASSUME NEW e \in Ends, Step(e)
        PROVE  stage[Server] = "dead"
    <3>1. ~WriteSome(e) /\ ~ReadSome(e)
      BY <1>1, <2>1, <2>2 DEF WriteSome, Writes, ReadSome, Reads, TypeOK
    <3>2. ~ReceiveFails(e)
      BY <2>1, NoGarbage
    <3>3. ~(e # Server /\ Return(e))
      <4>. SUFFICES ASSUME e \in Threads, Return(e) PROVE FALSE
        BY EndsAre
      <4>1. e = t
        BY <1>1, <2>1, <2>2 DEF Return, TypeOK
      <4>2. Unpacks(t) = {<<t, calls[t]>>}
        BY <2>1, <4>1, OwnAnswer DEF Return
      <4>3. outcome'[t] = <<t, calls[t]>>
        BY <2>1, <4>1, <4>2 DEF Return, TypeOK
      <4>4. <<t, calls[t]>> \in Threads \X Nat
        BY <2>1, BoundsAssumption DEF TypeOK
      <4>. QED  BY <1>1, <4>3, <4>4, ThreadsAssumption
    <3>4. ~Handle /\ (e = Server => ~Answer)
      <4>1. ~Handle
        BY <1>1, <2>1, <2>2 DEF Handle, TypeOK
      <4>2. SUFFICES ASSUME Answer PROVE FALSE
        BY <4>1
      <4>3. ASSUME NEW m, Pack(Server, m) PROVE FALSE
        BY <1>1, <2>1, <2>2, <4>3 DEF Pack, TypeOK
      <4>. QED  BY <2>2, <2>4, <4>2, <4>3 DEF Answer, PackDies
    <3>5. CASE WriteFails(e) \/ ReadFails(e)
      <4>1. GivesUp(e) /\ PeerGone(e)
        BY <3>5 DEF WriteFails, ReadFails
      <4>2. e = t
        BY <1>1, <2>1, <2>2, <4>1 DEF GivesUp, TypeOK
      <4>3. stage[Server] \in {"closed", "dead"}
        BY <2>2, <4>1, <4>2, EndsAre DEF PeerGone
      <4>. QED  BY <2>1, <4>3 DEF InTurn
    <3>. QED  BY <2>5, <3>1, <3>2, <3>3, <3>4, <3>5 DEF Step
  <2>6. ~UNCHANGED vars
    BY <1>1, <2>1 DEF vars
  <2>. QED  BY <1>1, <2>3, <2>4, <2>5, <2>6 DEF Next
<1>2. LinkInv /\ [Next]_vars =>
        [\A t \in Threads :
            t \in Waiting /\ stage'[t] = "idle" /\ outcome'[t] = None =>
                overlapped \/ stage[Server] = "dead"]_vars
  BY <1>1
<1>. QED  BY <1>2, LinkCorrect, PTL DEF Spec, Safety, FailuresAreFinal

-----------------------------------------------------------------------------
(* Every step is one of Exchange, or changes nothing that it knows. *)

Exchanged == UNCHANGED <<calls, Waiting, handled, outcome, overlapped>>

LEMMA SentIsSent == TypeOK => Sent \subseteq E!Sent
<1>. SUFFICES ASSUME TypeOK, NEW r \in Sent PROVE r \in E!Sent
  OBVIOUS
<1>1. r \in Threads \X (1 .. MaxCalls) /\ r[2] <= calls[r[1]]
  BY DEF Sent, Requests
<1>2. PICK t \in Threads, n \in 1 .. MaxCalls : r = <<t, n>>
  BY <1>1
<1>3. n \in 1 .. calls[t]
  BY <1>1, <1>2 DEF TypeOK
<1>4. r \in {<<t, k>> : k \in 1 .. calls[t]}
  BY <1>2, <1>3
<1>. QED  BY <1>2, <1>4 DEF E!Sent

LEMMA StepExchanges ==
    ASSUME LinkInv, [Next]_vars
    PROVE  E!Next \/ Exchanged
<1>0. /\ TypeOK /\ RequestsOnce /\ AnswersHandled /\ (overlapped \/ InTurn) /\ TypeOK'
      /\ stage \in [Ends -> {"idle", "send", "receive", "invoked", "closed", "dead"}]
      /\ outcome \in [Threads -> Requests \cup {None}]
      /\ Server \in Ends /\ Threads \subseteq Ends /\ \A t \in Threads : t # Server
  BY TypeNext, EndsAre DEF LinkInv, TypeOK
<1>1. ASSUME NEW e \in Ends, Dies(e) PROVE E!Next \/ Exchanged
  <2>1. UNCHANGED <<calls, handled, outcome, overlapped>>
    BY <1>1 DEF Dies
  <2>2. CASE e = Server
    <3>1. \A t \in Threads : stage'[t] = stage[t]
      BY <1>0, <1>1, <2>2, EndsAre DEF Dies
    <3>2. Waiting' = Waiting
      BY <3>1 DEF Waiting
    <3>. QED  BY <2>1, <3>2 DEF Exchanged
  <2>3. CASE e # Server
    <3>1. \A t \in Threads : stage'[t] = "dead"
      BY <1>0, <1>1, <2>3, EndsAre DEF Dies
    <3>2. Waiting' = {}
      BY <3>1 DEF Waiting
    <3>. QED  BY <2>1, <3>2 DEF E!Next, E!ProcessEnds
  <2>. QED  BY <2>2, <2>3
<1>2. ASSUME NEW t \in Threads, Call(t) PROVE E!Next \/ Exchanged
  <2>1. CASE PackDies(t, RequestSizes)
    BY <1>0, <1>1, <2>1 DEF PackDies
  <2>2. ASSUME NEW m, Pack(t, m), calls' = [calls EXCEPT ![t] = @ + 1],
               overlapped' = (overlapped \/ Waiting # {}), UNCHANGED <<wire, handled, outcome>>
        PROVE  E!Call(t)
    <3>1. t \notin Waiting
      BY <1>2 DEF Call, Waiting
    <3>2. stage'[t] = "send" /\ \A u \in Threads : u # t => stage'[u] = stage[u]
      BY <1>0, <2>2 DEF Pack
    <3>3. Waiting' = Waiting \cup {t}
      BY <3>2 DEF Waiting
    <3>. QED  BY <2>2, <3>1, <3>3 DEF E!Call
  <2>. QED  BY <1>2, <2>1, <2>2 DEF Call, E!Next
\* A call that gives up returns None.
<1>3. ASSUME NEW e \in Ends, WriteFails(e) \/ ReadFails(e) \/ ReceiveFails(e)
      PROVE  E!Next \/ Exchanged
  <2>1. GivesUp(e) /\ stage[e] \in {"send", "receive"}
    BY <1>3, GivingUp
  <2>2. UNCHANGED <<calls, handled, overlapped>>
        /\ stage' = [stage EXCEPT ![e] = IF e = Server THEN "closed" ELSE "idle"]
        /\ outcome' = [t \in Threads |-> IF t = e THEN None ELSE outcome[t]]
    BY <2>1 DEF GivesUp
  <2>3. CASE e = Server
    <3>1. \A t \in Threads : stage'[t] = stage[t] /\ t # e
      BY <1>0, <2>2, <2>3
    <3>2. Waiting' = Waiting
      BY <3>1 DEF Waiting
    <3>3. outcome' = outcome
      BY <1>0, <2>2, <3>1
    <3>. QED  BY <2>2, <3>2, <3>3 DEF Exchanged
  <2>4. CASE e # Server
    <3>1. e \in Threads /\ e \in Waiting
      BY <2>1, <2>4, EndsAre DEF Waiting
    <3>2. stage'[e] = "idle" /\ \A t \in Threads : t # e => stage'[t] = stage[t]
      BY <1>0, <2>2, <2>4
    <3>3. Waiting' = Waiting \ {e}
      BY <3>2 DEF Waiting
    <3>4. outcome' = [outcome EXCEPT ![e] = None]
      BY <1>0, <2>2
    <3>5. E!Return(e)
      BY <2>2, <3>1, <3>3, <3>4 DEF E!Return
    <3>. QED  BY <3>1, <3>5 DEF E!Next
  <2>. QED  BY <2>3, <2>4
<1>4. ASSUME NEW e \in Ends, WriteSome(e) PROVE Exchanged
  <2>1. /\ UNCHANGED <<calls, handled, outcome, overlapped>> /\ stage[e] = "send"
        /\ \E s : stage' = [stage EXCEPT ![e] = IF s = <<>> THEN "receive" ELSE @]
    BY <1>4 DEF WriteSome, Writes
  <2>2. /\ stage'[e] \in {"send", "receive"}
        /\ \A f \in Ends : f # e => stage'[f] = stage[f]
    BY <1>0, <2>1
  <2>3. Waiting' = Waiting
    BY <1>0, <2>1, <2>2 DEF Waiting
  <2>. QED  BY <2>1, <2>3 DEF Exchanged
<1>5. ASSUME NEW e \in Ends, ReadSome(e) PROVE Exchanged
  <2>1. UNCHANGED <<stage, calls, handled, outcome, overlapped>>
    BY <1>5 DEF ReadSome, Reads
  <2>. QED  BY <2>1 DEF Exchanged, Waiting
\* What is returned was handled; in turn it is what this thread asked.
<1>6. ASSUME NEW t \in Threads, Return(t) PROVE E!Return(t)
  <2>0. PICK r \in Unpacks(t) : outcome' = [outcome EXCEPT ![t] = r]
    BY <1>6 DEF Return
  <2>1. /\ UNCHANGED <<calls, handled, overlapped>> /\ t \in Waiting
        /\ stage' = [stage EXCEPT ![t] = "idle"]
        /\ Received(t)
    BY <1>6 DEF Return, Received, Waiting
  <2>2. stage'[t] = "idle" /\ \A u \in Threads : u # t => stage'[u] = stage[u]
    BY <1>0, <2>1
  <2>3. Waiting' = Waiting \ {t}
    BY <2>2 DEF Waiting
  <2>4. r \in handled \cup {None}
    <3>1. t \in Ends /\ Len(got[t]) > 2
      BY <1>0, <2>1 DEF Received
    <3>2. r = None \/ \E i \in DOMAIN got[t] : got[t][i].of.request = r
      BY <1>0, <2>0, <3>1, Unpacked
    <3>. QED  BY <1>0, <3>2 DEF AnswersHandled
  <2>5. ~overlapped => r = <<t, calls[t]>>
    BY <1>0, <2>0, <2>1, OwnAnswer
  <2>6. r \in (IF overlapped THEN handled ELSE handled \cap {E!Request(t)}) \cup {None}
    BY <2>4, <2>5 DEF E!Request
  <2>. QED  BY <2>0, <2>1, <2>3, <2>6 DEF E!Return
\* What nobody sent changes nothing that Exchange knows.
<1>7. ASSUME Handle PROVE E!Handle \/ Exchanged
  <2>0. PICK r : Invoked(r)
    BY <1>0, <1>7, HandleEffect
  <2>1. /\ handled' = handled \cup ({r} \ {None})
        /\ stage' = [stage EXCEPT ![Server] = "invoked"]
        /\ UNCHANGED <<calls, outcome, overlapped>>
    BY <2>0 DEF Invoked
  <2>2. r # None => r \in E!Sent \ handled
    BY <1>0, <2>0, OnceHandles, SentIsSent
  <2>3. \A t \in Threads : stage'[t] = stage[t]
    BY <1>0, <2>1
  <2>4. Waiting' = Waiting
    BY <2>3 DEF Waiting
  <2>5. CASE r = None
    <3>1. handled' = handled
      BY <2>1, <2>5
    <3>. QED  BY <2>1, <2>4, <3>1 DEF Exchanged
  <2>6. CASE r # None
    <3>1. handled' = handled \cup {r} /\ r \in E!Sent \ handled
      BY <2>1, <2>2, <2>6
    <3>. QED  BY <2>1, <2>4, <3>1 DEF E!Handle
  <2>. QED  BY <2>5, <2>6
<1>8. ASSUME Answer PROVE E!Next \/ Exchanged
  <2>1. CASE PackDies(Server, AnswerSizes)
    BY <1>0, <1>1, <2>1 DEF PackDies
  <2>2. ASSUME NEW m, Pack(Server, m), UNCHANGED <<wire, calls, handled, outcome, overlapped>>
        PROVE  Exchanged
    <3>1. \A t \in Threads : stage'[t] = stage[t]
      BY <1>0, <2>2 DEF Pack
    <3>. QED  BY <2>2, <3>1 DEF Exchanged, Waiting
  <2>. QED  BY <1>8, <2>1, <2>2 DEF Answer
<1>9. CASE UNCHANGED vars
  BY <1>9 DEF vars, Exchanged, Waiting
<1>10. ASSUME NEW e \in Ends, Step(e) PROVE E!Next \/ Exchanged
  <2>1. e # Server => e \in Threads
    BY EndsAre
  <2>2. CASE e # Server /\ Return(e)
    BY <1>6, <2>1, <2>2 DEF E!Next
  <2>3. CASE Handle
    BY <1>7, <2>3 DEF E!Next
  <2>. QED  BY <1>3, <1>4, <1>5, <1>8, <1>10, <2>2, <2>3 DEF Step
<1>. QED  BY <1>1, <1>2, <1>9, <1>10 DEF Next

\* network_send_receive exchanges a request for an answer: the server invokes a
\* request at most once, and what a call returns is the answer to its own request
\* as long as calls are made in turn, and to some request whatever calls overlap.
THEOREM LinkIsExchange == Spec => ImplementsExchange
<1>1. Init => E!Init
  <2>. SUFFICES ASSUME Init PROVE E!Init
    OBVIOUS
  <2>1. \A t \in Threads : stage[t] = "idle"
    BY EndsAre DEF Init
  <2>2. Waiting = {}
    BY <2>1 DEF Waiting
  <2>. QED  BY <2>2 DEF Init, E!Init
<1>2. LinkInv /\ [Next]_vars => [E!Next]_<<calls, Waiting, handled, outcome, overlapped>>
  BY StepExchanges DEF Exchanged
<1>. QED  BY <1>1, <1>2, LinkCorrect, PTL DEF Spec, Safety, ImplementsExchange, E!Spec, E!vars
=============================================================================
