-------------------------- MODULE MsgStreamProofs --------------------------
(***************************************************************************)
(* What MsgStream promises holds for messages of any length, any number of *)
(* them, and any way of cutting the streams.                               *)
(***************************************************************************)
EXTENDS MsgStream, SequenceTheorems, TLAPS

(* The words of a stream are in the order they were sent, without a gap,   *)
(* and the last message is there to its end.                               *)
Consecutive(s) ==
  \A i, j \in DOMAIN s :
    i < j => \/ s[i][1] = s[j][1] /\ s[j][2] - s[i][2] = j - i
             \/ s[i][1] < s[j][1] /\ Size - s[i][2] + s[j][2] <= j - i
Complete(s) == \A i \in DOMAIN s : Size - s[i][2] <= Len(s) - i
Good(s, sent) ==
  /\ s \in Seq(Words)
  /\ \A i \in DOMAIN s : s[i][1] <= sent
  /\ Consecutive(s) /\ Complete(s)

(* TypeOK without what Streams says.                                       *)
Types ==
  /\ sentUp \in 0..MaxMsgs /\ sentDown \in 0..MaxMsgs /\ greeting \in 0..MaxMsgs
  /\ readUp \in Nat /\ readDown \in Nat
  /\ readUp + Len(up) = Size * sentUp /\ readDown + Len(down) = Size * sentDown
  /\ server \in {"greet", "answer", "loop", "ended"}
  /\ client \in {"handshake", "on", "gone"}
  /\ serverBuf \in Buffers /\ clientBuf \in Buffers
  /\ serverActed \in Seq(1..MaxMsgs) /\ clientActed \in Seq(0..MaxMsgs)

Streams == Good(up, sentUp) /\ Good(down, sentDown)

(* What the greeting and its answer leave behind.                          *)
GreetingInv ==
  /\ server = "greet" => greeting = 0
  /\ server \in {"greet", "answer"} => readUp = 0
  /\ client = "handshake" => readDown = 0 /\ sentUp = 0
  /\ readDown = 0 /\ down # <<>> => down[1] = <<1, 1>>
  /\ sentUp >= 1 \/ client = "on" => greeting = 1 /\ readDown >= KeyEnd

AckInv ==
  /\ server = "loop" =>
       sentUp >= 1 /\ readUp >= Size /\ \A i \in DOMAIN up : up[i][1] > Ack
  /\ \A a \in DOMAIN serverActed : serverActed[a] > Ack

(* What was acted on is behind whatever is still in the stream.            *)
ServerOrder ==
  /\ \A a, b \in DOMAIN serverActed : a < b => serverActed[a] < serverActed[b]
  /\ \A a \in DOMAIN serverActed :
       /\ serverActed[a] <= sentUp
       /\ \A i \in DOMAIN up :
            \/ serverActed[a] < up[i][1]
            \/ serverActed[a] = up[i][1] /\ TypeWord < up[i][2]

ClientOrder ==
  /\ \A a, b \in DOMAIN clientActed : a < b => clientActed[a] <= clientActed[b]
  /\ \A a \in DOMAIN clientActed : clientActed[a] <= clientBuf[TypeWord][1]
  /\ clientBuf[TypeWord][1] <= sentDown
  /\ \A i \in DOMAIN down : clientBuf[TypeWord][1] <= down[i][1]

IInv ==
  /\ Types /\ Streams /\ GreetingInv /\ AckInv
  /\ ServerOrder /\ ClientOrder /\ ServerNeverMixes
-----------------------------------------------------------------------------
(* Streams                                                                 *)

(* Sending a message keeps a stream good.                                  *)
LEMMA SendKeepsGood ==
  ASSUME NEW sent \in 0..MaxMsgs, sent < MaxMsgs, NEW s, Good(s, sent)
  PROVE  LET t == s \o Message(sent + 1)
         IN  /\ Good(t, sent + 1)
             /\ Len(t) = Len(s) + Size
             /\ \A i \in DOMAIN t :
                  \/ i \in DOMAIN s /\ t[i] = s[i]
                  \/ i > Len(s) /\ t[i] = <<sent + 1, i - Len(s)>>
<1> DEFINE m == Message(sent + 1)
           t == s \o m
<1>1. Size \in Nat /\ MaxMsgs \in Nat
  BY MsgStreamAssumption
<1>2. s \in Seq(Words) /\ Len(s) \in Nat /\ DOMAIN s = 1..Len(s) /\ sent \in Nat
  BY DEF Good
<1>3. m \in Seq(Words) /\ Len(m) = Size /\ \A q \in 1..Size : m[q] = <<sent + 1, q>>
  <2>1. \A i \in 1..Size : <<sent + 1, i>> \in Words
    BY <1>1, <1>2 DEF Words
  <2> QED
    BY <1>1, <2>1 DEF Message
<1> HIDE DEF m
<1>4. /\ t \in Seq(Words) /\ Len(t) = Len(s) + Size /\ DOMAIN t = 1..(Len(s) + Size)
      /\ \A i \in DOMAIN t :
           \/ i \in DOMAIN s /\ t[i] = s[i]
           \/ i > Len(s) /\ t[i] = <<sent + 1, i - Len(s)>>
  <2>1. /\ t \in Seq(Words) /\ Len(t) = Len(s) + Len(m)
        /\ \A i \in 1..(Len(s) + Len(m)) : t[i] = IF i <= Len(s) THEN s[i] ELSE m[i - Len(s)]
    BY <1>2, <1>3, ConcatProperties
  <2> HIDE DEF t
  <2>2. DOMAIN t = 1..(Len(s) + Size)
    BY <2>1, <1>3
  <2>3. ASSUME NEW i \in 1..(Len(s) + Size)
        PROVE  \/ i \in DOMAIN s /\ t[i] = s[i]
               \/ i > Len(s) /\ t[i] = <<sent + 1, i - Len(s)>>
    <3>1. CASE i <= Len(s)
      BY <3>1, <2>1, <1>1, <1>2, <1>3
    <3>2. CASE i > Len(s)
      <4>1. i - Len(s) \in 1..Size
        BY <3>2, <1>1, <1>2
      <4>2. t[i] = m[i - Len(s)]
        BY <3>2, <2>1, <1>1, <1>2, <1>3
      <4> QED
        BY <3>2, <4>1, <4>2, <1>3
    <3> QED
      BY <3>1, <3>2, <1>2
  <2> QED
    BY <2>1, <2>2, <2>3, <1>3
<1> HIDE DEF t
<1>5. \A i \in DOMAIN s : s[i] \in Words /\ s[i][1] \in Nat /\ s[i][2] \in Nat
  BY <1>2, <1>1 DEF Words
<1>6. \A i \in DOMAIN t : t[i][1] <= sent + 1
  BY <1>1, <1>2, <1>4, <1>5 DEF Good
<1>7. Complete(t)
  BY <1>1, <1>2, <1>4, <1>5 DEF Good, Complete
<1>8. Consecutive(t)
  <2> SUFFICES ASSUME NEW i \in DOMAIN t, NEW j \in DOMAIN t, i < j
               PROVE  \/ t[i][1] = t[j][1] /\ t[j][2] - t[i][2] = j - i
                      \/ t[i][1] < t[j][1] /\ Size - t[i][2] + t[j][2] <= j - i
    BY DEF Consecutive
  <2>1. i \in Nat /\ j \in Nat
    BY <1>1, <1>2, <1>4
  <2>2. CASE j \in DOMAIN s /\ t[j] = s[j]
    <3>1. i \in DOMAIN s /\ t[i] = s[i]
      BY <2>1, <2>2, <1>2, <1>4
    <3> QED
      BY <3>1, <2>2 DEF Good, Consecutive
  <2>3. CASE j > Len(s) /\ t[j] = <<sent + 1, j - Len(s)>>
    <3>1. t[j][1] = sent + 1 /\ t[j][2] = j - Len(s)
      BY <2>3
    <3>2. CASE i \in DOMAIN s /\ t[i] = s[i]
      <4>1. Size - s[i][2] <= Len(s) - i /\ s[i][1] <= sent
        BY <3>2 DEF Good, Complete
      <4>2. s[i][1] \in Nat /\ s[i][2] \in Nat
        BY <3>2, <1>5
      <4> QED
        BY <4>1, <4>2, <3>1, <3>2, <2>1, <1>1, <1>2
    <3>3. CASE i > Len(s) /\ t[i] = <<sent + 1, i - Len(s)>>
      <4>1. t[i][1] = sent + 1 /\ t[i][2] = i - Len(s)
        BY <3>3
      <4> QED
        BY <4>1, <3>1, <2>1, <1>2
    <3> QED
      BY <3>2, <3>3, <1>4
  <2> QED
    BY <2>2, <2>3, <1>4
<1> QED
  BY <1>4, <1>6, <1>7, <1>8 DEF Good, t, m

(* So does reading n words of it.                                          *)
LEMMA ReadKeepsGood ==
  ASSUME NEW sent \in Nat, NEW s, Good(s, sent), NEW n \in Arrived(s)
  PROVE  LET t == SubSeq(s, n + 1, Len(s))
         IN  /\ Good(t, sent)
             /\ n \in 1..Size /\ n <= Len(s) /\ Len(t) = Len(s) - n
             /\ \A i \in DOMAIN t : i + n \in DOMAIN s /\ t[i] = s[i + n]
<1> DEFINE t == SubSeq(s, n + 1, Len(s))
<1>1. Size \in Nat
  BY MsgStreamAssumption
<1>2. s \in Seq(Words) /\ Len(s) \in Nat /\ DOMAIN s = 1..Len(s)
  BY DEF Good
<1>3. n \in 1..Size /\ n <= Len(s)
  BY <1>1, <1>2 DEF Arrived
<1>4. /\ t \in Seq(Words) /\ Len(t) = Len(s) - n /\ DOMAIN t = 1..Len(s) - n
      /\ \A i \in DOMAIN t : i + n \in DOMAIN s /\ t[i] = s[i + n]
  <2>1. \A i \in (n + 1)..Len(s) : s[i] \in Words
    BY <1>1, <1>2, <1>3
  <2>2. /\ t \in Seq(Words)
        /\ Len(t) = IF n + 1 <= Len(s) THEN Len(s) - (n + 1) + 1 ELSE 0
        /\ \A i \in 1..(Len(s) - (n + 1) + 1) : t[i] = s[(n + 1) + i - 1]
    <3>1. n + 1 \in Int /\ Len(s) \in Int
      BY <1>1, <1>2, <1>3
    <3> QED
      BY <3>1, <2>1, SubSeqProperties
  <2> HIDE DEF t
  <2>3. Len(t) = Len(s) - n
    <3>1. n \in Nat /\ Len(s) \in Nat
      BY <1>1, <1>2, <1>3
    <3>2. CASE n + 1 <= Len(s)
      <4>1. Len(t) = Len(s) - (n + 1) + 1
        BY <3>2, <2>2
      <4> QED
        BY <4>1, <3>1
    <3>3. CASE ~ (n + 1 <= Len(s))
      <4>1. Len(t) = 0
        BY <3>3, <2>2
      <4> QED
        BY <4>1, <3>1, <3>3, <1>3
    <3> QED
      BY <3>2, <3>3
  <2> QED
    BY <2>2, <2>3, <1>1, <1>2, <1>3
<1> HIDE DEF t
<1>5. \A i \in DOMAIN t : t[i][1] <= sent
  BY <1>4 DEF Good
<1>6. \A i \in DOMAIN s : s[i] \in Words /\ s[i][1] \in Nat /\ s[i][2] \in Nat
  BY <1>2, MsgStreamAssumption DEF Words
<1>7. Complete(t)
  <2> SUFFICES ASSUME NEW i \in DOMAIN t PROVE Size - t[i][2] <= Len(t) - i
    BY DEF Complete
  <2>1. Size - s[i + n][2] <= Len(s) - (i + n)
    BY <1>4 DEF Good, Complete
  <2> QED
    BY <2>1, <1>1, <1>2, <1>3, <1>4, <1>6
<1>8. Consecutive(t)
  <2> SUFFICES ASSUME NEW i \in DOMAIN t, NEW j \in DOMAIN t, i < j
               PROVE  \/ t[i][1] = t[j][1] /\ t[j][2] - t[i][2] = j - i
                      \/ t[i][1] < t[j][1] /\ Size - t[i][2] + t[j][2] <= j - i
    BY DEF Consecutive
  <2>1. i \in Nat /\ j \in Nat /\ i + n < j + n /\ (j + n) - (i + n) = j - i
    BY <1>1, <1>2, <1>3, <1>4
  <2>2. \/ s[i + n][1] = s[j + n][1] /\ s[j + n][2] - s[i + n][2] = (j + n) - (i + n)
        \/ s[i + n][1] < s[j + n][1] /\ Size - s[i + n][2] + s[j + n][2] <= (j + n) - (i + n)
    BY <2>1, <1>4 DEF Good, Consecutive
  <2> QED
    BY <2>1, <2>2, <1>4
<1> QED
  BY <1>3, <1>4, <1>5, <1>7, <1>8 DEF Good, t
-----------------------------------------------------------------------------
(* What a reader finds                                                     *)

LEMMA Numbers ==
  /\ Size \in Nat /\ Size >= 3 /\ TypeWord \in 1..Size /\ TypeWord = 2
  /\ KeyEnd \in 3..Size /\ MaxMsgs \in Nat /\ Ack = 1
BY MsgStreamAssumption DEF TypeWord, Ack

LEMMA WordsAreNumbers ==
  /\ \A w \in Words : w[1] \in 1..MaxMsgs /\ w[2] \in 1..Size /\ w = <<w[1], w[2]>>
  /\ \A b \in Buffers : \A i \in 1..Size :
       /\ b[i][1] \in 0..MaxMsgs /\ b[i][2] \in 0..Size
       /\ b[i] \in Words \cup {Zero} \cup ({0} \X (1..Size))
<1>1. \A w \in Words : w[1] \in 1..MaxMsgs /\ w[2] \in 1..Size /\ w = <<w[1], w[2]>>
  BY DEF Words
<1>2. \A w \in {0} \X (1..Size) : w[1] = 0 /\ w[2] \in 1..Size
  OBVIOUS
<1>3. Zero[1] = 0 /\ Zero[2] = 0
  BY DEF Zero
<1> QED
  BY <1>1, <1>2, <1>3, Numbers DEF Buffers

(* A stream whose second word is a type begins with that whole message.    *)
LEMMA TypeStartsMessage ==
  ASSUME NEW sent \in Nat, NEW s, Good(s, sent), TypeWord \in DOMAIN s,
         s[TypeWord][2] = TypeWord
  PROVE  /\ \A i \in 1..Size : i \in DOMAIN s => s[i] = <<s[TypeWord][1], i>>
         /\ \A i \in DOMAIN s : i > Size => s[i][1] > s[TypeWord][1]
<1>1. s \in Seq(Words) /\ DOMAIN s = 1..Len(s) /\ Len(s) \in Nat
  BY DEF Good
<1>2. \A i \in DOMAIN s :
        s[i] \in Words /\ s[i][1] \in Nat /\ s[i][2] \in 1..Size /\ s[i] = <<s[i][1], s[i][2]>>
  BY <1>1, WordsAreNumbers, Numbers
<1>3. ASSUME NEW i \in DOMAIN s, i > TypeWord
      PROVE  \/ s[i][1] = s[TypeWord][1] /\ s[i][2] = i
             \/ s[i][1] > s[TypeWord][1] /\ i > Size
  <2>1. \/ s[TypeWord][1] = s[i][1] /\ s[i][2] - s[TypeWord][2] = i - TypeWord
        \/ s[TypeWord][1] < s[i][1] /\ Size - s[TypeWord][2] + s[i][2] <= i - TypeWord
    BY <1>3 DEF Good, Consecutive, TypeWord
  <2> QED
    BY <2>1, <1>1, <1>2, <1>3, Numbers
<1>4. 1 \in DOMAIN s /\ s[1][1] = s[TypeWord][1] /\ s[1][2] = 1
  <2>1. 1 \in DOMAIN s /\ 1 < TypeWord
    BY <1>1, Numbers
  <2>2. \/ s[1][1] = s[TypeWord][1] /\ s[TypeWord][2] - s[1][2] = TypeWord - 1
        \/ s[1][1] < s[TypeWord][1] /\ Size - s[1][2] + s[TypeWord][2] <= TypeWord - 1
    BY <2>1 DEF Good, Consecutive
  <2> QED
    BY <2>1, <2>2, <1>2, Numbers
<1>5. ASSUME NEW i \in 1..Size, i \in DOMAIN s
      PROVE  s[i] = <<s[TypeWord][1], i>>
  <2>1. CASE i = 1
    BY <2>1, <1>2, <1>4
  <2>2. CASE i = 2
    BY <2>2, <1>2, Numbers
  <2>3. CASE i > 2
    BY <2>3, <1>2, <1>3, <1>5, Numbers
  <2> QED
    BY <2>1, <2>2, <2>3, Numbers
<1>6. ASSUME NEW i \in DOMAIN s, i > Size
      PROVE  s[i][1] > s[TypeWord][1]
  BY <1>1, <1>2, <1>3, <1>6, Numbers
<1> QED
  BY <1>5, <1>6

(* What follows the words read is not before the second of them.           *)
LEMMA LaterWords ==
  ASSUME NEW sent \in Nat, NEW s, Good(s, sent), TypeWord \in DOMAIN s
  PROVE  \A i \in DOMAIN s :
           i > TypeWord => \/ s[i][1] > s[TypeWord][1]
                           \/ s[i][1] = s[TypeWord][1] /\ s[i][2] > s[TypeWord][2]
<1>1. s \in Seq(Words) /\ DOMAIN s = 1..Len(s) /\ Len(s) \in Nat
  BY DEF Good
<1>2. \A i \in DOMAIN s : s[i][1] \in Nat /\ s[i][2] \in Nat
  BY <1>1, WordsAreNumbers, Numbers
<1>3. ASSUME NEW i \in DOMAIN s, i > TypeWord
      PROVE  \/ s[i][1] > s[TypeWord][1]
             \/ s[i][1] = s[TypeWord][1] /\ s[i][2] > s[TypeWord][2]
  <2>1. \/ s[TypeWord][1] = s[i][1] /\ s[i][2] - s[TypeWord][2] = i - TypeWord
        \/ s[TypeWord][1] < s[i][1] /\ Size - s[TypeWord][2] + s[i][2] <= i - TypeWord
    BY <1>3 DEF Good, Consecutive, TypeWord
  <2> QED
    BY <2>1, <1>1, <1>2, <1>3, Numbers
<1> QED
  BY <1>3

(* What recv leaves in a buffer.                                           *)
LEMMA ReceivedWords ==
  ASSUME NEW sent \in Nat, NEW s, Good(s, sent), NEW n \in Arrived(s), NEW b \in Buffers
  PROVE  /\ Received(b, s, n) \in Buffers
         /\ \A i \in 1..Size : Received(b, s, n)[i] = IF i <= n THEN s[i] ELSE b[i]
         /\ \A i \in 1..n : i \in DOMAIN s
<1>1. s \in Seq(Words) /\ DOMAIN s = 1..Len(s) /\ Len(s) \in Nat
  BY DEF Good
<1>2. n \in 1..Size /\ n <= Len(s)
  BY ReadKeepsGood
<1>3. \A i \in 1..n : i \in DOMAIN s /\ s[i] \in Words
  BY <1>1, <1>2, Numbers
<1>4. \A i \in 1..Size : b[i] \in Words \cup {Zero} \cup ({0} \X (1..Size))
  BY DEF Buffers
<1>5. \A i \in 1..Size : (IF i <= n THEN s[i] ELSE b[i]) \in Words \cup {Zero} \cup ({0} \X (1..Size))
  BY <1>2, <1>3, <1>4, Numbers
<1> QED
  BY <1>3, <1>5 DEF Received, Buffers
-----------------------------------------------------------------------------
(* What a send or a receive changes.                                       *)

LEMMA SendDownStep ==
  ASSUME IInv, SendDown
  PROVE  /\ sentDown' = sentDown + 1 /\ sentDown' \in 0..MaxMsgs /\ readDown' = readDown
         /\ readDown' + Len(down') = Size * sentDown'
         /\ Good(down', sentDown')
         /\ readDown = 0 => down'[1] = <<1, 1>>
         /\ clientBuf[TypeWord][1] <= sentDown'
         /\ \A i \in DOMAIN down' : clientBuf[TypeWord][1] <= down'[i][1]
<1>1. /\ sentDown \in 0..MaxMsgs /\ sentDown < MaxMsgs /\ Good(down, sentDown)
      /\ sentDown' = sentDown + 1 /\ readDown' = readDown
      /\ down' = down \o Message(sentDown + 1)
  BY DEF IInv, Types, Streams, SendDown
<1>2. /\ Good(down', sentDown') /\ Len(down') = Len(down) + Size
      /\ \A i \in DOMAIN down' :
           \/ i \in DOMAIN down /\ down'[i] = down[i]
           \/ i > Len(down) /\ down'[i] = <<sentDown + 1, i - Len(down)>>
  BY <1>1, SendKeepsGood
<1>3. /\ down \in Seq(Words) /\ down' \in Seq(Words) /\ Len(down) \in Nat
      /\ DOMAIN down = 1..Len(down) /\ DOMAIN down' = 1..(Len(down) + Size)
  BY <1>1, <1>2, Numbers DEF Good
<1>4. readDown' + Len(down') = Size * sentDown' /\ sentDown' \in 0..MaxMsgs
  <2>1. Size * (sentDown + 1) = Size * sentDown + Size
    BY <1>1, Numbers
  <2>2. readDown + Len(down) = Size * sentDown /\ readDown \in Nat /\ Len(down) \in Nat
    BY <1>3 DEF IInv, Types
  <2>3. readDown' + Len(down') = (readDown + Len(down)) + Size
    <3>1. readDown' = readDown /\ Len(down') = Len(down) + Size
      BY <1>1, <1>2
    <3> QED
      BY <3>1, <2>2, Numbers
  <2>4. Size * sentDown' = Size * (sentDown + 1)
    BY <1>1
  <2>5. sentDown' \in 0..MaxMsgs
    BY <1>1, Numbers
  <2> QED
    BY <2>1, <2>2, <2>3, <2>4, <2>5
<1>5. ASSUME readDown = 0 PROVE down'[1] = <<1, 1>>
  <2>1. CASE down # <<>>
    <3>1. 1 \in DOMAIN down /\ 1 \in DOMAIN down' /\ ~ (1 > Len(down))
      BY <2>1, <1>3, Numbers
    <3> QED
      BY <3>1, <2>1, <1>2, <1>5 DEF IInv, GreetingInv
  <2>2. CASE down = <<>>
    <3>1. Len(down) = 0 /\ 1 \in DOMAIN down' /\ ~ (1 \in DOMAIN down)
      BY <2>2, <1>3, Numbers
    <3>2. Size * sentDown = 0
      BY <3>1, <1>5 DEF IInv, Types
    <3>3. sentDown = 0
      BY <3>2, <1>1, Numbers
    <3> QED
      BY <3>1, <3>3, <1>2
  <2> QED
    BY <2>1, <2>2
<1>6. clientBuf[TypeWord][1] <= sentDown /\ clientBuf[TypeWord][1] \in Nat
  <2>1. clientBuf \in Buffers
    BY DEF IInv, Types
  <2>2. clientBuf[TypeWord][1] \in 0..MaxMsgs
    BY <2>1, WordsAreNumbers, Numbers
  <2> QED
    BY <2>2, Numbers DEF IInv, ClientOrder
<1>7. ASSUME NEW i \in DOMAIN down' PROVE clientBuf[TypeWord][1] <= down'[i][1]
  <2>1. CASE i \in DOMAIN down /\ down'[i] = down[i]
    BY <2>1 DEF IInv, ClientOrder
  <2>2. CASE i > Len(down) /\ down'[i] = <<sentDown + 1, i - Len(down)>>
    <3>1. down'[i][1] = sentDown + 1
      BY <2>2
    <3> QED
      BY <3>1, <1>1, <1>6, Numbers
  <2> QED
    BY <2>1, <2>2, <1>2
<1>8. clientBuf[TypeWord][1] <= sentDown'
  BY <1>1, <1>6, Numbers
<1> QED
  BY <1>1, <1>2, <1>4, <1>5, <1>7, <1>8

LEMMA SendUpStep ==
  ASSUME IInv, SendUp
  PROVE  /\ sentUp' = sentUp + 1 /\ sentUp' \in 0..MaxMsgs /\ readUp' = readUp
         /\ readUp' + Len(up') = Size * sentUp'
         /\ Good(up', sentUp')
         /\ server = "loop" => \A i \in DOMAIN up' : up'[i][1] > Ack
         /\ \A a \in DOMAIN serverActed :
              /\ serverActed[a] <= sentUp'
              /\ \A i \in DOMAIN up' :
                   \/ serverActed[a] < up'[i][1]
                   \/ serverActed[a] = up'[i][1] /\ TypeWord < up'[i][2]
<1>1. /\ sentUp \in 0..MaxMsgs /\ sentUp < MaxMsgs /\ Good(up, sentUp)
      /\ sentUp' = sentUp + 1 /\ readUp' = readUp
      /\ up' = up \o Message(sentUp + 1)
  BY DEF IInv, Types, Streams, SendUp
<1>2. /\ Good(up', sentUp') /\ Len(up') = Len(up) + Size
      /\ \A i \in DOMAIN up' :
           \/ i \in DOMAIN up /\ up'[i] = up[i]
           \/ i > Len(up) /\ up'[i] = <<sentUp + 1, i - Len(up)>>
  BY <1>1, SendKeepsGood
<1>3. readUp' + Len(up') = Size * sentUp' /\ sentUp' \in 0..MaxMsgs
  <2>1. Size * (sentUp + 1) = Size * sentUp + Size
    BY <1>1, Numbers
  <2>2. readUp + Len(up) = Size * sentUp /\ readUp \in Nat /\ Len(up) \in Nat
    BY <1>1 DEF IInv, Types, Good
  <2>3. readUp' + Len(up') = (readUp + Len(up)) + Size
    <3>1. readUp' = readUp /\ Len(up') = Len(up) + Size
      BY <1>1, <1>2
    <3> QED
      BY <3>1, <2>2, Numbers
  <2>4. Size * sentUp' = Size * (sentUp + 1)
    BY <1>1
  <2>5. sentUp' \in 0..MaxMsgs
    BY <1>1, Numbers
  <2> QED
    BY <2>1, <2>2, <2>3, <2>4, <2>5
<1>4. server = "loop" => \A i \in DOMAIN up' : up'[i][1] > Ack
  BY <1>1, <1>2, Numbers DEF IInv, AckInv
<1>5. ASSUME NEW a \in DOMAIN serverActed
      PROVE  /\ serverActed[a] <= sentUp'
             /\ \A i \in DOMAIN up' :
                  \/ serverActed[a] < up'[i][1]
                  \/ serverActed[a] = up'[i][1] /\ TypeWord < up'[i][2]
  <2>1. serverActed[a] \in Nat
    <3>1. serverActed \in Seq(1..MaxMsgs)
      BY DEF IInv, Types
    <3> QED
      BY <3>1, Numbers
  <2>2. serverActed[a] <= sentUp /\ sentUp \in Nat
    BY <1>1, Numbers DEF IInv, ServerOrder
  <2>3. ASSUME NEW i \in DOMAIN up'
        PROVE  \/ serverActed[a] < up'[i][1]
               \/ serverActed[a] = up'[i][1] /\ TypeWord < up'[i][2]
    <3>1. CASE i \in DOMAIN up /\ up'[i] = up[i]
      BY <3>1 DEF IInv, ServerOrder
    <3>2. CASE i > Len(up) /\ up'[i] = <<sentUp + 1, i - Len(up)>>
      <4>1. up'[i][1] = sentUp + 1
        BY <3>2
      <4> QED
        BY <4>1, <2>1, <2>2
    <3> QED
      BY <3>1, <3>2, <1>2
  <2> QED
    BY <2>1, <2>2, <2>3, <1>1
<1> QED
  BY <1>1, <1>2, <1>3, <1>4, <1>5

LEMMA ReadUpStep ==
  ASSUME IInv, NEW n \in Arrived(up), ReadUp(n)
  PROVE  /\ sentUp' = sentUp /\ readUp' = readUp + n /\ readUp' \in Nat /\ readUp' > 0
         /\ n \in 1..Size /\ n <= Len(up) /\ sentUp >= 1
         /\ readUp' + Len(up') = Size * sentUp'
         /\ Good(up', sentUp')
         /\ \A i \in DOMAIN up' : i \in Nat \ {0} /\ i + n \in DOMAIN up /\ up'[i] = up[i + n]
<1>1. Good(up, sentUp) /\ sentUp \in Nat /\ readUp \in Nat /\ Len(up) \in Nat
  BY Numbers DEF IInv, Types, Streams, Good
<1>2. sentUp' = sentUp /\ readUp' = readUp + n /\ up' = SubSeq(up, n + 1, Len(up))
  BY DEF ReadUp
<1>3. /\ Good(up', sentUp) /\ n \in 1..Size /\ n <= Len(up) /\ Len(up') = Len(up) - n
      /\ \A i \in DOMAIN up' : i + n \in DOMAIN up /\ up'[i] = up[i + n]
  BY <1>1, <1>2, ReadKeepsGood
<1>4. \A i \in DOMAIN up' : i \in Nat \ {0}
  BY <1>3 DEF Good
<1>5. readUp + Len(up) = Size * sentUp
  BY DEF IInv, Types
<1>6. sentUp >= 1
  <2>1. Size * sentUp > 0
    BY <1>1, <1>3, <1>5, Numbers
  <2> QED
    BY <2>1, <1>1, Numbers
<1>7. readUp' + Len(up') = Size * sentUp'
  <2>1. Size * sentUp' = Size * sentUp
    BY <1>2
  <2>2. readUp' + Len(up') = readUp + Len(up)
    <3>1. n \in Nat
      BY <1>3, Numbers
    <3>2. Len(up') = Len(up) - n /\ readUp' = readUp + n
      BY <1>2, <1>3
    <3> QED
      BY <3>1, <3>2, <1>1
  <2> QED
    BY <2>1, <2>2, <1>5
<1>8. readUp' \in Nat /\ readUp' > 0
  BY <1>1, <1>2, <1>3, Numbers
<1> QED
  BY <1>2, <1>3, <1>4, <1>6, <1>7, <1>8

LEMMA ReadDownStep ==
  ASSUME IInv, NEW n \in Arrived(down), ReadDown(n)
  PROVE  /\ sentDown' = sentDown /\ greeting' = greeting
         /\ readDown' = readDown + n /\ readDown' \in Nat /\ readDown' > 0
         /\ n \in 1..Size /\ n <= Len(down)
         /\ readDown' + Len(down') = Size * sentDown'
         /\ Good(down', sentDown')
         /\ \A i \in DOMAIN down' : i \in Nat \ {0} /\ i + n \in DOMAIN down /\ down'[i] = down[i + n]
<1>1. Good(down, sentDown) /\ sentDown \in Nat /\ readDown \in Nat /\ Len(down) \in Nat
  BY Numbers DEF IInv, Types, Streams, Good
<1>2. /\ sentDown' = sentDown /\ greeting' = greeting /\ readDown' = readDown + n
      /\ down' = SubSeq(down, n + 1, Len(down))
  BY DEF ReadDown
<1>3. /\ Good(down', sentDown) /\ n \in 1..Size /\ n <= Len(down) /\ Len(down') = Len(down) - n
      /\ \A i \in DOMAIN down' : i + n \in DOMAIN down /\ down'[i] = down[i + n]
  BY <1>1, <1>2, ReadKeepsGood
<1>4. \A i \in DOMAIN down' : i \in Nat \ {0}
  BY <1>3 DEF Good
<1>5. readDown + Len(down) = Size * sentDown
  BY DEF IInv, Types
<1>6. readDown' + Len(down') = Size * sentDown'
  <2>1. Size * sentDown' = Size * sentDown
    BY <1>2
  <2>2. readDown' + Len(down') = readDown + Len(down)
    <3>1. n \in Nat
      BY <1>3, Numbers
    <3>2. Len(down') = Len(down) - n /\ readDown' = readDown + n
      BY <1>2, <1>3
    <3> QED
      BY <3>1, <3>2, <1>1
  <2> QED
    BY <2>1, <2>2, <1>5
<1>7. readDown' \in Nat /\ readDown' > 0
  BY <1>1, <1>2, <1>3, Numbers
<1> QED
  BY <1>2, <1>3, <1>4, <1>6, <1>7
-----------------------------------------------------------------------------
(* Every step keeps the invariant                                          *)

LEMMA InitIInv == Init => IInv
<1> SUFFICES ASSUME Init PROVE IInv
  OBVIOUS
<1>1. /\ up = <<>> /\ down = <<>> /\ sentUp = 0 /\ sentDown = 0 /\ readUp = 0 /\ readDown = 0
      /\ greeting = 0 /\ server = "greet" /\ client = "handshake"
      /\ serverActed = <<>> /\ clientActed = <<>>
      /\ serverBuf = [i \in 1..Size |-> Zero] /\ clientBuf = [i \in 1..Size |-> <<0, i>>]
  BY DEF Init
<1>2. Len(<<>>) = 0 /\ Size * 0 = 0
  BY Numbers
<1>3. serverBuf \in Buffers /\ clientBuf \in Buffers
  <2>1. \A i \in 1..Size : <<0, i>> \in {0} \X (1..Size)
    OBVIOUS
  <2> QED
    BY <1>1, <2>1 DEF Buffers
<1>4. Types
  BY <1>1, <1>2, <1>3, Numbers DEF Types
<1>5. Good(<<>>, 0)
  BY DEF Good, Consecutive, Complete
<1>6. clientBuf[TypeWord][1] = 0 /\ serverBuf[TypeWord][2] = 0
  BY <1>1, Numbers DEF Zero
<1>7. ServerNeverMixes
  BY <1>6, Numbers DEF ServerNeverMixes
<1>8. ClientOrder
  BY <1>1, <1>6 DEF ClientOrder
<1> QED
  BY <1>1, <1>4, <1>5, <1>7, <1>8 DEF IInv, Streams, GreetingInv, AckInv, ServerOrder

LEMMA StutterKeepsIInv ==
  ASSUME IInv, UNCHANGED vars PROVE IInv'
BY DEF IInv, Types, Streams, GreetingInv, AckInv, ServerOrder, ClientOrder, ServerNeverMixes,
       vars, upVars, downVars, serverVars, clientVars

LEMMA ServerSendsKeepsIInv ==
  ASSUME IInv, ServerSends PROVE IInv'
<1>1. SendDown /\ UNCHANGED <<upVars, greeting, serverVars, clientVars>>
  BY DEF ServerSends
<1>2. Types'
  BY <1>1, SendDownStep DEF IInv, Types, upVars, serverVars, clientVars
<1>3. Streams'
  BY <1>1, SendDownStep DEF IInv, Streams, upVars
<1>4. GreetingInv'
  BY <1>1, SendDownStep DEF IInv, GreetingInv, upVars, serverVars, clientVars
<1>5. AckInv' /\ ServerOrder' /\ ServerNeverMixes'
  BY <1>1 DEF IInv, AckInv, ServerOrder, ServerNeverMixes, upVars, serverVars
<1>6. ClientOrder'
  BY <1>1, SendDownStep DEF IInv, ClientOrder, clientVars
<1> QED
  BY <1>2, <1>3, <1>4, <1>5, <1>6 DEF IInv

LEMMA GreetKeepsIInv ==
  ASSUME IInv, Greet PROVE IInv'
<1>1. /\ SendDown /\ server = "greet" /\ greeting' = sentDown' /\ server' = "answer"
      /\ UNCHANGED <<upVars, serverBuf, serverActed, clientVars>>
  BY DEF Greet
<1>2. greeting' \in 0..MaxMsgs
  BY <1>1, SendDownStep
<1>3. Types'
  BY <1>1, <1>2, SendDownStep DEF IInv, Types, upVars, clientVars
<1>4. Streams'
  BY <1>1, SendDownStep DEF IInv, Streams, upVars
<1>5. ~ (sentUp >= 1 \/ client = "on")
  BY <1>1 DEF IInv, GreetingInv
<1>6. GreetingInv'
  BY <1>1, <1>5, SendDownStep DEF IInv, GreetingInv, upVars, clientVars
<1>7. AckInv' /\ ServerOrder' /\ ServerNeverMixes'
  BY <1>1 DEF IInv, AckInv, ServerOrder, ServerNeverMixes, upVars
<1>8. ClientOrder'
  BY <1>1, SendDownStep DEF IInv, ClientOrder, clientVars
<1> QED
  BY <1>3, <1>4, <1>6, <1>7, <1>8 DEF IInv

LEMMA AnswerKeepsIInv ==
  ASSUME IInv, Answer PROVE IInv'
<1>1. PICK n \in Arrived(up) : ReadUp(n) /\ server' = IF IsAck(n) THEN "loop" ELSE "ended"
  BY DEF Answer
<1>2. /\ server = "answer"
      /\ UNCHANGED <<downVars, serverBuf, serverActed, clientVars>>
  BY DEF Answer
<1>3. /\ sentUp' = sentUp /\ readUp' = readUp + n /\ readUp' \in Nat /\ n \in 1..Size
      /\ n <= Len(up) /\ sentUp >= 1 /\ readUp' + Len(up') = Size * sentUp' /\ Good(up', sentUp')
      /\ \A i \in DOMAIN up' : i \in Nat \ {0} /\ i + n \in DOMAIN up /\ up'[i] = up[i + n]
  BY <1>1, ReadUpStep
<1>4. server' \in {"loop", "ended"} /\ (server' = "loop" => IsAck(n))
  BY <1>1
<1>5. Types'
  BY <1>2, <1>3, <1>4 DEF IInv, Types, downVars, clientVars
<1>6. Streams'
  BY <1>2, <1>3 DEF IInv, Streams, downVars
<1>7. GreetingInv'
  BY <1>2, <1>3, <1>4 DEF IInv, GreetingInv, downVars, clientVars
<1>8. AckInv'
  <2>1. ASSUME server' = "loop"
        PROVE  sentUp' >= 1 /\ readUp' >= Size /\ \A i \in DOMAIN up' : up'[i][1] > Ack
    <3>1. n = Size /\ up[TypeWord] = <<Ack, TypeWord>>
      BY <2>1, <1>4 DEF IsAck
    <3>2. readUp' = Size /\ sentUp' >= 1
      <4>1. readUp = 0
        BY <1>2 DEF IInv, GreetingInv
      <4> QED
        BY <4>1, <3>1, <1>3, Numbers
    <3>3. Good(up, sentUp) /\ sentUp \in Nat /\ DOMAIN up = 1..Len(up) /\ Len(up) \in Nat
      BY Numbers DEF IInv, Types, Streams, Good
    <3>4. TypeWord \in DOMAIN up /\ up[TypeWord][2] = TypeWord /\ up[TypeWord][1] = Ack
      BY <3>1, <3>3, <1>3, Numbers
    <3>5. \A i \in DOMAIN up : i > Size => up[i][1] > Ack
      BY <3>3, <3>4, TypeStartsMessage
    <3>6. \A i \in DOMAIN up' : i + n \in DOMAIN up /\ i + n > Size /\ up'[i] = up[i + n]
      BY <3>1, <1>3, Numbers
    <3> QED
      BY <3>2, <3>5, <3>6, Numbers
  <2>2. \A a \in DOMAIN serverActed' : serverActed'[a] > Ack
    BY <1>2 DEF IInv, AckInv
  <2> QED
    BY <2>1, <2>2 DEF AckInv
<1>9. ServerOrder'
  BY <1>2, <1>3 DEF IInv, ServerOrder
<1>10. ClientOrder' /\ ServerNeverMixes'
  BY <1>2 DEF IInv, ClientOrder, ServerNeverMixes, downVars, clientVars
<1> QED
  BY <1>5, <1>6, <1>7, <1>8, <1>9, <1>10 DEF IInv

LEMMA ServerReceivesKeepsIInv ==
  ASSUME IInv, ServerReceives PROVE IInv'
<1>1. PICK n \in Arrived(up) : ReadUp(n) /\ serverBuf' = Received(BufferCleared, up, n)
  BY DEF ServerReceives
<1>2. /\ server = "loop" /\ serverActed' = ActsOn(serverBuf', serverActed)
      /\ UNCHANGED <<server, downVars, clientVars>>
  BY DEF ServerReceives
<1>3. /\ sentUp' = sentUp /\ readUp' = readUp + n /\ readUp' \in Nat /\ n \in 1..Size
      /\ n <= Len(up) /\ sentUp >= 1 /\ readUp' + Len(up') = Size * sentUp' /\ Good(up', sentUp')
      /\ \A i \in DOMAIN up' : i \in Nat \ {0} /\ i + n \in DOMAIN up /\ up'[i] = up[i + n]
  BY <1>1, ReadUpStep
<1>4. /\ Good(up, sentUp) /\ up \in Seq(Words) /\ DOMAIN up = 1..Len(up) /\ Len(up) \in Nat
      /\ sentUp \in Nat /\ readUp \in Nat /\ serverActed \in Seq(1..MaxMsgs)
  BY Numbers DEF IInv, Types, Streams, Good
<1>5. /\ serverBuf' \in Buffers
      /\ \A i \in 1..Size : serverBuf'[i] = IF i <= n THEN up[i] ELSE Zero
      /\ \A i \in 1..n : i \in DOMAIN up
  <2>1. BufferCleared \in Buffers /\ \A i \in 1..Size : BufferCleared[i] = Zero
    BY DEF BufferCleared, Buffers
  <2> QED
    BY <1>1, <1>4, <2>1, ReceivedWords
<1>6. ASSUME serverBuf'[TypeWord][2] = TypeWord
      PROVE  /\ n >= TypeWord /\ TypeWord \in DOMAIN up /\ serverBuf'[TypeWord] = up[TypeWord]
             /\ up[TypeWord][2] = TypeWord /\ up[TypeWord][1] \in 1..MaxMsgs
  <2>1. n >= TypeWord
    <3>1. Zero[2] # TypeWord
      BY Numbers DEF Zero
    <3>2. serverBuf'[TypeWord] # Zero
      BY <3>1, <1>6
    <3>3. TypeWord <= n
      BY <3>2, <1>5, Numbers
    <3> QED
      BY <3>3, <1>3, Numbers
  <2>2. TypeWord \in DOMAIN up /\ serverBuf'[TypeWord] = up[TypeWord]
    BY <2>1, <1>3, <1>5, Numbers
  <2>3. up[TypeWord] \in Words
    BY <2>2, <1>4
  <2> QED
    BY <2>1, <2>2, <2>3, <1>6, WordsAreNumbers
<1>7. ServerNeverMixes'
  <2>1. ASSUME serverBuf'[TypeWord][2] = TypeWord, NEW i \in 1..Size
        PROVE  serverBuf'[i] \in {Zero, <<serverBuf'[TypeWord][1], i>>}
    <3>1. CASE i <= n
      <4>1. i \in DOMAIN up /\ serverBuf'[i] = up[i]
        BY <3>1, <1>3, <1>5, Numbers
      <4>2. up[i] = <<up[TypeWord][1], i>>
        BY <4>1, <2>1, <1>4, <1>6, TypeStartsMessage
      <4> QED
        BY <4>1, <4>2, <2>1, <1>6
    <3>2. CASE ~ (i <= n)
      BY <3>2, <1>5
    <3> QED
      BY <3>1, <3>2
  <2> QED
    BY <2>1 DEF ServerNeverMixes
<1>8. ASSUME NEW i \in DOMAIN up'
      PROVE  up'[i][1] > Ack
  BY <1>2, <1>3, <1>8 DEF IInv, AckInv
<1>9. readUp' >= Size
  <2>1. readUp >= Size
    BY <1>2 DEF IInv, AckInv
  <2> QED
    BY <2>1, <1>3, <1>4, Numbers
<1>10. CASE serverBuf'[TypeWord][2] # TypeWord
  <2>1. serverActed' = serverActed
    BY <1>2, <1>10 DEF ActsOn
  <2>2. Types'
    BY <1>2, <1>3, <1>5, <2>1 DEF IInv, Types, downVars, clientVars
  <2>3. AckInv'
    BY <1>3, <1>8, <1>9, <2>1 DEF IInv, AckInv
  <2>4. ServerOrder'
    BY <1>3, <2>1 DEF IInv, ServerOrder
  <2>5. Streams' /\ GreetingInv' /\ ClientOrder'
    BY <1>2, <1>3 DEF IInv, Streams, GreetingInv, ClientOrder, downVars, clientVars
  <2> QED
    BY <2>2, <2>3, <2>4, <2>5, <1>7 DEF IInv
<1>11. CASE serverBuf'[TypeWord][2] = TypeWord
  <2> DEFINE k == up[TypeWord][1]
  <2>1. /\ n >= TypeWord /\ TypeWord \in DOMAIN up /\ up[TypeWord][2] = TypeWord
        /\ k \in 1..MaxMsgs /\ serverBuf'[TypeWord] = up[TypeWord]
    BY <1>6, <1>11
  <2>2. serverActed' = Append(serverActed, k)
    BY <1>2, <1>11, <2>1 DEF ActsOn
  <2>3. k > Ack /\ k <= sentUp
    BY <2>1, <1>2, <1>4 DEF IInv, AckInv, Good
  <2>4. ASSUME NEW a \in DOMAIN serverActed PROVE serverActed[a] < k
    BY <2>1, <2>4, Numbers DEF IInv, ServerOrder
  <2>5. ASSUME NEW i \in DOMAIN up'
        PROVE  \/ k < up'[i][1]
               \/ k = up'[i][1] /\ TypeWord < up'[i][2]
    <3>1. i + n \in DOMAIN up /\ i + n > TypeWord /\ up'[i] = up[i + n]
      BY <2>1, <1>3, Numbers
    <3>2. \/ up[i + n][1] > k
          \/ up[i + n][1] = k /\ up[i + n][2] > up[TypeWord][2]
      BY <3>1, <2>1, <1>4, LaterWords
    <3> QED
      BY <3>1, <3>2, <2>1
  <2>6. /\ serverActed' \in Seq(1..MaxMsgs)
        /\ DOMAIN serverActed' = 1..(Len(serverActed) + 1) /\ DOMAIN serverActed = 1..Len(serverActed)
        /\ Len(serverActed) \in Nat
        /\ \A a \in DOMAIN serverActed : serverActed'[a] = serverActed[a]
        /\ serverActed'[Len(serverActed) + 1] = k
    BY <2>1, <2>2, <1>4, AppendProperties
  <2> HIDE DEF k
  <2>7. Types'
    BY <1>2, <1>3, <1>5, <2>6 DEF IInv, Types, downVars, clientVars
  <2>8. ASSUME NEW a \in DOMAIN serverActed'
        PROVE  \/ a \in DOMAIN serverActed /\ serverActed'[a] = serverActed[a]
               \/ a = Len(serverActed) + 1 /\ serverActed'[a] = k
    BY <2>6, <2>8
  <2>9. AckInv'
    <3>1. \A a \in DOMAIN serverActed' : serverActed'[a] > Ack
      BY <2>3, <2>8 DEF IInv, AckInv
    <3> QED
      BY <3>1, <1>3, <1>8, <1>9 DEF AckInv
  <2>10. ServerOrder'
    <3>1. ASSUME NEW a \in DOMAIN serverActed', NEW b \in DOMAIN serverActed', a < b
          PROVE  serverActed'[a] < serverActed'[b]
      <4>1. a \in DOMAIN serverActed /\ serverActed'[a] = serverActed[a]
        BY <3>1, <2>6, <2>8
      <4>2. CASE b \in DOMAIN serverActed /\ serverActed'[b] = serverActed[b]
        BY <4>1, <4>2, <3>1 DEF IInv, ServerOrder
      <4>3. CASE b = Len(serverActed) + 1 /\ serverActed'[b] = k
        BY <4>1, <4>3, <2>4
      <4> QED
        BY <4>2, <4>3, <2>8
    <3>2. ASSUME NEW a \in DOMAIN serverActed'
          PROVE  /\ serverActed'[a] <= sentUp'
                 /\ \A i \in DOMAIN up' :
                      \/ serverActed'[a] < up'[i][1]
                      \/ serverActed'[a] = up'[i][1] /\ TypeWord < up'[i][2]
      <4>1. CASE a \in DOMAIN serverActed /\ serverActed'[a] = serverActed[a]
        BY <4>1, <1>3 DEF IInv, ServerOrder
      <4>2. CASE a = Len(serverActed) + 1 /\ serverActed'[a] = k
        BY <4>2, <2>3, <2>5, <1>3
      <4> QED
        BY <4>1, <4>2, <2>8
    <3> QED
      BY <3>1, <3>2 DEF ServerOrder
  <2>11. Streams' /\ GreetingInv' /\ ClientOrder'
    BY <1>2, <1>3 DEF IInv, Streams, GreetingInv, ClientOrder, downVars, clientVars
  <2> QED
    BY <2>7, <2>9, <2>10, <2>11, <1>7 DEF IInv
<1> QED
  BY <1>10, <1>11

LEMMA ClientClosedKeepsIInv ==
  ASSUME IInv, ClientClosed PROVE IInv'
BY DEF ClientClosed, IInv, Types, Streams, GreetingInv, AckInv, ServerOrder, ClientOrder,
       ServerNeverMixes, upVars, downVars, clientVars

LEMMA HandshakeKeepsIInv ==
  ASSUME IInv, Handshake PROVE IInv'
<1>1. PICK n \in Arrived(down) :
        /\ ReadDown(n)
        /\ IF Verified(n) THEN client' = "on" /\ SendUp
           ELSE client' = "gone" /\ UNCHANGED upVars
  BY DEF Handshake
<1>2. client = "handshake" /\ UNCHANGED <<serverVars, clientBuf, clientActed>>
  BY DEF Handshake
<1>3. /\ sentDown' = sentDown /\ greeting' = greeting /\ readDown' = readDown + n
      /\ readDown' \in Nat /\ readDown' > 0 /\ n \in 1..Size /\ n <= Len(down)
      /\ readDown' + Len(down') = Size * sentDown' /\ Good(down', sentDown')
      /\ \A i \in DOMAIN down' : i \in Nat \ {0} /\ i + n \in DOMAIN down /\ down'[i] = down[i + n]
  BY <1>1, ReadDownStep
<1>4. readDown = 0 /\ sentUp = 0 /\ server # "loop"
  BY <1>2 DEF IInv, GreetingInv, AckInv
<1>5. ClientOrder' /\ ServerNeverMixes'
  BY <1>2, <1>3 DEF IInv, ClientOrder, ServerNeverMixes, serverVars
<1>6. CASE Verified(n)
  <2>1. SendUp /\ client' = "on"
    BY <1>1, <1>6
  <2>2. greeting = 1 /\ readDown' >= KeyEnd
    <3>1. n >= KeyEnd /\ down[TypeWord] = <<greeting, TypeWord>>
      BY <1>6 DEF Verified
    <3>2. /\ Good(down, sentDown) /\ sentDown \in Nat
          /\ DOMAIN down = 1..Len(down) /\ Len(down) \in Nat
      BY Numbers DEF IInv, Types, Streams, Good
    <3>3. 1 \in DOMAIN down /\ TypeWord \in DOMAIN down /\ down # <<>>
      BY <3>1, <3>2, <1>3, Numbers
    <3>4. down[1] = <<1, 1>>
      BY <3>3, <1>4 DEF IInv, GreetingInv
    <3>5. down[1] = <<greeting, 1>>
      <4>1. down[TypeWord][2] = TypeWord /\ down[TypeWord][1] = greeting /\ 1 \in 1..Size
        BY <3>1, Numbers
      <4> QED
        BY <4>1, <3>2, <3>3, TypeStartsMessage
    <3>6. readDown' = n
      BY <1>3, <1>4, Numbers
    <3> QED
      BY <3>1, <3>4, <3>5, <3>6
  <2>3. Types'
    BY <2>1, <1>2, <1>3, SendUpStep DEF IInv, Types, serverVars
  <2>4. Streams'
    BY <2>1, <1>3, SendUpStep DEF Streams
  <2>5. GreetingInv'
    BY <2>1, <2>2, <1>2, <1>3, SendUpStep DEF IInv, GreetingInv, serverVars
  <2>6. AckInv'
    BY <1>2, <1>4 DEF IInv, AckInv, serverVars
  <2>7. ServerOrder'
    BY <2>1, <1>2, SendUpStep DEF IInv, ServerOrder, serverVars
  <2> QED
    BY <2>3, <2>4, <2>5, <2>6, <2>7, <1>5 DEF IInv
<1>7. CASE ~ Verified(n)
  <2>1. client' = "gone" /\ UNCHANGED upVars
    BY <1>1, <1>7
  <2>2. Types'
    BY <2>1, <1>2, <1>3 DEF IInv, Types, upVars, serverVars
  <2>3. Streams' /\ GreetingInv'
    BY <2>1, <1>2, <1>3, <1>4 DEF IInv, Streams, GreetingInv, upVars, serverVars
  <2>4. AckInv' /\ ServerOrder'
    BY <2>1, <1>2 DEF IInv, AckInv, ServerOrder, upVars, serverVars
  <2> QED
    BY <2>2, <2>3, <2>4, <1>5 DEF IInv
<1> QED
  BY <1>6, <1>7

LEMMA ClientSendsKeepsIInv ==
  ASSUME IInv, ClientSends PROVE IInv'
<1>1. SendUp /\ client = "on" /\ UNCHANGED <<downVars, serverVars, clientVars>>
  BY DEF ClientSends
<1>2. Types'
  BY <1>1, SendUpStep DEF IInv, Types, downVars, serverVars, clientVars
<1>3. Streams'
  BY <1>1, SendUpStep DEF IInv, Streams, downVars
<1>4. GreetingInv'
  BY <1>1, SendUpStep DEF IInv, GreetingInv, downVars, serverVars, clientVars
<1>5. AckInv'
  <2>1. ASSUME server' = "loop" PROVE sentUp' >= 1 /\ readUp' >= Size
    <3>1. sentUp \in Nat /\ sentUp >= 1 /\ readUp >= Size
      BY <2>1, <1>1, Numbers DEF IInv, Types, AckInv, serverVars
    <3> QED
      BY <3>1, <1>1, SendUpStep
  <2> QED
    BY <2>1, <1>1, SendUpStep DEF IInv, AckInv, serverVars
<1>6. ServerOrder'
  BY <1>1, SendUpStep DEF IInv, ServerOrder, serverVars
<1>7. ClientOrder' /\ ServerNeverMixes'
  BY <1>1 DEF IInv, ClientOrder, ServerNeverMixes, downVars, serverVars, clientVars
<1> QED
  BY <1>2, <1>3, <1>4, <1>5, <1>6, <1>7 DEF IInv

LEMMA ClientLeavesKeepsIInv ==
  ASSUME IInv, ClientLeaves PROVE IInv'
BY DEF ClientLeaves, IInv, Types, Streams, GreetingInv, AckInv, ServerOrder, ClientOrder,
       ServerNeverMixes, upVars, downVars, serverVars

LEMMA ClientReceivesKeepsIInv ==
  ASSUME IInv, ClientReceives PROVE IInv'
<1>1. PICK n \in Arrived(down) : ReadDown(n) /\ clientBuf' = Received(clientBuf, down, n)
  BY DEF ClientReceives
<1>2. /\ client = "on" /\ clientActed' = ActsOn(clientBuf', clientActed)
      /\ UNCHANGED <<client, upVars, serverVars>>
  BY DEF ClientReceives
<1>3. /\ sentDown' = sentDown /\ greeting' = greeting /\ readDown' = readDown + n
      /\ readDown' \in Nat /\ readDown' > 0 /\ n \in 1..Size /\ n <= Len(down)
      /\ readDown' + Len(down') = Size * sentDown' /\ Good(down', sentDown')
      /\ \A i \in DOMAIN down' : i \in Nat \ {0} /\ i + n \in DOMAIN down /\ down'[i] = down[i + n]
  BY <1>1, ReadDownStep
<1>4. /\ Good(down, sentDown) /\ down \in Seq(Words) /\ DOMAIN down = 1..Len(down)
      /\ Len(down) \in Nat /\ sentDown \in Nat /\ readDown \in Nat
      /\ clientActed \in Seq(0..MaxMsgs) /\ clientBuf \in Buffers
  BY Numbers DEF IInv, Types, Streams, Good
<1>5. /\ clientBuf' \in Buffers
      /\ \A i \in 1..Size : clientBuf'[i] = IF i <= n THEN down[i] ELSE clientBuf[i]
      /\ \A i \in 1..n : i \in DOMAIN down
  BY <1>1, <1>4, ReceivedWords
<1> DEFINE old == clientBuf[TypeWord][1]
           new == clientBuf'[TypeWord][1]
<1>6. old \in 0..MaxMsgs /\ new \in 0..MaxMsgs
  BY <1>4, <1>5, WordsAreNumbers, Numbers
<1>7. /\ old <= new /\ new <= sentDown'
      /\ \A i \in DOMAIN down' : new <= down'[i][1]
  <2>1. CASE TypeWord <= n
    <3>1. TypeWord \in DOMAIN down /\ clientBuf'[TypeWord] = down[TypeWord]
      BY <2>1, <1>3, <1>5, Numbers
    <3>2. old <= new /\ new <= sentDown'
      BY <3>1, <1>3, <1>4 DEF IInv, ClientOrder, Good
    <3>3. ASSUME NEW i \in DOMAIN down' PROVE new <= down'[i][1]
      <4>1. i + n \in DOMAIN down /\ i + n > TypeWord /\ down'[i] = down[i + n]
        BY <2>1, <1>3, Numbers
      <4>2. \/ down[i + n][1] > down[TypeWord][1]
            \/ down[i + n][1] = down[TypeWord][1] /\ down[i + n][2] > down[TypeWord][2]
        BY <4>1, <3>1, <1>4, LaterWords
      <4>3. down[i + n][1] \in Nat
        BY <4>1, <1>4, WordsAreNumbers, Numbers
      <4> QED
        BY <4>1, <4>2, <4>3, <3>1, <1>6, Numbers
    <3> QED
      BY <3>2, <3>3
  <2>2. CASE ~ (TypeWord <= n)
    <3>1. clientBuf'[TypeWord] = clientBuf[TypeWord]
      BY <2>2, <1>5, Numbers
    <3>2. new = old
      BY <3>1
    <3>3. old <= sentDown /\ \A i \in DOMAIN down : old <= down[i][1]
      BY DEF IInv, ClientOrder
    <3> QED
      BY <3>2, <3>3, <1>3, <1>6, Numbers
  <2> QED
    BY <2>1, <2>2
<1>8. ASSUME NEW a \in DOMAIN clientActed
      PROVE  clientActed[a] \in Nat /\ clientActed[a] <= old /\ clientActed[a] <= new
  <2>1. clientActed[a] \in 0..MaxMsgs
    <3>1. clientActed \in Seq(0..MaxMsgs)
      BY <1>4
    <3> QED
      BY <3>1, Numbers
  <2>2. clientActed[a] <= old
    BY DEF IInv, ClientOrder
  <2> QED
    BY <2>1, <2>2, <1>6, <1>7, Numbers
<1>9. /\ clientActed' \in Seq(0..MaxMsgs)
      /\ \A a \in DOMAIN clientActed' : clientActed'[a] <= new
      /\ \A a, b \in DOMAIN clientActed' : a < b => clientActed'[a] <= clientActed'[b]
  <2> HIDE DEF old
  <2>1. \A a, b \in DOMAIN clientActed : a < b => clientActed[a] <= clientActed[b]
    BY DEF IInv, ClientOrder
  <2>2. CASE clientBuf'[TypeWord][2] # TypeWord
    <3>1. clientActed' = clientActed
      BY <2>2, <1>2 DEF ActsOn
    <3> QED
      BY <3>1, <2>1, <1>4, <1>8
  <2>3. CASE clientBuf'[TypeWord][2] = TypeWord
    <3>1. clientActed' = Append(clientActed, new)
      BY <2>3, <1>2 DEF ActsOn
    <3> HIDE DEF new
    <3>2. /\ clientActed' \in Seq(0..MaxMsgs)
          /\ DOMAIN clientActed' = 1..(Len(clientActed) + 1)
          /\ DOMAIN clientActed = 1..Len(clientActed) /\ Len(clientActed) \in Nat
          /\ \A a \in DOMAIN clientActed : clientActed'[a] = clientActed[a]
          /\ clientActed'[Len(clientActed) + 1] = new
      BY <3>1, <1>4, <1>6, AppendProperties
    <3>3. ASSUME NEW a \in DOMAIN clientActed'
          PROVE  \/ a \in DOMAIN clientActed /\ clientActed'[a] = clientActed[a]
                 \/ a = Len(clientActed) + 1 /\ clientActed'[a] = new
      BY <3>2, <3>3
    <3>4. ASSUME NEW a \in DOMAIN clientActed'
          PROVE  clientActed'[a] <= new
      BY <3>3, <1>6, <1>8, Numbers
    <3>5. ASSUME NEW a \in DOMAIN clientActed', NEW b \in DOMAIN clientActed', a < b
          PROVE  clientActed'[a] <= clientActed'[b]
      <4>1. a \in DOMAIN clientActed /\ clientActed'[a] = clientActed[a]
        BY <3>5, <3>2, <3>3
      <4>2. CASE b \in DOMAIN clientActed /\ clientActed'[b] = clientActed[b]
        BY <4>1, <4>2, <3>5, <2>1
      <4>3. CASE b = Len(clientActed) + 1 /\ clientActed'[b] = new
        BY <4>1, <4>3, <1>8
      <4> QED
        BY <4>2, <4>3, <3>3
    <3> QED
      BY <3>2, <3>4, <3>5
  <2> QED
    BY <2>2, <2>3
<1>10. ClientOrder'
  BY <1>7, <1>9 DEF ClientOrder
<1>11. Types'
  BY <1>2, <1>3, <1>5, <1>9 DEF IInv, Types, upVars, serverVars
<1>12. GreetingInv'
  <2>1. readDown >= KeyEnd => readDown' >= KeyEnd
    BY <1>3, <1>4, Numbers
  <2> QED
    BY <2>1, <1>2, <1>3 DEF IInv, GreetingInv, upVars, serverVars
<1>13. Streams' /\ AckInv' /\ ServerOrder' /\ ServerNeverMixes'
  BY <1>2, <1>3 DEF IInv, Streams, AckInv, ServerOrder, ServerNeverMixes, upVars, serverVars
<1> QED
  BY <1>10, <1>11, <1>12, <1>13 DEF IInv
-----------------------------------------------------------------------------
LEMMA NextKeepsIInv == IInv /\ [Next]_vars => IInv'
<1> SUFFICES ASSUME IInv, [Next]_vars PROVE IInv'
  OBVIOUS
<1>1. CASE ServerSends
  BY <1>1, ServerSendsKeepsIInv
<1>2. CASE Greet
  BY <1>2, GreetKeepsIInv
<1>3. CASE Answer
  BY <1>3, AnswerKeepsIInv
<1>4. CASE ServerReceives
  BY <1>4, ServerReceivesKeepsIInv
<1>5. CASE ClientClosed
  BY <1>5, ClientClosedKeepsIInv
<1>6. CASE Handshake
  BY <1>6, HandshakeKeepsIInv
<1>7. CASE ClientSends
  BY <1>7, ClientSendsKeepsIInv
<1>8. CASE ClientReceives
  BY <1>8, ClientReceivesKeepsIInv
<1>9. CASE ClientLeaves
  BY <1>9, ClientLeavesKeepsIInv
<1>10. CASE UNCHANGED vars
  BY <1>10, StutterKeepsIInv
<1> QED
  BY <1>1, <1>2, <1>3, <1>4, <1>5, <1>6, <1>7, <1>8, <1>9, <1>10 DEF Next

LEMMA IInvImplies == IInv => TypeOK /\ AckWasWhole /\ KeyWasSeen /\ ActedInOrder
<1> SUFFICES ASSUME IInv PROVE TypeOK /\ AckWasWhole /\ KeyWasSeen /\ ActedInOrder
  OBVIOUS
<1>1. TypeOK
  BY DEF IInv, Types, Streams, Good, TypeOK
<1>2. AckWasWhole
  <2>1. \A a \in DOMAIN serverActed : serverActed[a] # Ack
    <3>1. \A a \in DOMAIN serverActed : serverActed[a] > Ack
      BY DEF IInv, AckInv
    <3> QED
      BY <3>1, Numbers
  <2> QED
    BY <2>1 DEF IInv, AckInv, AckWasWhole
<1>3. KeyWasSeen
  BY DEF IInv, AckInv, GreetingInv, KeyWasSeen
<1>4. ActedInOrder
  BY DEF IInv, ServerOrder, ClientOrder, ActedInOrder
<1> QED
  BY <1>1, <1>2, <1>3, <1>4

(* The invariant holds in every state of a connection.                     *)
THEOREM IInvHolds == Spec => []IInv
  BY InitIInv, NextKeepsIInv, PTL DEF Spec

(* The streams, the buffers and the counts are what they are taken for,    *)
(* and no word is lost: read and waiting words are those of the messages.  *)
THEOREM TypesHold == Spec => []TypeOK
<1>1. IInv => TypeOK
  BY IInvImplies
<1> QED
  BY <1>1, IInvHolds, PTL

(* However the acknowledgement arrives, a thread that reads messages has   *)
(* all of it behind it (send_conn_establish_msg) and acts on none of it.   *)
THEOREM AckIsWhole == Spec => []AckWasWhole
<1>1. IInv => AckWasWhole
  BY IInvImplies
<1> QED
  BY <1>1, IInvHolds, PTL

(* Nobody is served who has not read the key to its end, first of all      *)
(* (recv_with_timeout and the comparison of SERVER_UNIQUEUE_ID).           *)
THEOREM KeyIsSeen == Spec => []KeyWasSeen
<1>1. IInv => KeyWasSeen
  BY IInvImplies
<1> QED
  BY <1>1, IInvHolds, PTL

(* No cutting of the stream makes the server act twice or out of order, or *)
(* the client on an earlier message (handle_rx_msg, io_thread).            *)
THEOREM OrderIsKept == Spec => []ActedInOrder
<1>1. IInv => ActedInOrder
  BY IInvImplies
<1> QED
  BY <1>1, IInvHolds, PTL

(* What the server acts on has no word of another message in its text.     *)
THEOREM NothingIsMixed == Spec => []ServerNeverMixes
<1>1. IInv => ServerNeverMixes
  BY DEF IInv
<1> QED
  BY <1>1, IInvHolds, PTL
=============================================================================
