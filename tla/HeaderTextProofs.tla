-------------------------- MODULE HeaderTextProofs --------------------------
(***************************************************************************)
(* The headers of the response are those the peer sent (HeadersAsSent),    *)
(* wherever the buffers cut them. The invariant HeadersInv says it of      *)
(* every state: wire, which collects the bytes one by one, has the names   *)
(* and values of the response, where the bytes of the string that is still *)
(* open, from its mark in the buffer up to the byte under the switch,      *)
(* belong to the last of them. A step passes bytes to the open string,     *)
(* delivers it to a callback, or leaves it alone. The lemmas named Told    *)
(* say what each kind of step does to the invariant, given the marks and   *)
(* offsets it leaves; the ones after them show each step of the engine to  *)
(* be of such a kind.                                                      *)
(*                                                                         *)
(* The second part is about the Content-Length. The parser matches the     *)
(* names a byte at a time; MatchInv says that header_state agrees with the *)
(* name sent so far, that every Content-Length sent is a number, and that  *)
(* the flag is set once one has been read. So set_headers_complete, which  *)
(* looks for the header by itself, scans a number (NoConcatToNull).        *)
(* BlockInv adds where the body goes: the block allocated for it has room  *)
(* for the bytes delivered and those still owed (BodyInBlock).             *)
(***************************************************************************)
EXTENDS ResponseParserProofs

-----------------------------------------------------------------------------
(* Lists of strings *)

Strings == Seq(Seq(Lexeme))

\* s with t as a string of its own, or as more of the last one
Add(s, new, t) == IF new THEN Append(s, t) ELSE Extend(s, t)

LEMMA ConcatSeq ==
    ASSUME NEW a \in Seq(Lexeme), NEW b \in Seq(Lexeme), NEW c \in Seq(Lexeme)
    PROVE  /\ a \o b \in Seq(Lexeme) /\ (a \o b) \o c = a \o (b \o c)
           /\ a \o <<>> = a /\ Len(a \o b) = Len(a) + Len(b)
           /\ \A i \in 1..(Len(a) + Len(b)) :
                 (a \o b)[i] = IF i <= Len(a) THEN a[i] ELSE b[i - Len(a)]
  <1>1. /\ a \o b \in Seq(Lexeme) /\ b \o c \in Seq(Lexeme)
        /\ (a \o b) \o c \in Seq(Lexeme) /\ a \o (b \o c) \in Seq(Lexeme)
        /\ a \o <<>> \in Seq(Lexeme)
    OBVIOUS
  <1>2. /\ Len(a) \in Nat /\ Len(b) \in Nat /\ Len(c) \in Nat
        /\ Len(a \o b) = Len(a) + Len(b) /\ Len(b \o c) = Len(b) + Len(c)
        /\ \A i \in 1..(Len(a) + Len(b)) :
              (a \o b)[i] = IF i <= Len(a) THEN a[i] ELSE b[i - Len(a)]
        /\ \A i \in 1..(Len(b) + Len(c)) :
              (b \o c)[i] = IF i <= Len(b) THEN b[i] ELSE c[i - Len(b)]
    OBVIOUS
  <1>3. (a \o b) \o c = a \o (b \o c)
    OBVIOUS
  <1>4. a \o <<>> = a
    OBVIOUS
  <1> QED
    BY <1>1, <1>2, <1>3, <1>4

\* Two lists are the same if their strings are.
LEMMA SameStrings ==
    ASSUME NEW s \in Strings, NEW t \in Strings, Len(s) = Len(t),
           \A i \in 1..Len(s) : s[i] = t[i]
    PROVE  s = t
  BY SMTT(30) DEF Strings

LEMMA AppendSeq ==
    ASSUME NEW s \in Strings, NEW t \in Seq(Lexeme)
    PROVE  /\ Append(s, t) \in Strings /\ Len(Append(s, t)) = Len(s) + 1
           /\ Append(s, t)[Len(s) + 1] = t
           /\ \A i \in 1..Len(s) : Append(s, t)[i] = s[i]
  BY DEF Strings

\* To extend twice is to extend by both.
LEMMA ExtendTwice ==
    ASSUME NEW s \in Strings, NEW t \in Seq(Lexeme), NEW u \in Seq(Lexeme), Len(s) > 0
    PROVE  Extend(Extend(s, t), u) = Extend(s, t \o u)
  <1> DEFINE e == Extend(s, t)
             a == Extend(e, u)
             b == Extend(s, t \o u)
             n == Len(s)
  <1>1. s \in Seq(Seq(Lexeme)) /\ n \in Nat /\ n > 0 /\ s[n] \in Seq(Lexeme)
        /\ t \o u \in Seq(Lexeme)
    BY ConcatSeq DEF Strings
  <1>2. e \in Strings /\ Len(e) = n /\ e[n] = s[n] \o t /\ \A i \in 1..(n - 1) : e[i] = s[i]
    BY <1>1, ExtendSeq DEF Strings
  <1> HIDE DEF e
  <1>3. a \in Strings /\ Len(a) = n /\ a[n] = e[n] \o u /\ \A i \in 1..(n - 1) : a[i] = e[i]
    <2>1. Len(e) > 0 /\ Len(e) = n /\ e \in Seq(Seq(Lexeme))
      BY <1>1, <1>2 DEF Strings
    <2>2. a \in Strings /\ Len(a) = Len(e) /\ a[Len(e)] = e[Len(e)] \o u
          /\ \A i \in 1..(Len(e) - 1) : a[i] = e[i]
      BY <2>1, ExtendSeq DEF Strings
    <2> HIDE DEF a, n
    <2> QED
      BY <1>2, <2>1, <2>2
  <1>4. b \in Strings /\ Len(b) = n /\ b[n] = s[n] \o (t \o u)
        /\ \A i \in 1..(n - 1) : b[i] = s[i]
    BY <1>1, ExtendSeq DEF Strings
  <1> HIDE DEF a, b
  <1>5. a[n] = b[n]
    <2>1. (s[n] \o t) \o u = s[n] \o (t \o u)
      <3> DEFINE x == s[n]
      <3>1. x \in Seq(Lexeme)
        BY <1>1
      <3> HIDE DEF x
      <3>2. (x \o t) \o u = x \o (t \o u)
        BY <3>1, ConcatSeq, SMTT(30)
      <3> QED
        BY <3>2 DEF x
    <2> QED
      BY <1>2, <1>3, <1>4, <2>1
  <1>6. \A i \in 1..n : a[i] = b[i]
    <2> SUFFICES ASSUME NEW i \in 1..n PROVE a[i] = b[i]
      OBVIOUS
    <2>1. CASE i = n
      BY <1>5, <2>1
    <2>2. CASE i # n
      <3>1. i \in 1..(n - 1)
        BY <1>1, <2>2
      <3> QED
        BY <1>2, <1>3, <1>4, <3>1
    <2> QED
      BY <2>1, <2>2
  <1>7. a = b
    BY <1>3, <1>4, <1>6, SameStrings
  <1> QED
    BY <1>7 DEF a, b, e

\* A string that was just added may be extended at once.
LEMMA ExtendAdded ==
    ASSUME NEW s \in Strings, NEW t \in Seq(Lexeme), NEW u \in Seq(Lexeme)
    PROVE  Extend(Append(s, t), u) = Append(s, t \o u)
  <1> DEFINE e == Append(s, t)
             a == Extend(e, u)
             b == Append(s, t \o u)
             n == Len(s)
  <1>1. n \in Nat /\ t \o u \in Seq(Lexeme)
    BY ConcatSeq DEF Strings
  <1>2. e \in Strings /\ Len(e) = n + 1 /\ e[n + 1] = t /\ \A i \in 1..n : e[i] = s[i]
    BY AppendSeq
  <1> HIDE DEF e
  <1>3. a \in Strings /\ Len(a) = n + 1 /\ a[n + 1] = e[n + 1] \o u
        /\ \A i \in 1..n : a[i] = e[i]
    <2>1. Len(e) > 0 /\ Len(e) - 1 = n /\ e \in Seq(Seq(Lexeme))
      BY <1>1, <1>2 DEF Strings
    <2>2. a \in Strings /\ Len(a) = Len(e) /\ a[Len(e)] = e[Len(e)] \o u
          /\ \A i \in 1..(Len(e) - 1) : a[i] = e[i]
      BY <2>1, ExtendSeq DEF Strings
    <2> HIDE DEF a
    <2> QED
      BY <1>2, <2>1, <2>2
  <1>4. b \in Strings /\ Len(b) = n + 1 /\ b[n + 1] = t \o u /\ \A i \in 1..n : b[i] = s[i]
    BY <1>1, AppendSeq
  <1> HIDE DEF a, b
  <1>6. \A i \in 1..(n + 1) : a[i] = b[i]
    <2> SUFFICES ASSUME NEW i \in 1..(n + 1) PROVE a[i] = b[i]
      OBVIOUS
    <2>1. CASE i = n + 1
      BY <1>2, <1>3, <1>4, <2>1
    <2>2. CASE i # n + 1
      <3>1. i \in 1..n
        BY <1>1, <2>2
      <3> QED
        BY <1>2, <1>3, <1>4, <3>1
    <2> QED
      BY <2>1, <2>2
  <1>7. a = b
    BY <1>3, <1>4, <1>6, SameStrings
  <1> QED
    BY <1>7 DEF a, b, e

\* Nothing is added by no bytes.
LEMMA ExtendNothing ==
    ASSUME NEW s \in Strings PROVE Extend(s, <<>>) = s
  <1> DEFINE e == Extend(s, <<>>)
             n == Len(s)
  <1>1. n \in Nat /\ <<>> \in Seq(Lexeme) /\ s \in Seq(Seq(Lexeme))
    BY DEF Strings
  <1>2. e \in Strings /\ Len(e) = n /\ (n > 0 => e[n] = s[n] \o <<>>)
        /\ \A i \in 1..(n - 1) : e[i] = s[i]
    BY <1>1, ExtendSeq DEF Strings
  <1> HIDE DEF e
  <1>3. \A i \in 1..n : e[i] = s[i]
    <2> SUFFICES ASSUME NEW i \in 1..n PROVE e[i] = s[i]
      OBVIOUS
    <2>1. CASE i = n
      <3>1. s[n] \in Seq(Lexeme)
        BY <1>1, <2>1
      <3>2. s[n] \o <<>> = s[n]
        BY <3>1
      <3> QED
        BY <1>1, <1>2, <2>1, <3>2
    <2>2. CASE i # n
      <3>1. i \in 1..(n - 1)
        BY <1>1, <2>2
      <3> QED
        BY <1>2, <3>1
    <2> QED
      BY <2>1, <2>2
  <1>4. e = s
    BY <1>2, <1>3, SameStrings
  <1> QED
    BY <1>4 DEF e

\* The list with a string added, and extended.
LEMMA AddMore ==
    ASSUME NEW s \in Strings, NEW new \in BOOLEAN, NEW t \in Seq(Lexeme), NEW u \in Seq(Lexeme),
           new \/ Len(s) > 0
    PROVE  /\ Add(s, new, t) \in Strings
           /\ Len(Add(s, new, t)) = IF new THEN Len(s) + 1 ELSE Len(s)
           /\ Extend(Add(s, new, t), u) = Add(s, new, t \o u)
  <1>1. CASE new
    BY <1>1, AppendSeq, ExtendAdded DEF Add
  <1>2. CASE ~new
    <2>1. Extend(s, t) \in Strings /\ Len(Extend(s, t)) = Len(s)
      BY ExtendSeq DEF Strings
    <2> QED
      BY <1>2, <2>1, ExtendTwice DEF Add
  <1> QED
    BY <1>1, <1>2

-----------------------------------------------------------------------------
(* The strings that are open *)

\* The bytes of a string that call c has read into d and not delivered
Open(c, d, f) ==
    IF c.mark[f] = 0 THEN <<>>
    ELSE [i \in 1..(c.pos + 1 - c.mark[f]) |->
             IF c.mark[f] - 1 + i <= Len(d) THEN d[c.mark[f] - 1 + i] ELSE Any]

\* The marks of a call are behind the next byte
MarksPassed(c) ==
    /\ c.pos \in Nat
    /\ \A f \in DataCb : c.mark[f] \in Nat /\ c.mark[f] <= c.pos + 1

\* data ends with the byte under the switch, or before the next one
Buffered ==
    /\ Len(data) = IF call.cur = NoByte THEN call.pos ELSE call.pos + 1
    /\ call.cur # NoByte => data[call.pos + 1] = call.cur

\* A byte stays under the switch, is fetched, or the bytes up to it are passed over
Cursor ==
    call'.cur # NoByte =>
        \/ call'.pos > call.pos
        \/ call'.pos = call.pos /\ call.cur \in {NoByte, call'.cur}

\* The offsets of a call.
LEMMA CallFacts ==
    ASSUME NEW p, NEW c, StateInv(p, c)
    PROVE  /\ c \in CallLike /\ MarksPassed(c) /\ c.cur \in Lexeme \cup {NoByte}
           /\ ~c.active => c = NoCall
           /\ NoCall.pos = 0 /\ NoCall.cur = NoByte /\ \A f \in DataCb : NoCall.mark[f] = 0
  <1>1. c \in Call /\ (c.active => Offsets(c)) /\ (~c.active => c = NoCall)
    BY DEF StateInv
  <1>2. c \in CallLike
    <2>1. 0..MaxLen \subseteq Nat
      BY MaxLenAssumption
    <2> QED
      BY <1>1, <2>1 DEF Call, CallLike
  <1>3. NoCall.pos = 0 /\ NoCall.cur = NoByte /\ \A f \in DataCb : NoCall.mark[f] = 0
    BY DEF NoCall, NoMark
  <1>4. \A f \in DataCb : c.mark[f] \in Nat /\ c.mark[f] <= c.pos + 1
    <2>1. CASE c.active
      BY <1>1, <1>2, <2>1 DEF Offsets, CallLike
    <2>2. CASE ~c.active
      BY <1>1, <1>2, <1>3, <2>2 DEF CallLike
    <2> QED
      BY <2>1, <2>2
  <1> QED
    BY <1>1, <1>2, <1>3, <1>4 DEF CallLike, MarksPassed

LEMMA BothCalls ==
    ASSUME PInv, PInv'
    PROVE  /\ MarksPassed(call) /\ MarksPassed(call') /\ call.pos \in Nat /\ call'.pos \in Nat
           /\ call.cur \in Lexeme \cup {NoByte} /\ call'.cur \in Lexeme \cup {NoByte}
           /\ call \in CallLike /\ call' \in CallLike
  <1>1. StateInv(parser, call) /\ StateInv(parser', call')
    BY DEF PInv, IInv
  <1> QED
    BY <1>1, CallFacts DEF MarksPassed

LEMMA AnyLexeme == Any \in Lexeme
  BY DEF Any, Lexeme, Class

\* What is open is of the alphabet, and made of the bytes that were read.
LEMMA OpenType ==
    ASSUME NEW c, MarksPassed(c), NEW d \in Seq(Lexeme), NEW f \in DataCb
    PROVE  LET n == c.pos + 1 - c.mark[f]
           IN  /\ Open(c, d, f) \in Seq(Lexeme)
               /\ c.mark[f] = 0 => Open(c, d, f) = <<>>
               /\ c.mark[f] # 0 =>
                     /\ n \in Nat /\ Len(Open(c, d, f)) = n
                     /\ \A i \in 1..n :
                           Open(c, d, f)[i] = IF c.mark[f] - 1 + i <= Len(d)
                                              THEN d[c.mark[f] - 1 + i] ELSE Any
  <1> DEFINE m == c.mark[f]
             n == c.pos + 1 - m
             s(i) == IF m - 1 + i <= Len(d) THEN d[m - 1 + i] ELSE Any
  <1>1. CASE m = 0
    BY <1>1 DEF Open
  <1>2. CASE m # 0
    <2>1. m \in Nat /\ n \in Nat /\ m >= 1
      BY <1>2 DEF MarksPassed
    <2>2. \A i \in 1..n : s(i) \in Lexeme
      BY <2>1, AnyLexeme
    <2>3. Open(c, d, f) = [i \in 1..n |-> s(i)]
      BY <1>2 DEF Open
    <2> HIDE DEF n, s
    <2>4. /\ Open(c, d, f) \in Seq(Lexeme) /\ Len(Open(c, d, f)) = n
          /\ \A i \in 1..n : Open(c, d, f)[i] = s(i)
      BY <2>1, <2>2, <2>3
    <2> QED
      BY <1>2, <2>1, <2>4 DEF n, s
  <1> QED
    BY <1>1, <1>2

\* What data becomes.
LEMMA ReadFacts ==
    ASSUME PInv, PInv', DataOK, Read, Buffered
    PROVE  LET n == IF call'.cur = NoByte THEN call'.pos ELSE call'.pos + 1
           IN  /\ DataOK' /\ Len(data') = n /\ n \in Nat
               /\ \A i \in 1..n : data'[i] = IF i <= Len(data) THEN data[i]
                                             ELSE IF i = call'.pos + 1 THEN call'.cur ELSE Any
               /\ Cursor => Buffered'
  <1> DEFINE n == IF call'.cur = NoByte THEN call'.pos ELSE call'.pos + 1
             s(i) == IF i <= Len(data) THEN data[i]
                     ELSE IF i = call'.pos + 1 THEN call'.cur ELSE Any
  <1>1. /\ call'.pos \in Nat /\ call.pos \in Nat /\ call'.cur \in Lexeme \cup {NoByte}
    BY BothCalls
  <1>2. n \in Nat
    BY <1>1
  <1>3. data' = [i \in 1..n |-> s(i)]
    BY DEF Read
  <1>4. DataOK'
    BY ReadType
  <1>5. Len(data') = n /\ \A i \in 1..n : data'[i] = s(i)
    <2>1. DOMAIN data' = 1..n
      BY <1>3
    <2>2. DOMAIN data' = 1..Len(data') /\ Len(data') \in Nat
      BY <1>4 DEF DataOK
    <2> HIDE DEF n
    <2>3. Len(data') = n
      BY <1>2, <2>1, <2>2
    <2> QED
      BY <1>3, <2>3
  <1>6. ASSUME Cursor PROVE Buffered'
    <2>1. CASE call'.cur = NoByte
      BY <1>5, <2>1 DEF Buffered
    <2>2. CASE call'.cur # NoByte
      <3>1. n = call'.pos + 1 /\ n \in 1..n
        BY <1>1, <2>2
      <3>2. data'[n] = s(n)
        BY <1>5, <3>1
      <3>3. s(n) = call'.cur
        <4>1. CASE call'.pos > call.pos \/ call.cur = NoByte
          <5>1. call'.pos > call.pos \/ call'.pos = call.pos
            BY <1>6, <2>2 DEF Cursor
          <5>2. ~(n <= Len(data))
            BY <1>1, <3>1, <4>1, <5>1 DEF Buffered
          <5> QED
            BY <3>1, <5>2
        <4>2. CASE call.cur # NoByte /\ ~(call'.pos > call.pos)
          <5>1. call'.pos = call.pos /\ call'.cur = call.cur
            BY <1>6, <2>2, <4>2 DEF Cursor
          <5> QED
            BY <1>1, <3>1, <4>2, <5>1 DEF Buffered
        <4> QED
          BY <4>1, <4>2
      <3> HIDE DEF s
      <3> QED
        BY <1>5, <2>2, <3>1, <3>2, <3>3 DEF Buffered
    <2> QED
      BY <2>1, <2>2
  <1> QED
    BY <1>2, <1>4, <1>5, <1>6

\* A string stays as it is when no byte is passed.
LEMMA OpenKept ==
    ASSUME PInv, PInv', DataOK, Read, Buffered, NEW f \in DataCb,
           call'.mark[f] = call.mark[f], call.mark[f] # 0 => call'.pos = call.pos
    PROVE  Open(call', data', f) = Open(call, data, f)
  <1> DEFINE m == call.mark[f]
             n == call.pos + 1 - m
  <1>1. CASE m = 0
    BY <1>1 DEF Open
  <1>2. CASE m # 0
    <2>1. m \in Nat /\ m >= 1 /\ n \in Nat /\ call.pos \in Nat
      BY <1>2, BothCalls DEF MarksPassed
    <2>2. \A i \in 1..n : m - 1 + i <= call.pos /\ m - 1 + i >= 1 /\ m - 1 + i \in Int
      BY <2>1
    <2>3. /\ Len(data) >= call.pos /\ Len(data) \in Nat
          /\ Len(data') >= call.pos /\ Len(data') \in Nat
          /\ \A j \in 1..call.pos : data'[j] = data[j]
      <3>1. call'.pos = call.pos
        BY <1>2
      <3>2. Len(data) >= call.pos /\ Len(data) \in Nat
        BY <2>1 DEF Buffered
      <3>3. Len(data') >= call.pos /\ Len(data') \in Nat
        BY <2>1, <3>1, ReadFacts
      <3>4. \A j \in 1..call.pos : data'[j] = data[j]
        <4> SUFFICES ASSUME NEW j \in 1..call.pos PROVE data'[j] = data[j]
          OBVIOUS
        <4>1. j \in 1..Len(data') /\ j <= Len(data)
          BY <2>1, <3>2, <3>3
        <4> QED
          BY <4>1, ReadFacts
      <3> QED
        BY <3>2, <3>3, <3>4
    <2>4. Open(call, data, f) = [i \in 1..n |-> IF m - 1 + i <= Len(data) THEN data[m - 1 + i] ELSE Any]
      BY <1>2 DEF Open
    <2>5. Open(call', data', f) = [i \in 1..n |-> IF m - 1 + i <= Len(data') THEN data'[m - 1 + i] ELSE Any]
      BY <1>2 DEF Open
    <2> HIDE DEF n, m
    <2>6. \A i \in 1..n : data'[m - 1 + i] = data[m - 1 + i]
      BY <2>2, <2>3
    <2>7. \A i \in 1..n : m - 1 + i <= Len(data) /\ m - 1 + i <= Len(data')
      BY <2>1, <2>2, <2>3
    <2> QED
      BY <2>4, <2>5, <2>6, <2>7
  <1> QED
    BY <1>1, <1>2

\* The bytes of n steps over a string: the one under the switch, and those not looked at
Skipped(n) == [i \in 1..(n - 1) |-> Any]

\* A string grows by the bytes that are passed.
LEMMA OpenGrows ==
    ASSUME PInv, PInv', DataOK, Read, Buffered, NEW f \in DataCb, call.cur # NoByte,
           NEW k \in Nat \ {0}, call'.pos = call.pos + k,
           call'.mark[f] = IF call.mark[f] = 0 THEN call.pos + 1 ELSE call.mark[f]
    PROVE  /\ Open(call', data', f) = Open(call, data, f) \o (<<call.cur>> \o Skipped(k))
           /\ <<call.cur>> \in Seq(Lexeme) /\ Skipped(k) \in Seq(Lexeme)
  <1> DEFINE m == call'.mark[f]
             n == call.pos + 1 - m
             t == <<call.cur>> \o Skipped(k)
             a == Open(call', data', f) 
             b == Open(call, data, f) \o t
             j == k - 1
  <1>1. /\ call.pos \in Nat /\ m \in Nat /\ m >= 1 /\ m <= call.pos + 1 /\ n \in Nat
        /\ call.cur \in Lexeme /\ Any \in Lexeme /\ call.mark[f] \in Nat
    BY BothCalls, AnyLexeme DEF MarksPassed
  <1>2. /\ Open(call, data, f) \in Seq(Lexeme) /\ Len(Open(call, data, f)) = n
        /\ \A i \in 1..n : Open(call, data, f)[i] = data[m - 1 + i]
    <2>1. CASE call.mark[f] = 0
      <3>1. Open(call, data, f) = <<>>
        BY <2>1 DEF Open
      <3>2. n = 0
        BY <1>1, <2>1
      <3> HIDE DEF n, m
      <3> QED
        BY <3>1, <3>2
    <2>2. CASE call.mark[f] # 0
      <3>0. m = call.mark[f] /\ n = call.pos + 1 - call.mark[f]
        BY <2>2
      <3>1. \A i \in 1..n : m - 1 + i <= Len(data)
        BY <1>1 DEF Buffered
      <3> HIDE DEF n, m
      <3>2. /\ Open(call, data, f) \in Seq(Lexeme) /\ Len(Open(call, data, f)) = n
            /\ \A i \in 1..n : Open(call, data, f)[i] =
                     IF m - 1 + i <= Len(data) THEN data[m - 1 + i] ELSE Any
        BY <2>2, <3>0, OpenType, BothCalls DEF DataOK
      <3> QED
        BY <3>1, <3>2
    <2> QED
      BY <2>1, <2>2
  <1>3. /\ <<call.cur>> \in Seq(Lexeme) /\ Len(<<call.cur>>) = 1 /\ <<call.cur>>[1] = call.cur
    BY <1>1
  <1>4. /\ Skipped(k) \in Seq(Lexeme) /\ Len(Skipped(k)) = j
        /\ \A i \in 1..j : Skipped(k)[i] = Any
    <2>1. j \in Nat /\ Skipped(k) = [i \in 1..j |-> Any]
      BY DEF Skipped
    <2> HIDE DEF j
    <2> QED
      BY <1>1, <2>1
  <1>5. /\ t \in Seq(Lexeme) /\ Len(t) = k
        /\ \A i \in 1..k : t[i] = IF i = 1 THEN call.cur ELSE Any
    <2>1. /\ t \in Seq(Lexeme) /\ Len(t) = 1 + j
          /\ \A i \in 1..(1 + j) : t[i] = IF i <= 1 THEN <<call.cur>>[i] ELSE Skipped(k)[i - 1]
      BY <1>3, <1>4, ConcatSeq
    <2> HIDE DEF t
    <2>2. ASSUME NEW i \in 1..k PROVE t[i] = IF i = 1 THEN call.cur ELSE Any
      <3>1. i \in 1..(1 + j) /\ (i # 1 => i - 1 \in 1..j)
        OBVIOUS
      <3> QED
        BY <1>3, <1>4, <2>1, <3>1
    <2> QED
      BY <2>1, <2>2
  <1> HIDE DEF t
  <1>6. /\ b \in Seq(Lexeme) /\ Len(b) = n + k
        /\ \A i \in 1..(n + k) : b[i] = IF i <= n THEN data[m - 1 + i]
                                        ELSE IF i = n + 1 THEN call.cur ELSE Any
    <2>1. /\ b \in Seq(Lexeme) /\ Len(b) = n + k
          /\ \A i \in 1..(n + k) : b[i] = IF i <= n THEN Open(call, data, f)[i] ELSE t[i - n]
      <3> HIDE DEF n, m
      <3> QED
        BY <1>2, <1>5, ConcatSeq
    <2> HIDE DEF b
    <2>2. ASSUME NEW i \in 1..(n + k)
          PROVE  b[i] = IF i <= n THEN data[m - 1 + i] ELSE IF i = n + 1 THEN call.cur ELSE Any
      <3>1. CASE i <= n
        <4>1. i \in 1..n
          BY <1>1, <3>1
        <4> QED
          BY <1>2, <2>1, <3>1, <4>1
      <3>2. CASE ~(i <= n)
        <4>1. i - n \in 1..k /\ (i - n = 1 <=> i = n + 1)
          BY <1>1, <3>2
        <4>2. b[i] = t[i - n]
          BY <2>1, <3>2
        <4> QED
          BY <1>5, <3>2, <4>1, <4>2
      <3> QED
        BY <3>1, <3>2
    <2> QED
      BY <2>1, <2>2
  <1>7. /\ a \in Seq(Lexeme) /\ Len(a) = n + k
        /\ \A i \in 1..(n + k) : a[i] = IF i <= n THEN data[m - 1 + i]
                                        ELSE IF i = n + 1 THEN call.cur ELSE Any
    <2>1. call'.pos + 1 - m = n + k /\ m # 0
      BY <1>1
    <2>2. DataOK'
      BY ReadFacts
    <2>3. /\ a \in Seq(Lexeme) /\ Len(a) = n + k
          /\ \A i \in 1..(n + k) : a[i] = IF m - 1 + i <= Len(data') THEN data'[m - 1 + i]
                                                                     ELSE Any
      <3>1. MarksPassed(call') /\ data' \in Seq(Lexeme)
        BY <2>2, BothCalls DEF DataOK
      <3> QED
        BY <2>1, <3>1, OpenType
    <2> HIDE DEF a
    <2>4. /\ Len(data) = call.pos + 1 /\ Len(data') >= call.pos + k /\ Len(data') \in Nat
          /\ data[call.pos + 1] = call.cur
          /\ \A i \in 1..(call.pos + k) :
                data'[i] = IF i <= call.pos + 1 THEN data[i] ELSE Any
      <3>1. Len(data) = call.pos + 1 /\ data[call.pos + 1] = call.cur
        BY DEF Buffered
      <3>2. /\ Len(data') \in Nat /\ Len(data') \in {call'.pos, call'.pos + 1}
            /\ \A i \in 1..Len(data') : data'[i] = IF i <= Len(data) THEN data[i]
                                                   ELSE IF i = call'.pos + 1 THEN call'.cur
                                                   ELSE Any
        BY ReadFacts
      <3>3. call'.pos = call.pos + k /\ call.pos \in Nat
        BY <1>1
      <3>4. Len(data') >= call.pos + k
        BY <3>2, <3>3
      <3>5. ASSUME NEW i \in 1..(call.pos + k)
            PROVE  data'[i] = IF i <= call.pos + 1 THEN data[i] ELSE Any
        <4>1. i \in 1..Len(data') /\ i # call'.pos + 1
          BY <3>2, <3>3, <3>4
        <4> QED
          BY <3>1, <3>2, <4>1
      <3> QED
        BY <3>1, <3>2, <3>4, <3>5
    <2>5. ASSUME NEW i \in 1..(n + k)
          PROVE  a[i] = IF i <= n THEN data[m - 1 + i] ELSE IF i = n + 1 THEN call.cur ELSE Any
      <3>1. m - 1 + i \in 1..(call.pos + k)
        BY <1>1
      <3>2. a[i] = data'[m - 1 + i]
        <4> DEFINE j0 == m - 1 + i
        <4>1. j0 <= Len(data')
          <5>1. j0 \in 1..(call.pos + k) /\ call.pos \in Nat
            BY <1>1, <3>1
          <5> HIDE DEF j0
          <5> QED
            BY <2>4, <5>1
        <4> HIDE DEF n, m
        <4> QED
          BY <2>3, <4>1
      <3>3. (m - 1 + i <= call.pos + 1 <=> i <= n + 1) /\ (i = n + 1 => m - 1 + i = call.pos + 1)
        BY <1>1
      <3>4. a[i] = IF i <= n + 1 THEN data[m - 1 + i] ELSE Any
        BY <2>4, <3>1, <3>2, <3>3
      <3>5. i <= n + 1 <=> i <= n \/ i = n + 1
        BY <1>1
      <3> QED
        BY <2>4, <3>3, <3>4, <3>5
    <2> QED
      BY <2>3, <2>5
  <1> HIDE DEF a, b, n
  <1>8. a = b
    <2>1. \A i \in 1..(n + k) : a[i] = b[i]
      BY <1>6, <1>7
    <2> QED
      BY <1>6, <1>7, <2>1
  <1> QED
    BY <1>3, <1>4, <1>8 DEF a, b, t

-----------------------------------------------------------------------------
(* The strings of the response *)

Names == Texts(res.header_fields)
Values == Texts(res.header_values)

\* Every name has its value, but the one that is still being told
Counts ==
    /\ Len(res.header_fields)
          = res.headers_count + (IF res.concat_header_field THEN 1 ELSE 0)
    /\ Len(res.header_values) = res.headers_count

LEMMA TextsType ==
    ASSUME NEW a \in Seq(Block)
    PROVE  /\ Texts(a) \in Strings /\ Len(Texts(a)) = Len(a) /\ Len(a) \in Nat
           /\ \A i \in 1..Len(a) : Texts(a)[i] = a[i].text /\ a[i].text \in Seq(Lexeme)
  <1> DEFINE n == Len(a)
             s(i) == a[i].text
  <1>0. a \in [1..n -> Block] /\ n \in Nat
    OBVIOUS
  <1>1. n \in Nat /\ \A i \in 1..n : s(i) \in Seq(Lexeme)
    <2> HIDE DEF n
    <2> QED
      BY <1>0 DEF Block
  <1>2. Texts(a) = [i \in 1..n |-> s(i)]
    BY DEF Texts
  <1> HIDE DEF n, s
  <1>3. Texts(a) \in Seq(Seq(Lexeme)) /\ Len(Texts(a)) = n /\ \A i \in 1..n : Texts(a)[i] = s(i)
    BY <1>1, <1>2
  <1> QED
    BY <1>1, <1>3 DEF n, s, Strings

\* The text that is stored last is added to the strings.
LEMMA TextsAdd ==
    ASSUME NEW a \in Seq(Block), NEW b \in Seq(Block), NEW new \in BOOLEAN,
           NEW t \in Seq(Lexeme), NEW n \in Nat, n > 0, Len(b) = n,
           Len(a) = IF new THEN n - 1 ELSE n,
           \A j \in 1..(n - 1) : b[j] = a[j],
           b[n].text = IF new THEN t ELSE a[n].text \o t
    PROVE  Texts(b) = Add(Texts(a), new, t)
  <1> DEFINE x == Texts(a)
             y == Texts(b)
             z == Add(x, new, t)
  <1>1. /\ x \in Strings /\ Len(x) = Len(a) /\ \A i \in 1..Len(a) : x[i] = a[i].text
        /\ y \in Strings /\ Len(y) = n /\ \A i \in 1..n : y[i] = b[i].text
    BY TextsType
  <1>2. \A j \in 1..(n - 1) : j \in 1..Len(a) /\ j \in 1..n
    OBVIOUS
  <1> HIDE DEF x, y
  <1>3. /\ z \in Strings /\ Len(z) = n /\ z[n] = (IF new THEN t ELSE x[n] \o t)
        /\ \A j \in 1..(n - 1) : z[j] = x[j]
    <2>1. CASE new
      <3>1. Len(x) + 1 = n
        BY <1>1, <2>1
      <3>2. /\ z \in Strings /\ Len(z) = Len(x) + 1 /\ z[Len(x) + 1] = t
            /\ \A i \in 1..Len(x) : z[i] = x[i]
        BY <1>1, <2>1, AppendSeq DEF Add
      <3>3. \A j \in 1..(n - 1) : j \in 1..Len(x)
        BY <3>1
      <3> HIDE DEF z
      <3> QED
        BY <2>1, <3>1, <3>2, <3>3
    <2>2. CASE ~new
      <3>1. Len(x) = n /\ x \in Seq(Seq(Lexeme))
        BY <1>1, <2>2 DEF Strings
      <3>2. /\ z \in Strings /\ Len(z) = Len(x) /\ (Len(x) > 0 => z[Len(x)] = x[Len(x)] \o t)
            /\ \A i \in 1..(Len(x) - 1) : z[i] = x[i]
        BY <2>2, <3>1, ExtendSeq DEF Add, Strings
      <3> HIDE DEF z
      <3> QED
        BY <2>2, <3>1, <3>2
    <2> QED
      BY <2>1, <2>2
  <1> HIDE DEF z
  <1>4. \A i \in 1..n : y[i] = z[i]
    <2> SUFFICES ASSUME NEW i \in 1..n PROVE y[i] = z[i]
      OBVIOUS
    <2>1. CASE i = n
      <3>1. ~new => x[n] = a[n].text
        BY <1>1
      <3> QED
        BY <1>1, <1>3, <2>1, <3>1
    <2>2. CASE i # n
      <3>1. i \in 1..(n - 1)
        BY <2>2
      <3> QED
        BY <1>1, <1>2, <1>3, <3>1
    <2> QED
      BY <2>1, <2>2
  <1>5. y = z
    BY <1>1, <1>3, <1>4, SameStrings
  <1> QED
    BY <1>5 DEF x, y, z

\* A name, or more of it.
LEMMA FieldTold ==
    ASSUME ResInv(res), Counts, NEW text \in Seq(Lexeme), SetHeaderField(text, 0)
    PROVE  /\ Names' = Add(Names, ~res.concat_header_field, text) /\ Values' = Values
           /\ res'.concat_header_field /\ Counts'
  <1> DEFINE c == res.headers_count
             i == c + 1
             a == res.header_fields
             b == res'.header_fields
             new == ~res.concat_header_field
  <1>1. /\ ResInv(res') /\ res'.headers_count = c /\ res'.header_values = res.header_values
        /\ \A j \in 1..c : b[j] = a[j]
        /\ res'.concat_header_field
        /\ b[i].text = IF res.concat_header_field THEN a[i].text \o text ELSE text
    BY SetHeaderFieldHandled
  <1>2. /\ c \in Nat /\ a \in Seq(Block) /\ b \in Seq(Block) /\ new \in BOOLEAN
        /\ Len(b) = i
    BY <1>1, HeadersAssumption DEF ResInv, ResponseType, Shape
  <1>3. Len(a) = IF new THEN i - 1 ELSE i
    <2>1. CASE new
      BY <1>2, <2>1 DEF Counts
    <2>2. CASE ~new
      BY <1>2, <2>2 DEF Counts
    <2> QED
      BY <2>1, <2>2
  <1>4. Texts(b) = Add(Texts(a), new, text)
    <2>1. i \in Nat /\ i > 0 /\ i - 1 = c
      BY <1>2
    <2>2. b[i].text = IF new THEN text ELSE a[i].text \o text
      BY <1>1
    <2> HIDE DEF a, b, new, i, c
    <2> QED
      BY <1>1, <1>2, <1>3, <2>1, <2>2, TextsAdd
  <1> QED
    BY <1>1, <1>2, <1>4 DEF Names, Values, Counts

\* A value, or more of it.
LEMMA ValueTold ==
    ASSUME ResInv(res), Counts, NEW text \in Seq(Lexeme), SetHeaderValue(text, 0),
           res.concat_header_field \/ res.concat_header_value
    PROVE  /\ Values' = Add(Values, res.concat_header_field, text) /\ Names' = Names
           /\ ~res'.concat_header_field /\ Counts'
  <1> DEFINE i == res'.headers_count
             a == res.header_values
             b == res'.header_values
             new == res.concat_header_field
  <1>1. /\ ResInv(res') /\ res'.header_fields = res.header_fields
        /\ ~res'.concat_header_field
        /\ i = (IF res.concat_header_value THEN res.headers_count ELSE res.headers_count + 1)
        /\ i \in 1..Len(b)
        /\ Len(b) = (IF res.concat_header_value THEN Len(a) ELSE i)
        /\ b[i].text = (IF res.concat_header_value THEN a[i].text \o text ELSE text)
        /\ \A j \in 1..(i - 1) : b[j] = a[j]
    BY SetHeaderValueHandled
  <1>2. /\ res.headers_count \in Nat /\ a \in Seq(Block) /\ b \in Seq(Block)
        /\ new \in BOOLEAN /\ (res.concat_header_value <=> ~new)
    BY <1>1, HeadersAssumption DEF ResInv, ResponseType, Shape
  <1>3. /\ i \in Nat /\ i > 0 /\ Len(b) = i /\ Len(a) = IF new THEN i - 1 ELSE i
    <2>1. Len(a) = res.headers_count
      BY DEF Counts
    <2> HIDE DEF a, b, i
    <2>2. CASE new
      BY <1>1, <1>2, <2>1, <2>2
    <2>3. CASE ~new
      BY <1>1, <1>2, <2>1, <2>3
    <2> QED
      BY <2>2, <2>3
  <1>4. Texts(b) = Add(Texts(a), new, text)
    <2>2. b[i].text = IF new THEN text ELSE a[i].text \o text
      BY <1>1, <1>2
    <2>3. /\ a \in Seq(Block) /\ b \in Seq(Block) /\ new \in BOOLEAN
          /\ \A j \in 1..(i - 1) : b[j] = a[j]
      BY <1>1, <1>2
    <2> HIDE DEF a, b, new, i
    <2> QED
      BY <1>3, <2>2, <2>3, TextsAdd
  <1>5. Len(res'.header_fields) = i
    <2>1. Len(res.header_fields) = res.headers_count + (IF new THEN 1 ELSE 0)
      BY DEF Counts
    <2> HIDE DEF i, new
    <2> QED
      BY <1>1, <1>2, <2>1
  <1> QED
    BY <1>1, <1>3, <1>4, <1>5 DEF Names, Values, Counts

\* The other callbacks leave the headers alone.
LEMMA HeadersLeft ==
    ASSUME RInv, PInv', Protocol!Next, Respond, cb'.for \notin {"header_field", "header_value"}
    PROVE  SameHeaders
  <1>1. /\ cb' \in CallbackRecord /\ cb'.n \in Nat /\ parser'.status_code \in Nat
        /\ Slice \in Seq(Lexeme) /\ ResInv(res)
    <2>1. cb' \in CallbackRecord /\ parser' \in Parser
      BY DEF PInv, IInv, StateInv, ParserInv
    <2> QED
      BY <2>1, SliceType DEF RInv, CallbackRecord, Parser
  <1>2. CASE cb'.for = "none"
    BY <1>2 DEF Respond, SameHeaders
  <1>3. CASE cb'.for = "status"
    BY <1>1, <1>3, SetStatusHandled DEF Respond
  <1>4. CASE cb'.for = "headers_complete"
    BY <1>1, <1>4, SetHeadersCompleteHandled DEF Respond
  <1>5. CASE cb'.for = "body"
    <2>1. cb'.n > 0
      BY <1>5 DEF NoCb, Protocol!Next, Protocol!MessageBegin, Protocol!Status,
         Protocol!HeaderField, Protocol!HeaderValue, Protocol!HeadersComplete,
         Protocol!ChunkHeader, Protocol!Body, Protocol!ChunkComplete,
         Protocol!MessageComplete, Protocol!Quiet, Protocol!Fail, Protocol!Calls
    <2>2. BodyCallback
      BY <1>5 DEF Respond
    <2> QED
      BY <1>1, <2>1, <2>2, BodyCallbackHandled
  <1>6. CASE cb'.for \notin {"none", "status", "headers_complete", "body"}
    BY <1>1, <1>6, PlainHandled DEF Respond
  <1> QED
    BY <1>2, <1>3, <1>4, <1>5, <1>6

-----------------------------------------------------------------------------
(* The strings that were sent *)

\* The values with t as a value of its own, or as more of the last
MoreValue(t) == Add(wire.values, Len(wire.values) < Len(wire.names), t)

NewName == parser.state = "s_header_field_start" /\ Token(call.cur)
MoreName == parser.state = "s_header_field" /\ Token(call.cur)

Newline == call.cur.c \in {"CR", "LF"}

ValueBegins ==
    \/ parser.state = "s_header_value_discard_ws" /\ ~Newline /\ ~IsLws(call.cur)
    \/ parser.state = "s_header_value_start"
ValueGoesOn == parser.state = "s_header_value" /\ ~Newline
ValueEmpty == parser.state = "s_header_value_discard_lws" /\ ~IsLws(call.cur)

\* A value that grows, and one that is new.
LEMMA ValueSentTexts ==
    ASSUME wire \in Wire, NEW t \in Seq(Lexeme)
    PROVE  /\ ValueSent(wire, t).names = wire.names
           /\ ValueSent(wire, t).values = MoreValue(t)
  <1>1. CASE Len(wire.values) < Len(wire.names)
    <2> DEFINE v == Append(wire.values, t)
    <2>1. ValueSent(wire, t) = [wire EXCEPT !.values = v]
      BY <1>1 DEF ValueSent
    <2> HIDE DEF v
    <2>2. ValueSent(wire, t).names = wire.names /\ ValueSent(wire, t).values = v
      BY <2>1 DEF Wire
    <2> QED
      BY <1>1, <2>2 DEF v, MoreValue, Add
  <1>2. CASE ~(Len(wire.values) < Len(wire.names))
    <2> DEFINE v == Extend(wire.values, t)
    <2>1. ValueSent(wire, t) = [wire EXCEPT !.values = v]
      BY <1>2 DEF ValueSent
    <2> HIDE DEF v
    <2>2. ValueSent(wire, t).names = wire.names /\ ValueSent(wire, t).values = v
      BY <2>1 DEF Wire
    <2> QED
      BY <1>2, <2>2 DEF v, MoreValue, Add
  <1> QED
    BY <1>1, <1>2

\* A line that continues a value adds to it as the other bytes do.
LEMMA FoldedTexts ==
    ASSUME wire \in Wire, NEW t \in Seq(Lexeme)
    PROVE  /\ Folded(wire, t).names = wire.names
           /\ Folded(wire, t).values = MoreValue(t)
  <1> DEFINE w == ValueSent(wire, t)
             f == w.folds \cup {wire.values}
  <1>1. w \in Wire /\ w.names = wire.names /\ w.values = MoreValue(t)
    BY ValueSentType, ValueSentTexts
  <1>2. Folded(wire, t) = [w EXCEPT !.folds = f]
    BY DEF Folded
  <1> HIDE DEF w, f
  <1> QED
    BY <1>1, <1>2 DEF Wire

\* The strings after the byte under the switch.
LEMMA SentTexts ==
    ASSUME wire \in Wire, Within, call.cur # NoByte
    PROVE  LET t == <<call.cur>>
           IN  /\ NewName => Sent.names = Append(wire.names, t) /\ Sent.values = wire.values
               /\ MoreName => Sent.names = Extend(wire.names, t) /\ Sent.values = wire.values
               /\ ValueBegins => Sent.names = wire.names /\ Sent.values = MoreValue(t)
               /\ ValueGoesOn /\ call'.run - call.run - 1 \in Nat =>
                     /\ Sent.names = wire.names
                     /\ Sent.values = MoreValue(t \o Skipped(call'.run - call.run))
               /\ ValueEmpty => Sent.names = wire.names /\ Sent.values = MoreValue(<<>>)
               /\ ~(NewName \/ MoreName \/ ValueBegins \/ ValueGoesOn \/ ValueEmpty)
                     => Sent.names = wire.names /\ Sent.values = wire.values
  <1> DEFINE s == parser.state
             t == <<call.cur>>
  <1>1. call.cur \in Lexeme /\ t \in Seq(Lexeme) /\ <<>> \in Seq(Lexeme)
    <2>1. call.cur \in Lexeme
      BY CallLikes DEF CallLike
    <2> QED
      BY <2>1
  <1>2. CASE NewName
    <2> DEFINE x == Append(wire.names, t)
    <2>1. Sent = [wire EXCEPT !.names = x]
      BY <1>2 DEF Sent, NewName
    <2> HIDE DEF x
    <2>2. Sent.names = x /\ Sent.values = wire.values
      BY <2>1 DEF Wire
    <2> QED
      BY <1>2, <2>2 DEF x, NewName, MoreName, ValueBegins, ValueGoesOn, ValueEmpty
  <1>3. CASE MoreName
    <2> DEFINE x == Extend(wire.names, t)
    <2>1. Sent = [wire EXCEPT !.names = x]
      BY <1>3 DEF Sent, MoreName
    <2> HIDE DEF x
    <2>2. Sent.names = x /\ Sent.values = wire.values
      BY <2>1 DEF Wire
    <2> QED
      BY <1>3, <2>2 DEF x, NewName, MoreName, ValueBegins, ValueGoesOn, ValueEmpty
  <1>4. CASE ValueBegins
    <2>1. Sent \in {ValueSent(wire, t), Folded(wire, t)}
      BY <1>4 DEF Sent, ValueBegins, Newline
    <2>2. Sent.names = wire.names /\ Sent.values = MoreValue(t)
      BY <1>1, <2>1, ValueSentTexts, FoldedTexts
    <2> QED
      BY <1>4, <2>2 DEF NewName, MoreName, ValueBegins, ValueGoesOn, ValueEmpty
  <1>5. CASE ValueEmpty
    <2>1. Sent = ValueSent(wire, <<>>)
      BY <1>5 DEF Sent, ValueEmpty
    <2>2. Sent.names = wire.names /\ Sent.values = MoreValue(<<>>)
      BY <1>1, <2>1, ValueSentTexts
    <2> QED
      BY <1>5, <2>2 DEF NewName, MoreName, ValueBegins, ValueGoesOn, ValueEmpty
  <1>6. CASE ValueGoesOn
    <2> DEFINE k == call'.run - call.run
               u == t \o Skipped(k)
    <2>1. Sent = ValueSent(wire, u)
      BY <1>6 DEF Sent, ValueGoesOn, Newline, Skipped
    <2>2. ASSUME k - 1 \in Nat PROVE u \in Seq(Lexeme)
      <3> DEFINE j == k - 1
      <3>1. j \in Nat /\ Skipped(k) = [i \in 1..j |-> Any]
        BY <2>2 DEF Skipped
      <3> HIDE DEF j
      <3>2. Skipped(k) \in Seq(Lexeme)
        BY <3>1, AnyLexeme
      <3> HIDE DEF k, t
      <3> QED
        BY <1>1, <3>2
    <2>3. k - 1 \in Nat => Sent.names = wire.names /\ Sent.values = MoreValue(u)
      BY <2>1, <2>2, ValueSentTexts
    <2> QED
      BY <1>6, <2>3 DEF NewName, MoreName, ValueBegins, ValueGoesOn, ValueEmpty
  <1>7. CASE ~(NewName \/ MoreName \/ ValueBegins \/ ValueGoesOn \/ ValueEmpty)
    <2>1. CASE s \in {"s_res_status_start", "s_res_status"}
      <3> DEFINE x == wire.status \o t
      <3>1. Sent = [wire EXCEPT !.status = x] \/ Sent = wire
        <4>1. CASE call.cur.c \in {"CR", "LF"}
          BY <2>1, <4>1 DEF Sent
        <4>2. CASE call.cur.c \notin {"CR", "LF"}
          BY <2>1, <4>2 DEF Sent
        <4> QED
          BY <4>1, <4>2
      <3> HIDE DEF x
      <3> QED
        BY <1>7, <3>1 DEF Wire
    <2>2. CASE s \in BodyReading
      <3> DEFINE x == wire.body + ToRead
                 y == wire.body + call.len - call.pos
      <3>1. Sent = [wire EXCEPT !.body = x] \/ Sent = [wire EXCEPT !.body = y]
        BY <2>2 DEF Sent, BodyReading
      <3> HIDE DEF x, y
      <3> QED
        BY <1>7, <3>1 DEF Wire
    <2>3. CASE s \notin {"s_res_status_start", "s_res_status"} \cup BodyReading
      <3>1. Sent = wire
        BY <1>7, <2>3 DEF Sent, BodyReading, NewName, MoreName, ValueBegins, ValueGoesOn,
           ValueEmpty, Newline
      <3> QED
        BY <1>7, <3>1
    <2> QED
      BY <2>1, <2>2, <2>3
  <1> QED
    BY <1>2, <1>3, <1>4, <1>5, <1>6, <1>7

\* What a step adds to the strings.
LEMMA WireTexts ==
    ASSUME RInv, PInv', EngineStep, History, wire \in Wire
    PROVE  IF call.active /\ call.cur # NoByte
           THEN wire'.names = Sent.names /\ wire'.values = Sent.values
           ELSE wire'.names = wire.names /\ wire'.values = wire.values
  <1> DEFINE w == IF call.active /\ call.cur # NoByte THEN Sent ELSE wire
             k == IF cb'.for = "message_complete" THEN w.messages + 1 ELSE w.messages
  <1>1. wire' = [w EXCEPT !.messages = k]
    BY DEF History
  <1>2. w \in Wire
    <2>1. CASE call.active /\ call.cur # NoByte
      <3>1. Run
        BY <2>1 DEF EngineStep, Execute, Finish
      <3>2. /\ call' \in Call /\ cb' \in CallbackRecord
            /\ last' = IF cb' = NoCb THEN last ELSE cb'.for
        BY DEF PInv, IInv, StateInv, History
      <3>3. Within
        BY <3>1, <3>2, RunInCall DEF Within, RInv, PInv
      <3> QED
        BY <2>1, <3>2, <3>3, SentType
    <2>2. CASE ~(call.active /\ call.cur # NoByte)
      BY <2>2
    <2> QED
      BY <2>1, <2>2
  <1>3. wire'.names = w.names /\ wire'.values = w.values
    <2> HIDE DEF w, k
    <2> QED
      BY <1>1, <1>2 DEF Wire
  <1> QED
    BY <1>3

-----------------------------------------------------------------------------
(* The headers as sent *)

\* The strings the response will hold once the one that is open is delivered
NamesTold ==
    IF parser.state = "s_header_field"
    THEN Add(Names, ~res.concat_header_field, Open(call, data, "header_field")) ELSE Names

ValuesTold ==
    IF parser.state = "s_header_value"
    THEN Add(Values, res.concat_header_field, Open(call, data, "header_value")) ELSE Values

HeadersTold ==
    Buffered /\ Counts /\ wire.names = NamesTold /\ wire.values = ValuesTold

\* What the response holds, and the bytes of the open string, are what was sent
HeadersInv == BodyInv /\ (NoError => HeadersTold)
HeaderCb == {"header_field", "header_value"}

\* A step of the engine from a state in which the headers are as sent
Telling ==
    /\ BodyInv /\ HeadersTold /\ NoError
    /\ PInv' /\ EngineStep /\ Protocol!Next /\ Respond /\ History /\ NoError'

LEMMA TellingWithin ==
    ASSUME Telling, Run PROVE Within
  <1>1. PInv /\ IInv' /\ last' = IF cb' = NoCb THEN last ELSE cb'.for
    BY DEF Telling, BodyInv, RInv, PInv, History
  <1> QED
    BY <1>1, RunInCall DEF Within

LEMMA TellingFacts ==
    ASSUME Telling
    PROVE  /\ RInv /\ PInv /\ PInv' /\ ResInv(res) /\ DataOK /\ Read /\ wire \in Wire
           /\ Buffered /\ Counts /\ wire.names = NamesTold /\ wire.values = ValuesTold
           /\ phase # "over" /\ phase' # "over"
           /\ Names \in Strings /\ Len(Names) = Len(res.header_fields)
           /\ Values \in Strings /\ Len(Values) = Len(res.header_values)
           /\ res.headers_count \in Nat
           /\ \A f \in DataCb : Open(call, data, f) \in Seq(Lexeme)
           /\ res.concat_header_field \in BOOLEAN
           /\ res.concat_header_field <=> phase \in {"name", "tname"}
           /\ phase \in {"value", "tvalue"} => res.concat_header_value
           /\ res.concat_header_value => res.headers_count >= 1
  <1>1. /\ RInv /\ PInv /\ PInv' /\ ResInv(res) /\ DataOK /\ Read /\ wire \in Wire
        /\ Buffered /\ Counts /\ wire.names = NamesTold /\ wire.values = ValuesTold
    BY DEF Telling, BodyInv, RInv, HeadersTold, History
  <1>2. phase # "over" /\ phase' # "over"
    <2>1. parser \in Parser /\ parser' \in Parser
      BY <1>1 DEF PInv, IInv, StateInv, ParserInv
    <2>2. phase' # "over"
      BY <2>1, NotOver DEF Telling, NoError
    <2>3. phase # "over"
      BY <2>2 DEF Telling, Protocol!Next, Protocol!MessageBegin, Protocol!Status,
         Protocol!HeaderField, Protocol!HeaderValue, Protocol!HeadersComplete,
         Protocol!ChunkHeader, Protocol!Body, Protocol!ChunkComplete,
         Protocol!MessageComplete, Protocol!Quiet, Protocol!Fail, Protocol!Calls
    <2> QED
      BY <2>2, <2>3
  <1>3. /\ res.header_fields \in Seq(Block) /\ res.header_values \in Seq(Block)
        /\ res.headers_count \in Nat /\ res.concat_header_field \in BOOLEAN
        /\ res.concat_header_value => res.headers_count >= 1
    BY <1>1, HeadersAssumption DEF ResInv, ResponseType, Shape
  <1>4. \A f \in DataCb : Open(call, data, f) \in Seq(Lexeme)
    BY <1>1, BothCalls, OpenType DEF DataOK
  <1>5. /\ res.concat_header_field <=> phase \in {"name", "tname"}
        /\ phase \in {"value", "tvalue"} => res.concat_header_value
    BY <1>1, <1>2 DEF RInv, Linked
  <1> QED
    BY <1>1, <1>2, <1>3, <1>4, <1>5, TextsType DEF Names, Values

\* The strings after the step, those of the response and those that were sent.
LEMMA TellingTexts ==
    ASSUME Telling
    PROVE  /\ cb'.for \notin HeaderCb => /\ Names' = Names /\ Values' = Values /\ Counts'
                                         /\ res'.concat_header_field = res.concat_header_field
           /\ Cursor => Buffered'
           /\ ~(call.active /\ call.cur # NoByte)
                 => wire'.names = wire.names /\ wire'.values = wire.values
           /\ call.active /\ call.cur # NoByte
                 => wire'.names = Sent.names /\ wire'.values = Sent.values
  <1>1. cb'.for \notin HeaderCb => SameHeaders
    BY TellingFacts, HeadersLeft DEF Telling, HeaderCb
  <1>2. Cursor => Buffered'
    BY TellingFacts, ReadFacts
  <1>3. IF call.active /\ call.cur # NoByte
        THEN wire'.names = Sent.names /\ wire'.values = Sent.values
        ELSE wire'.names = wire.names /\ wire'.values = wire.values
    BY TellingFacts, WireTexts DEF Telling
  <1> QED
    BY <1>1, <1>2, <1>3, TellingFacts DEF SameHeaders, Names, Values, Counts

TextStates == {"s_header_field", "s_header_value"}

\* Outside of the strings nothing changes.
LEMMA ToldPlain ==
    ASSUME Telling, Cursor, cb'.for \notin HeaderCb,
           parser.state \notin TextStates, parser'.state \notin TextStates,
           call.active /\ call.cur # NoByte =>
              Within /\ ~NewName /\ ~ValueBegins /\ ~ValueEmpty
    PROVE  HeadersTold'
  <1>1. /\ Names' = Names /\ Values' = Values /\ Counts' /\ Buffered'
    BY TellingTexts
  <1>2. wire'.names = wire.names /\ wire'.values = wire.values
    <2>1. CASE call.active /\ call.cur # NoByte
      <3>1. ~MoreName /\ ~ValueGoesOn
        BY DEF MoreName, ValueGoesOn, TextStates
      <3> QED
        BY <2>1, <3>1, TellingFacts, TellingTexts, SentTexts
    <2>2. CASE ~(call.active /\ call.cur # NoByte)
      BY <2>2, TellingTexts
    <2> QED
      BY <2>1, <2>2
  <1> QED
    BY <1>1, <1>2, TellingFacts DEF HeadersTold, NamesTold, ValuesTold, TextStates

\* A string stays as it is.
LEMMA ToldKept ==
    ASSUME Telling, Cursor, cb'.for \notin HeaderCb, parser'.state = parser.state,
           ~(call.active /\ call.cur # NoByte),
           \A f \in HeaderCb : Open(call', data', f) = Open(call, data, f)
    PROVE  HeadersTold'
  <1>1. /\ Names' = Names /\ Values' = Values /\ Counts' /\ Buffered'
        /\ wire'.names = wire.names /\ wire'.values = wire.values
        /\ res'.concat_header_field = res.concat_header_field
    BY TellingTexts
  <1> QED
    BY <1>1, TellingFacts DEF HeadersTold, NamesTold, ValuesTold, HeaderCb

\* A name, or more of it, is delivered.
LEMMA ToldName ==
    ASSUME Telling, Cursor, Within, cb'.for = "header_field", parser.state = "s_header_field",
           Slice = Open(call, data, "header_field"), call.cur # NoByte => ~Token(call.cur),
           \/ parser'.state \notin TextStates
           \/ parser'.state = "s_header_field" /\ Open(call', data', "header_field") = <<>>
    PROVE  HeadersTold'
  <1> DEFINE t == Open(call, data, "header_field")
  <1>1. t \in Seq(Lexeme) /\ t = Slice
    BY TellingFacts DEF DataCb
  <1>2. cb'.ret = 0
    BY TellingFacts DEF Telling, Protocol!Next, Protocol!MessageBegin, Protocol!Status,
       Protocol!HeaderField, Protocol!HeaderValue, Protocol!HeadersComplete,
       Protocol!ChunkHeader, Protocol!Body, Protocol!ChunkComplete,
       Protocol!MessageComplete, Protocol!Quiet, Protocol!Fail, Protocol!Calls, Protocol!Then,
       NoCb
  <1>3. SetHeaderField(t, 0)
    BY <1>1, <1>2 DEF Telling, Respond
  <1> HIDE DEF t
  <1>4. /\ Names' = Add(Names, ~res.concat_header_field, t) /\ Values' = Values
        /\ res'.concat_header_field /\ Counts'
    BY <1>1, <1>3, TellingFacts, FieldTold
  <1>5. wire'.names = wire.names /\ wire'.values = wire.values
    <2>1. CASE call.active /\ call.cur # NoByte
      <3>1. ~(NewName \/ MoreName \/ ValueBegins \/ ValueGoesOn \/ ValueEmpty)
        BY <2>1 DEF NewName, MoreName, ValueBegins, ValueGoesOn, ValueEmpty
      <3> QED
        BY <2>1, <3>1, TellingFacts, TellingTexts, SentTexts
    <2>2. CASE ~(call.active /\ call.cur # NoByte)
      BY <2>2, TellingTexts
    <2> QED
      BY <2>1, <2>2
  <1>6. wire'.names = Names' /\ wire'.values = Values'
    BY <1>4, <1>5, TellingFacts DEF NamesTold, ValuesTold, t
  <1>7. Names' \in Strings
    <2>1. ~res.concat_header_field \/ Len(Names) > 0
      BY TellingFacts DEF Counts
    <2> QED
      BY <1>1, <1>4, <2>1, TellingFacts, AddMore
  <1>8. CASE parser'.state \notin TextStates
    BY <1>4, <1>6, <1>8, TellingTexts DEF HeadersTold, NamesTold, ValuesTold, TextStates
  <1>9. CASE parser'.state = "s_header_field" /\ Open(call', data', "header_field") = <<>>
    <2>1. NamesTold' = Names' /\ ValuesTold' = Values'
      BY <1>4, <1>7, <1>9, ExtendNothing DEF NamesTold, ValuesTold, Add
    <2> QED
      BY <1>4, <1>6, <2>1, TellingTexts DEF HeadersTold
  <1> QED
    BY <1>8, <1>9

\* The list that a value, or more of it, is added to.
LEMMA ToldValueFacts ==
    ASSUME Telling, res.concat_header_field \/ res.concat_header_value,
           NEW t \in Seq(Lexeme)
    PROVE  /\ res.concat_header_field \/ Len(Values) > 0
           /\ Add(Values, res.concat_header_field, t) \in Strings
           /\ Len(Add(Values, res.concat_header_field, t)) = Len(Names)
           /\ Len(Values) < Len(Names) <=> res.concat_header_field
  <1>1. /\ Len(Values) = res.headers_count
        /\ Len(Names) = res.headers_count + (IF res.concat_header_field THEN 1 ELSE 0)
    BY TellingFacts DEF Counts
  <1>2. res.concat_header_field \/ Len(Values) > 0
    BY <1>1, TellingFacts
  <1> QED
    BY <1>1, <1>2, TellingFacts, AddMore

\* A header's value follows its name.
LEMMA ValueFollows ==
    ASSUME Telling, cb'.for = "header_value"
    PROVE  cb'.ret = 0 /\ (res.concat_header_field \/ res.concat_header_value)
  <1>1. cb'.ret = 0 /\ phase \in {"name", "value", "tname", "tvalue"}
    BY TellingFacts DEF Telling, Protocol!Next, Protocol!MessageBegin, Protocol!Status,
       Protocol!HeaderField, Protocol!HeaderValue, Protocol!HeadersComplete,
       Protocol!ChunkHeader, Protocol!Body, Protocol!ChunkComplete,
       Protocol!MessageComplete, Protocol!Quiet, Protocol!Fail, Protocol!Calls, Protocol!Then,
       NoCb
  <1> QED
    BY <1>1, TellingFacts

\* A value, or more of it, is delivered.
LEMMA ToldValue ==
    ASSUME Telling, Cursor, Within, cb'.for = "header_value", parser.state = "s_header_value",
           Slice = Open(call, data, "header_value"), call.cur # NoByte => Newline,
           \/ parser'.state \notin TextStates
           \/ parser'.state = "s_header_value" /\ Open(call', data', "header_value") = <<>>
    PROVE  HeadersTold'
  <1> DEFINE t == Open(call, data, "header_value")
  <1>1. t \in Seq(Lexeme) /\ t = Slice
    BY TellingFacts DEF DataCb
  <1>2. cb'.ret = 0 /\ (res.concat_header_field \/ res.concat_header_value)
    BY ValueFollows
  <1>3. SetHeaderValue(t, 0)
    BY <1>1, <1>2 DEF Telling, Respond
  <1> HIDE DEF t
  <1>4. /\ Values' = Add(Values, res.concat_header_field, t) /\ Names' = Names
        /\ ~res'.concat_header_field /\ Counts'
    BY <1>1, <1>2, <1>3, TellingFacts, ValueTold
  <1>5. wire'.names = wire.names /\ wire'.values = wire.values
    <2>1. CASE call.active /\ call.cur # NoByte
      <3>1. ~(NewName \/ MoreName \/ ValueBegins \/ ValueGoesOn \/ ValueEmpty)
        BY <2>1 DEF NewName, MoreName, ValueBegins, ValueGoesOn, ValueEmpty
      <3> QED
        BY <2>1, <3>1, TellingFacts, TellingTexts, SentTexts
    <2>2. CASE ~(call.active /\ call.cur # NoByte)
      BY <2>2, TellingTexts
    <2> QED
      BY <2>1, <2>2
  <1>6. wire'.names = Names' /\ wire'.values = Values'
    BY <1>4, <1>5, TellingFacts DEF NamesTold, ValuesTold, t
  <1>7. Values' \in Strings
    BY <1>1, <1>2, <1>4, ToldValueFacts
  <1>8. CASE parser'.state \notin TextStates
    BY <1>4, <1>6, <1>8, TellingTexts DEF HeadersTold, NamesTold, ValuesTold, TextStates
  <1>9. CASE parser'.state = "s_header_value" /\ Open(call', data', "header_value") = <<>>
    <2>1. NamesTold' = Names' /\ ValuesTold' = Values'
      BY <1>4, <1>7, <1>9, ExtendNothing DEF NamesTold, ValuesTold, Add
    <2> QED
      BY <1>4, <1>6, <2>1, TellingTexts DEF HeadersTold
  <1> QED
    BY <1>8, <1>9

\* An empty value is delivered.
LEMMA ToldEmpty ==
    ASSUME Telling, Cursor, Within, cb'.for = "header_value", cb'.n = 0,
           call.cur # NoByte, ValueEmpty, parser'.state \notin TextStates
    PROVE  HeadersTold'
  <1>1. Slice = <<>>
    BY DEF Slice
  <1>2. cb'.ret = 0 /\ (res.concat_header_field \/ res.concat_header_value)
    BY ValueFollows
  <1>3. SetHeaderValue(<<>>, 0) /\ <<>> \in Seq(Lexeme)
    BY <1>1, <1>2 DEF Telling, Respond
  <1>4. /\ Values' = Add(Values, res.concat_header_field, <<>>) /\ Names' = Names /\ Counts'
    BY <1>2, <1>3, TellingFacts, ValueTold
  <1>5. wire'.names = wire.names /\ wire'.values = MoreValue(<<>>)
    BY TellingFacts, TellingTexts, SentTexts DEF Within
  <1>6. wire.names = Names /\ wire.values = Values
    BY TellingFacts DEF ValueEmpty, NamesTold, ValuesTold
  <1>7. Len(wire.values) < Len(wire.names) <=> res.concat_header_field
    BY <1>2, <1>3, <1>6, ToldValueFacts
  <1>8. wire'.names = Names' /\ wire'.values = Values'
    BY <1>4, <1>5, <1>6, <1>7 DEF MoreValue, Add
  <1> QED
    BY <1>4, <1>8, TellingTexts DEF HeadersTold, NamesTold, ValuesTold, TextStates

\* A byte is passed that belongs to string f: that string grows, also from nothing.
LEMMA ToldGrows ==
    ASSUME Telling, NEW f \in HeaderCb, call.cur # NoByte, NEW k \in Nat \ {0},
           call'.pos = call.pos + k,
           call'.mark[f] = IF call.mark[f] = 0 THEN call.pos + 1 ELSE call.mark[f]
    PROVE  LET t == <<call.cur>> \o Skipped(k)
           IN  /\ t \in Seq(Lexeme) /\ Open(call, data, f) \o t \in Seq(Lexeme)
               /\ Open(call', data', f) = Open(call, data, f) \o t
               /\ call.mark[f] = 0 => Open(call', data', f) = t
               /\ Cursor /\ <<call.cur>> \in Seq(Lexeme)
               /\ k = 1 => t = <<call.cur>>
  <1> DEFINE s == <<call.cur>>
             t == s \o Skipped(k)
             a == Open(call, data, f)
  <1>0. f \in DataCb
    BY DEF HeaderCb, DataCb
  <1>1. Open(call', data', f) = a \o t /\ s \in Seq(Lexeme) /\ Skipped(k) \in Seq(Lexeme)
    BY <1>0, TellingFacts, OpenGrows
  <1>2. a \in Seq(Lexeme) /\ (call.mark[f] = 0 => a = <<>>)
    BY <1>0, TellingFacts DEF Open
  <1>3. call.pos \in Nat
    BY TellingFacts, BothCalls
  <1>4. k = 1 => Skipped(k) = <<>>
    BY DEF Skipped
  <1>5. Cursor
    BY <1>3 DEF Cursor
  <1> HIDE DEF s, a
  <1>6. t \in Seq(Lexeme) /\ (k = 1 => t = s)
    BY <1>1, <1>4
  <1> HIDE DEF t
  <1>7. a \o t \in Seq(Lexeme) /\ <<>> \o t = t
    BY <1>2, <1>6
  <1> QED
    BY <1>1, <1>2, <1>5, <1>6, <1>7 DEF s, t, a

\* One byte is passed.
LEMMA ToldGrowsByOne ==
    ASSUME Telling, NEW f \in HeaderCb, call.cur # NoByte, call'.pos = call.pos + 1,
           call'.mark[f] = IF call.mark[f] = 0 THEN call.pos + 1 ELSE call.mark[f]
    PROVE  LET t == <<call.cur>>
           IN  /\ t \in Seq(Lexeme) /\ Cursor /\ Open(call, data, f) \in Seq(Lexeme)
               /\ Open(call', data', f) = Open(call, data, f) \o t
               /\ call.mark[f] = 0 => Open(call', data', f) = t
  <1> DEFINE k == 1
  <1>1. k \in Nat \ {0} /\ call'.pos = call.pos + k
    OBVIOUS
  <1>2. k = 1
    OBVIOUS
  <1>3. f \in DataCb
    BY DEF HeaderCb, DataCb
  <1> HIDE DEF k
  <1> QED
    BY <1>1, <1>2, <1>3, ToldGrows, TellingFacts

\* The first byte of a name.
LEMMA ToldNewName ==
    ASSUME Telling, Within, call.cur # NoByte, NewName, cb'.for \notin HeaderCb,
           parser'.state = "s_header_field", ~res.concat_header_field,
           call'.pos = call.pos + 1, call.mark["header_field"] = 0,
           call'.mark["header_field"] = call.pos + 1
    PROVE  HeadersTold'
  <1> DEFINE t == <<call.cur>>
  <1>1. Open(call', data', "header_field") = t /\ Cursor /\ t \in Seq(Lexeme)
    BY ToldGrowsByOne DEF HeaderCb
  <1>2. wire'.names = Append(wire.names, t) /\ wire'.values = wire.values
    BY TellingFacts, TellingTexts, SentTexts DEF Within
  <1>3. wire.names = Names /\ wire.values = Values
    BY TellingFacts DEF NewName, NamesTold, ValuesTold
  <1>4. /\ Names' = Names /\ Values' = Values /\ Counts' /\ Buffered'
        /\ res'.concat_header_field = res.concat_header_field
    BY <1>1, TellingTexts
  <1> HIDE DEF t
  <1>5. NamesTold' = Append(Names, t) /\ ValuesTold' = Values
    BY <1>1, <1>4 DEF NamesTold, ValuesTold, Add
  <1> QED
    BY <1>2, <1>3, <1>4, <1>5 DEF HeadersTold

\* A further byte of a name.
LEMMA ToldMoreName ==
    ASSUME Telling, Within, call.cur # NoByte, MoreName, cb'.for \notin HeaderCb,
           parser'.state = "s_header_field", call'.pos = call.pos + 1,
           call.mark["header_field"] # 0,
           call'.mark["header_field"] = call.mark["header_field"]
    PROVE  HeadersTold'
  <1> DEFINE t == <<call.cur>>
             new == ~res.concat_header_field
             a == Open(call, data, "header_field")
  <1>1. Open(call', data', "header_field") = a \o t /\ Cursor /\ t \in Seq(Lexeme)
        /\ a \in Seq(Lexeme)
    BY ToldGrowsByOne DEF HeaderCb
  <1>2. wire'.names = Extend(wire.names, t) /\ wire'.values = wire.values
    BY TellingFacts, TellingTexts, SentTexts DEF Within
  <1>3. wire.names = Add(Names, new, a) /\ wire.values = Values
    BY TellingFacts DEF MoreName, NamesTold, ValuesTold
  <1>4. /\ Names' = Names /\ Values' = Values /\ Counts' /\ Buffered'
        /\ res'.concat_header_field = res.concat_header_field
    BY <1>1, TellingTexts
  <1>5. new \/ Len(Names) > 0
    BY TellingFacts DEF Counts
  <1>6. new \in BOOLEAN /\ Names \in Strings
    BY TellingFacts
  <1>7. NamesTold' = Add(Names, new, Open(call', data', "header_field")) /\ ValuesTold' = Values
    BY <1>4 DEF NamesTold, ValuesTold
  <1> HIDE DEF t, a, new
  <1>8. Extend(wire.names, t) = Add(Names, new, a \o t)
    BY <1>1, <1>3, <1>5, <1>6, AddMore
  <1> QED
    BY <1>1, <1>2, <1>3, <1>4, <1>7, <1>8 DEF HeadersTold

\* The first byte of a value, or of a line that continues it.
LEMMA ToldValueBegins ==
    ASSUME Telling, Within, call.cur # NoByte, ValueBegins, cb'.for \notin HeaderCb,
           parser'.state = "s_header_value",
           res.concat_header_field \/ res.concat_header_value,
           call'.pos = call.pos + 1, call.mark["header_value"] = 0,
           call'.mark["header_value"] = call.pos + 1
    PROVE  HeadersTold'
  <1> DEFINE t == <<call.cur>>
             new == res.concat_header_field
  <1>1. Open(call', data', "header_value") = t /\ Cursor /\ t \in Seq(Lexeme)
    BY ToldGrowsByOne DEF HeaderCb
  <1>2. wire'.names = wire.names /\ wire'.values = MoreValue(t)
    BY TellingFacts, TellingTexts, SentTexts DEF Within
  <1>3. wire.names = Names /\ wire.values = Values
    BY TellingFacts DEF ValueBegins, NamesTold, ValuesTold
  <1>4. /\ Names' = Names /\ Values' = Values /\ Counts' /\ Buffered'
        /\ res'.concat_header_field = res.concat_header_field
    BY <1>1, TellingTexts
  <1>5. Len(Values) < Len(Names) <=> new
    BY <1>1, ToldValueFacts
  <1>6. MoreValue(t) = Add(Values, new, t)
    BY <1>3, <1>5 DEF MoreValue, Add
  <1>7. NamesTold' = Names /\ ValuesTold' = Add(Values, new, t)
    BY <1>1, <1>4 DEF NamesTold, ValuesTold
  <1> QED
    BY <1>2, <1>3, <1>4, <1>6, <1>7 DEF HeadersTold

\* Further bytes of a value, k of them.
LEMMA ToldValueGoesOn ==
    ASSUME Telling, Within, call.cur # NoByte, ValueGoesOn, cb'.for \notin HeaderCb,
           parser'.state = "s_header_value",
           res.concat_header_field \/ res.concat_header_value,
           NEW k \in Nat \ {0}, call'.pos = call.pos + k, call'.run - call.run = k,
           call.mark["header_value"] # 0,
           call'.mark["header_value"] = call.mark["header_value"]
    PROVE  HeadersTold'
  <1> DEFINE t == <<call.cur>> \o Skipped(k)
             new == res.concat_header_field
             a == Open(call, data, "header_value")
  <1>1. Open(call', data', "header_value") = a \o t /\ Cursor /\ t \in Seq(Lexeme)
        /\ a \in Seq(Lexeme)
    BY ToldGrows, TellingFacts DEF HeaderCb, DataCb
  <1>2. wire'.names = wire.names /\ wire'.values = MoreValue(t)
    <2>1. call'.run - call.run - 1 \in Nat
      OBVIOUS
    <2> QED
      BY <2>1, TellingFacts, TellingTexts, SentTexts DEF Within
  <1>3. wire.names = Names /\ wire.values = Add(Values, new, a)
    BY TellingFacts DEF ValueGoesOn, NamesTold, ValuesTold
  <1>4. /\ Names' = Names /\ Values' = Values /\ Counts' /\ Buffered'
        /\ res'.concat_header_field = res.concat_header_field
    BY <1>1, TellingTexts
  <1>5. /\ new \/ Len(Values) > 0
        /\ Len(Add(Values, new, a)) = Len(Names) /\ new \in BOOLEAN /\ Values \in Strings
    BY <1>1, ToldValueFacts, TellingFacts
  <1>6. ~(Len(wire.values) < Len(wire.names))
    <2>1. Len(Names) \in Nat
      BY TellingFacts DEF Strings
    <2> QED
      BY <1>3, <1>5, <2>1
  <1>7. NamesTold' = Names /\ ValuesTold' = Add(Values, new, Open(call', data', "header_value"))
    BY <1>4 DEF NamesTold, ValuesTold
  <1> HIDE DEF t, a, new
  <1>8. MoreValue(t) = Add(Values, new, a \o t)
    <2>1. MoreValue(t) = Extend(wire.values, t)
      BY <1>6 DEF MoreValue, Add
    <2> QED
      BY <1>1, <1>3, <1>5, <2>1, AddMore
  <1> QED
    BY <1>1, <1>2, <1>3, <1>4, <1>7, <1>8 DEF HeadersTold

-----------------------------------------------------------------------------
(* The steps outside of the strings *)

\* The byte under the switch stays, or bytes are passed
Onward(c) == c.cur = NoByte \/ (c.cur = call.cur /\ c.pos \in Nat /\ c.pos >= call.pos)

Plainly ==
    /\ Cursor /\ cb'.for \notin HeaderCb
    /\ parser.state \notin TextStates /\ parser'.state \notin TextStates
    /\ ~NewName /\ ~ValueBegins /\ ~ValueEmpty

LEMMA ContinueOnward ==
    ASSUME Within, NEW p, NEW c, Onward(c), NEW er, Continue(p, c, er) PROVE Cursor
  <1>1. call' \in {c, NoCall} /\ NoCall.cur = NoByte
    BY DEF Continue, Return, NoCall
  <1>2. call.pos \in Nat
    BY CallLikes DEF CallLike
  <1> QED
    BY <1>1, <1>2 DEF Cursor, Onward

LEMMA Onwards ==
    ASSUME Within, NEW f \in DataCb
    PROVE  /\ Onward(call) /\ Onward(NextByte) /\ Onward(Marked(NextByte, f))
           /\ Onward(Marked(call, f))
  <1>1. /\ call \in CallLike /\ NextByte \in CallLike /\ call.pos \in Nat
        /\ NextByte.cur = NoByte
    BY CallLikes DEF CallLike
  <1>2. /\ Marked(NextByte, f).cur = NextByte.cur
        /\ Marked(call, f).pos = call.pos /\ Marked(call, f).cur = call.cur
    BY <1>1, MarkedLike
  <1> QED
    BY <1>1, <1>2 DEF Onward

LEMMA StepOnward ==
    ASSUME Within, NEW p, Step(p) \/ Reexecute(p) PROVE Cursor /\ parser' = p /\ cb' = NoCb
  BY StepMoves, ContinueOnward, Onwards DEF Step, Reexecute, DataCb

LEMMA NotifyOnward ==
    ASSUME Within, NEW f \in NotifyCb, NEW p \in Parser, NEW c \in {call, NextByte}, NEW er,
           Notify(f, p, c, er), parser'.http_errno = "HPE_OK"
    PROVE  Cursor /\ parser' = p /\ cb'.for \notin HeaderCb
  <1>1. parser' = p /\ cb'.for = f
    BY NotifyMoves
  <1>2. Cursor
    BY ContinueOnward, Onwards DEF Notify, DataCb
  <1> QED
    BY <1>1, <1>2 DEF NotifyCb, HeaderCb

LEMMA DataOnward ==
    ASSUME Within, NEW f \in DataCb, NEW n, NEW p \in Parser, NEW er, NEW q, NEW eq,
           NEW c \in CallLike, Onward(c),
           DataThen(f, n, p, er, q, eq, c), parser'.http_errno = "HPE_OK"
    PROVE  Cursor /\ parser' = q /\ cb'.for \in {f, "none"}
  <1>1. parser' = q /\ cb'.for \in {f, "none"}
    BY DataMoves
  <1> DEFINE d == [c EXCEPT !.mark[f] = 0]
  <1>2. Onward(d)
    BY DEF CallLike, Onward
  <1> HIDE DEF d
  <1>3. Cursor
    BY <1>2, ContinueOnward DEF DataThen, d
  <1> QED
    BY <1>1, <1>3

\* The status line, and the line ends of the headers.
LEMMA LinePlain ==
    ASSUME Within, parser'.http_errno = "HPE_OK",
           \/ Dead \/ Version \/ FirstStatusCode \/ StatusCode \/ StatusStart \/ Status
           \/ ResLineAlmostDone \/ HeaderAlmostDone \/ HeaderValueDiscardWsAlmostDone
    PROVE  Plainly
  <1>1. parser \in Parser /\ NoCb.for = "none" /\ parser.http_errno = "HPE_OK"
    BY WithinFacts DEF NoCb
  <1>2. /\ parser.state \notin TextStates
        /\ ~NewName /\ ~ValueBegins /\ ~ValueEmpty
    BY DEF Dead, Version, FirstStatusCode, StatusCode, StatusStart, Status, ResLineAlmostDone,
       HeaderAlmostDone, HeaderValueDiscardWsAlmostDone, At, TextStates, NewName, ValueBegins,
       ValueEmpty
  <1>3. ASSUME Cursor, cb'.for \in {"none", "status"}, parser'.state \notin TextStates
        PROVE  Plainly
    BY <1>2, <1>3 DEF Plainly, HeaderCb
  <1>4. CASE Version
    <2> DEFINE b == call.cur.v > 0
               m == [Move(parser, "s_res_first_status_code") EXCEPT !.http11 = b]
    <2>1. \/ Step(m)
          \/ \E e \in {"HPE_STRICT", "HPE_INVALID_VERSION"} : Step(Error(parser, e))
      BY <1>4 DEF Version
    <2> HIDE DEF b
    <2>2. m.state = "s_res_first_status_code"
      BY <1>1 DEF Move, Parser
    <2> HIDE DEF m
    <2>3. Cursor /\ cb' = NoCb /\ parser' = m
      BY <2>1, MoveFacts, StepOnward
    <2> QED
      BY <1>1, <1>3, <2>2, <2>3 DEF TextStates
  <1>5. CASE FirstStatusCode
    <2> DEFINE v == call.cur.v
               m == [Move(parser, "s_res_status_code") EXCEPT !.status_code = v]
    <2>1. Step(parser) \/ Step(m) \/ Step(Error(parser, "HPE_INVALID_STATUS"))
      BY <1>5 DEF FirstStatusCode
    <2> HIDE DEF v
    <2>2. m.state = "s_res_status_code"
      BY <1>1 DEF Move, Parser
    <2> HIDE DEF m
    <2>3. Cursor /\ cb' = NoCb /\ parser' \in {parser, m}
      BY <2>1, MoveFacts, StepOnward
    <2> QED
      BY <1>1, <1>2, <1>3, <2>2, <2>3 DEF TextStates
  <1>6. CASE Dead \/ StatusCode \/ ResLineAlmostDone \/ HeaderAlmostDone
             \/ HeaderValueDiscardWsAlmostDone
    <2>1. \/ Step(parser)
          \/ \E s \in {"s_res_status_start", "s_res_line_almost_done", "s_header_field_start",
                       "s_header_value_lws", "s_header_value_discard_lws"} :
                Step(Move(parser, s))
          \/ \E e \in Errno \ {"HPE_OK"} : Step(Error(parser, e))
      BY <1>6 DEF Dead, StatusCode, ResLineAlmostDone, HeaderAlmostDone,
         HeaderValueDiscardWsAlmostDone, Errno
    <2>2. /\ Cursor /\ cb' = NoCb
          /\ \/ parser' = parser
             \/ \E s \in {"s_res_status_start", "s_res_line_almost_done", "s_header_field_start",
                          "s_header_value_lws", "s_header_value_discard_lws"} :
                   parser' = Move(parser, s)
      BY <2>1, MoveFacts, StepOnward
    <2>3. parser'.state \notin TextStates
      BY <1>2, <2>2, MoveFacts DEF TextStates
    <2> QED
      BY <1>1, <1>3, <2>2, <2>3
  <1>7. CASE StatusStart
    <2>1. \/ \E s \in {"s_res_line_almost_done", "s_header_field_start"} : Step(Move(parser, s))
          \/ /\ cb' = NoCb
             /\ Continue(Move(parser, "s_res_status"), Marked(NextByte, "status"), call.pos)
      BY <1>7 DEF StatusStart
    <2>2. /\ Cursor /\ cb' = NoCb
          /\ \E s \in {"s_res_status", "s_res_line_almost_done", "s_header_field_start"} :
                parser' = Move(parser, s)
      BY <2>1, StepOnward, Onwards, ContinueOnward, ContinueMoves DEF DataCb
    <2>3. parser'.state \notin TextStates
      BY <2>2, MoveFacts DEF TextStates
    <2> QED
      BY <1>1, <1>3, <2>2, <2>3
  <1>8. CASE Status
    <2>1. PICK s \in {"s_res_line_almost_done", "s_header_field_start"} :
             \/ Step(parser)
             \/ Data("status", Length("status", call), Move(parser, s), call.pos + 1, NextByte)
      BY <1>8 DEF Status
    <2>2. /\ Cursor /\ cb'.for \in {"none", "status"}
          /\ parser' \in {parser, Move(parser, s)}
      <3>1. Move(parser, s) \in Parser
        BY <1>1 DEF Move, Parser, State, HeaderPhaseStates
      <3> QED
        BY <1>1, <2>1, <3>1, StepOnward, DataOnward, Onwards, CallLikes DEF Data, DataCb
    <2>3. parser'.state \notin TextStates
      BY <1>2, <2>2, MoveFacts DEF TextStates
    <2> QED
      BY <1>3, <2>2, <2>3
  <1> QED
    BY <1>4, <1>5, <1>6, <1>7, <1>8

\* The end of the headers, and of a message.
LEMMA EndPlain ==
    ASSUME Within, parser'.http_errno = "HPE_OK",
           StartRes \/ HeaderValueLws \/ HeadersAlmostDone \/ HeadersDone \/ MessageDone
    PROVE  Plainly
  <1>1. parser \in Parser /\ NoCb.for = "none" /\ parser.http_errno = "HPE_OK"
    BY WithinFacts DEF NoCb
  <1>2. /\ parser.state \notin TextStates
        /\ ~NewName /\ ~ValueBegins /\ ~ValueEmpty
    BY DEF StartRes, HeaderValueLws, HeadersAlmostDone, HeadersDone, MessageDone, At,
       TextStates, NewName, ValueBegins, ValueEmpty
  <1>3. ASSUME Cursor, cb'.for \notin HeaderCb, parser'.state \notin TextStates PROVE Plainly
    BY <1>2, <1>3 DEF Plainly
  <1>4. "none" \notin HeaderCb /\ "message_complete" \notin HeaderCb
        /\ "headers_complete" \notin HeaderCb
    BY DEF HeaderCb
  <1>5. ASSUME NEW p \in Parser, MessageComplete(p) PROVE Plainly
    <2>1. PICK ret \in CbRet :
             /\ cb' = [for |-> "message_complete", at |-> 0, n |-> 0, ret |-> ret]
             /\ LET q == Called(NewMessage(p), NewMessage(p), ret)
                IN  IF p.upgrade THEN Return(q, call.pos + 1)
                    ELSE Continue(q, NextByte, call.pos + 1)
      BY <1>5 DEF MessageComplete
    <2> DEFINE q == Called(NewMessage(p), NewMessage(p), ret)
    <2>2. q.state \in {"s_start_res", "s_dead"}
      BY DEF Called, NewMessage, Move, Error, Parser
    <2> HIDE DEF q
    <2>3. parser' = q /\ cb'.for = "message_complete"
      BY <2>1, ContinueMoves DEF Return, q
    <2>4. Cursor
      <3>1. CASE p.upgrade
        BY <2>1, <3>1 DEF Return, NoCall, Cursor
      <3>2. CASE ~p.upgrade
        BY <2>1, <3>2, Onwards, ContinueOnward DEF DataCb
      <3> QED
        BY <3>1, <3>2
    <2> QED
      BY <1>3, <1>4, <2>2, <2>3, <2>4 DEF TextStates
  <1>6. CASE StartRes
    <2> DEFINE p == [parser EXCEPT !.flags = {}, !.content_length = ULLONG_MAX]
               m == Move(p, "s_res_H")
    <2>1. /\ p \in Parser /\ p.state = "s_start_res" /\ m \in Parser /\ m.state = "s_res_H"
      BY <1>1, <1>6, LengthAssumption DEF StartRes, At, Parser, Flag, Move, State, HeaderPhaseStates
    <2>2. Error(p, "HPE_INVALID_CONSTANT").http_errno # "HPE_OK"
      BY <2>1 DEF Error, Parser
    <2>3. \/ Notify("message_begin", m, NextByte, call.pos + 1)
          \/ Notify("message_begin", p, NextByte, call.pos + 1)
          \/ Step(Error(p, "HPE_INVALID_CONSTANT"))
      BY <1>6 DEF StartRes
    <2> HIDE DEF p, m
    <2>4. parser' \in {p, m} /\ Cursor /\ cb'.for \notin HeaderCb
      BY <2>1, <2>2, <2>3, NotifyOnward, StepOnward DEF NotifyCb
    <2> QED
      BY <1>3, <2>1, <2>4 DEF TextStates
  <1>7. CASE HeaderValueLws
    <2> DEFINE q == [Move(parser, "s_header_field_start") EXCEPT
                         !.flags = @ \cup FlagOf(parser.header_state)]
    <2>1. q.state = "s_header_field_start"
      BY HeaderEnds
    <2>2. Reexecute(Move(parser, "s_header_value_start")) \/ Reexecute(q)
      BY <1>7 DEF HeaderValueLws
    <2> HIDE DEF q
    <2>3. Cursor /\ cb' = NoCb /\ parser'.state \in {"s_header_value_start", "s_header_field_start"}
      BY <2>1, <2>2, StepOnward, MoveFacts
    <2> QED
      BY <1>1, <1>3, <1>4, <2>3 DEF TextStates
  <1>8. CASE HeadersAlmostDone
    <2> DEFINE u == {"F_UPGRADE", "F_CONNECTION_UPGRADE"} \subseteq parser.flags
               p == [Move(parser, "s_headers_done") EXCEPT !.upgrade = u]
               m == Move(parser, "s_message_done")
    <2>1. /\ p.state = "s_headers_done" /\ m \in Parser /\ m.state = "s_message_done" /\ p \in Parser
      <3> HIDE DEF u
      <3>1. u \in BOOLEAN
        BY DEF u
      <3> QED
        BY <1>1, <3>1 DEF Move, Parser, State, HeaderPhaseStates, BodyStates
    <2>2. \/ \E e \in Errno \ {"HPE_OK"} : Step(Error(parser, e))
          \/ Notify("chunk_complete", m, call, call.pos)
          \/ HeadersComplete(p)
      BY <1>8 DEF HeadersAlmostDone, Errno
    <2> HIDE DEF p, m
    <2>3. CASE Notify("chunk_complete", m, call, call.pos)
      <3>1. parser' = m /\ Cursor /\ cb'.for \notin HeaderCb
        BY <2>1, <2>3, NotifyOnward DEF NotifyCb
      <3> QED
        BY <1>3, <2>1, <3>1 DEF TextStates
    <2>4. CASE HeadersComplete(p)
      <3> DEFINE f == p.flags \cup {"F_SKIPBODY"}
                 p1 == [p EXCEPT !.flags = f]
                 p2 == [p EXCEPT !.flags = f, !.upgrade = TRUE]
                 p3 == Error(p, "HPE_CB")
      <3>1. /\ cb'.for = "headers_complete"
            /\ \E q \in {p, p1, p2, p3} : Continue(q, call, call.pos)
        BY <2>4 DEF HeadersComplete
      <3> HIDE DEF f
      <3>2. \A q \in {p, p1, p2, p3} : q.state = "s_headers_done"
        BY <2>1 DEF Parser, Error
      <3> HIDE DEF p1, p2, p3
      <3>3. PICK q \in {p, p1, p2, p3} : Continue(q, call, call.pos)
        BY <3>1
      <3>4. parser' = q /\ Cursor
        BY <3>3, ContinueMoves, ContinueOnward, Onwards DEF DataCb
      <3> QED
        BY <1>3, <1>4, <3>1, <3>2, <3>4 DEF TextStates
    <2> QED
      BY <2>2, <2>3, <2>4, StepOnward, MoveFacts
  <1>9. CASE HeadersDone
    <2> DEFINE p == [parser EXCEPT !.nread = 0]
               s == BodyState(p)
    <2>1. p \in Parser
      BY <1>1 DEF Parser
    <2>2. \/ Step(Error(parser, "HPE_STRICT"))
          \/ s # "none" /\ Step(Move(p, s))
          \/ MessageComplete(p)
      BY <1>9 DEF HeadersDone
    <2>3. s \notin TextStates
      BY DEF BodyState, TextStates
    <2> HIDE DEF p, s
    <2>4. CASE Step(Move(p, s))
      <3>1. parser'.state = s /\ Cursor /\ cb' = NoCb
        BY <2>1, <2>4, StepOnward DEF Move, Parser
      <3> QED
        BY <1>1, <1>3, <1>4, <2>3, <3>1
    <2> QED
      BY <1>5, <2>1, <2>2, <2>4, StepOnward, MoveFacts
  <1>10. CASE MessageDone
    BY <1>1, <1>5, <1>10 DEF MessageDone
  <1> QED
    BY <1>6, <1>7, <1>8, <1>9, <1>10

\* What a name or a value begins with, or ends.
LEMMA AroundPlain ==
    ASSUME Within, parser'.http_errno = "HPE_OK",
           \/ HeaderFieldStart /\ ~Token(call.cur)
           \/ HeaderValueDiscardWs /\ (IsLws(call.cur) \/ Newline)
           \/ HeaderValueDiscardLws /\ IsLws(call.cur)
    PROVE  Plainly
  <1>1. parser \in Parser /\ NoCb.for = "none" /\ parser.http_errno = "HPE_OK"
        /\ "none" \notin HeaderCb
    BY WithinFacts DEF NoCb, HeaderCb
  <1>2. /\ parser.state \notin TextStates
        /\ ~NewName /\ ~ValueBegins /\ ~ValueEmpty
    BY DEF HeaderFieldStart, HeaderValueDiscardWs, HeaderValueDiscardLws, At, TextStates,
       NewName, ValueBegins, ValueEmpty
  <1> DEFINE S == {"s_headers_almost_done", "s_header_value_discard_ws_almost_done",
                   "s_header_value_discard_lws", "s_header_value_discard_ws"}
  <1>3. \/ Step(parser)
        \/ \E s \in S : Step(Move(parser, s)) \/ Reexecute(Move(parser, s))
        \/ Step(Error(parser, "HPE_INVALID_HEADER_TOKEN"))
    <2>1. CASE HeaderFieldStart /\ ~Token(call.cur)
      BY <2>1 DEF HeaderFieldStart
    <2>2. CASE HeaderValueDiscardWs /\ (IsLws(call.cur) \/ Newline)
      BY <2>2 DEF HeaderValueDiscardWs, Newline, IsLws
    <2>3. CASE HeaderValueDiscardLws /\ IsLws(call.cur)
      BY <2>3 DEF HeaderValueDiscardLws
    <2> QED
      BY <2>1, <2>2, <2>3
  <1>4. /\ Cursor /\ cb' = NoCb
        /\ parser' = parser \/ \E s \in S : parser' = Move(parser, s)
    BY <1>3, StepOnward, MoveFacts
  <1>5. parser'.state \notin TextStates
    BY <1>2, <1>4, MoveFacts DEF TextStates
  <1> QED
    BY <1>1, <1>2, <1>4, <1>5 DEF Plainly

\* A body by length or up to the end of the connection.
LEMMA BodyPlain ==
    ASSUME Within, parser'.http_errno = "HPE_OK", BodyIdentity \/ BodyIdentityEof
    PROVE  Plainly
  <1>1. /\ parser \in Parser /\ parser.http_errno = "HPE_OK" /\ call \in CallLike /\ IInv
        /\ call.pos \in Nat /\ "body" \in DataCb /\ call.cur # NoByte /\ NoCb.for = "none"
        /\ "none" \notin HeaderCb /\ "body" \notin HeaderCb
    BY WithinFacts, CallLikes
       DEF Within, PInv, CallLike, DataCb, BodyIdentity, BodyIdentityEof, At, NoCb, HeaderCb
  <1>2. /\ parser.state \notin TextStates
        /\ ~NewName /\ ~ValueBegins /\ ~ValueEmpty
    BY DEF BodyIdentity, BodyIdentityEof, At, TextStates, NewName, ValueBegins, ValueEmpty
  <1>3. CASE BodyIdentityEof
    <2> DEFINE d == [Marked(call, "body") EXCEPT !.pos = call.len, !.cur = NoByte]
    <2>1. Marked(call, "body") \in CallLike
      BY <1>1, MarkedLike
    <2>2. Onward(d)
      BY <2>1 DEF CallLike, Onward
    <2>3. Continue(parser, d, call.pos) /\ cb' = NoCb
      BY <1>3 DEF BodyIdentityEof
    <2> HIDE DEF d
    <2>4. parser' = parser /\ Cursor
      BY <2>2, <2>3, ContinueMoves, ContinueOnward
    <2> QED
      BY <1>1, <1>2, <2>3, <2>4 DEF Plainly
  <1>4. CASE BodyIdentity
    <2> DEFINE n == parser.content_length - ToRead
               k == call.pos + ToRead - 1
               p == [parser EXCEPT !.content_length = n]
               m == Move(p, "s_message_done")
               a == Advance(ToRead)
               c == Marked(a, "body")
               d == [c EXCEPT !.pos = @ + 1, !.cur = NoByte]
    <2>1. At("s_body_identity")
      BY <1>4 DEF BodyIdentity
    <2>2. /\ ToRead \in Nat /\ ToRead >= 1 /\ p \in Parser
      BY <1>1, <2>1, ToReadInv
    <2>3. a \in CallLike /\ a.pos = k /\ a.cur = call.cur /\ k \in Nat /\ k >= call.pos
      <3>1. k \in Nat /\ k >= call.pos /\ a = [call EXCEPT !.pos = k]
        BY <1>1, <2>2 DEF Advance
      <3> HIDE DEF k, a
      <3> QED
        BY <1>1, <3>1 DEF CallLike
    <2>4. \/ Data("body", c.pos + 2 - c.mark["body"], m, c.pos, c)
          \/ cb' = NoCb /\ Continue(p, d, call.pos)
      BY <1>4 DEF BodyIdentity
    <2> HIDE DEF n, k
    <2>5. /\ p.state = "s_body_identity" /\ m \in Parser /\ m.state = "s_message_done"
      BY <1>1, <2>1, <2>2 DEF At, Move, Parser, State, BodyStates
    <2> HIDE DEF p, m, a
    <2>6. c \in CallLike /\ c.pos = k /\ c.cur = call.cur
      BY <1>1, <2>3, MarkedLike
    <2>7. Onward(c) /\ Onward(d)
      BY <2>3, <2>6 DEF Onward, CallLike
    <2> HIDE DEF c, d
    <2>8. Cursor /\ parser' \in {p, m} /\ cb'.for \in {"body", "none"}
      BY <1>1, <2>4, <2>5, <2>6, <2>7, DataOnward, ContinueMoves, ContinueOnward DEF Data
    <2> QED
      BY <1>1, <1>2, <2>5, <2>8 DEF Plainly, TextStates
  <1> QED
    BY <1>3, <1>4

\* Chunks.
LEMMA ChunkPlain ==
    ASSUME Within, parser'.http_errno = "HPE_OK",
           \/ ChunkSizeStart \/ ChunkSize \/ ChunkParameters \/ ChunkSizeAlmostDone
           \/ ChunkData \/ ChunkDataAlmostDone \/ ChunkDataDone
    PROVE  Plainly
  <1>1. /\ parser \in Parser /\ parser.http_errno = "HPE_OK" /\ call \in CallLike /\ IInv
        /\ call.pos \in Nat /\ "body" \in DataCb /\ NoCb.for = "none"
        /\ "none" \notin HeaderCb /\ "body" \notin HeaderCb
    BY WithinFacts, CallLikes DEF Within, PInv, CallLike, DataCb, NoCb, HeaderCb
  <1>2. /\ parser.state \notin TextStates
        /\ ~NewName /\ ~ValueBegins /\ ~ValueEmpty
    BY DEF ChunkSizeStart, ChunkSize, ChunkParameters, ChunkSizeAlmostDone, ChunkData,
       ChunkDataAlmostDone, ChunkDataDone, At, TextStates, NewName, ValueBegins, ValueEmpty
  <1>3. ASSUME Cursor, cb'.for \in {"none", "body"} \/ cb'.for \notin HeaderCb,
               parser'.state \notin TextStates
        PROVE  Plainly
    BY <1>1, <1>2, <1>3 DEF Plainly
  <1>4. \A e : Error(parser, e).http_errno = e
    BY <1>1 DEF Error, Parser
  <1>5. ASSUME NEW s \in State \ TextStates, NEW v \in Nat
        PROVE  /\ Move(parser, s) \in Parser /\ Move(parser, s).state = s
               /\ [Move(parser, s) EXCEPT !.content_length = v].state = s
    BY <1>1 DEF Move, Parser
  <1>6. CASE ChunkSizeStart
    <2> DEFINE v == call.cur.v
               m == [Move(parser, "s_chunk_size") EXCEPT !.content_length = v]
    <2>1. Step(m) \/ Step(Error(parser, "HPE_INVALID_CHUNK_SIZE"))
      BY <1>6 DEF ChunkSizeStart
    <2> HIDE DEF v
    <2>2. m.state = "s_chunk_size"
      BY <1>1 DEF Move, Parser
    <2> HIDE DEF m
    <2>3. Cursor /\ cb' = NoCb /\ parser' = m
      BY <1>4, <2>1, StepOnward
    <2> QED
      BY <1>1, <1>3, <2>2, <2>3 DEF TextStates
  <1>7. CASE ChunkSize \/ ChunkParameters
    <2> DEFINE v == parser.content_length * 16 + call.cur.v
               g == [parser EXCEPT !.content_length = v]
               S == {"s_chunk_size_almost_done", "s_chunk_parameters"}
    <2>1. \/ \E s \in S : Step(Move(parser, s))
          \/ \E e \in Errno \ {"HPE_OK"} : Step(Error(parser, e))
          \/ Step(g) \/ Step(parser)
      BY <1>1, <1>7 DEF ChunkSize, ChunkParameters, Parser, Errno
    <2> HIDE DEF v
    <2>2. g.state = parser.state
      BY <1>1 DEF Parser
    <2> HIDE DEF g
    <2>3. /\ Cursor /\ cb' = NoCb
          /\ parser' \in {g, parser} \/ \E s \in S : parser' = Move(parser, s)
      BY <1>4, <2>1, StepOnward
    <2>4. parser'.state \notin TextStates
      BY <1>2, <2>2, <2>3, MoveFacts DEF TextStates
    <2> QED
      BY <1>1, <1>3, <2>3, <2>4
  <1>8. CASE ChunkSizeAlmostDone
    <2> DEFINE p == [parser EXCEPT !.nread = 0]
               f == parser.flags \cup {"F_TRAILING"}
               t == [Move(p, "s_header_field_start") EXCEPT !.flags = f]
               m == Move(p, "s_chunk_data")
    <2>1. /\ f \in SUBSET Flag
          /\ t = [Move(p, "s_header_field_start") EXCEPT !.flags = @ \cup {"F_TRAILING"}]
      BY <1>1 DEF Parser, Flag, Move
    <2>2. \/ Step(Error(parser, "HPE_STRICT"))
          \/ Notify("chunk_header", t, NextByte, call.pos + 1)
          \/ Notify("chunk_header", m, NextByte, call.pos + 1)
      BY <1>8, <2>1 DEF ChunkSizeAlmostDone
    <2> HIDE DEF f
    <2>3. /\ t \in Parser /\ t.state = "s_header_field_start"
          /\ m \in Parser /\ m.state = "s_chunk_data"
      BY <1>1, <2>1 DEF Parser, Move, State, HeaderPhaseStates, BodyStates
    <2> HIDE DEF t, m
    <2>4. parser' \in {t, m} /\ Cursor /\ cb'.for \notin HeaderCb
      BY <1>4, <2>2, <2>3, StepOnward, NotifyOnward DEF NotifyCb
    <2> QED
      BY <1>3, <2>3, <2>4 DEF TextStates
  <1>9. CASE ChunkData
    <2> DEFINE k == parser.content_length - ToRead
               p == [parser EXCEPT !.content_length = k]
               c == Marked(call, "body")
               d == [c EXCEPT !.pos = @ + ToRead, !.cur = NoByte]
    <2>1. cb' = NoCb
          /\ \E q \in {p, Move(p, "s_chunk_data_almost_done")} : Continue(q, d, call.pos)
      BY <1>9 DEF ChunkData
    <2>2. c \in CallLike
      BY <1>1, MarkedLike
    <2> HIDE DEF c
    <2>3. Onward(d)
      BY <2>2 DEF Onward, CallLike
    <2> HIDE DEF d, k
    <2>4. p.state = "s_chunk_data"
          /\ Move(p, "s_chunk_data_almost_done").state = "s_chunk_data_almost_done"
      BY <1>1, <1>9 DEF ChunkData, At, Move, Parser
    <2> HIDE DEF p
    <2>5. Cursor /\ parser' \in {p, Move(p, "s_chunk_data_almost_done")}
      BY <2>1, <2>3, ContinueMoves, ContinueOnward
    <2> QED
      BY <1>1, <1>3, <2>1, <2>4, <2>5 DEF TextStates
  <1>10. CASE ChunkDataAlmostDone
    <2> DEFINE m == Move(parser, "s_chunk_data_done")
    <2>1. \/ Data("body", Length("body", call), m, call.pos + 1, NextByte)
          \/ Step(Error(parser, "HPE_STRICT"))
      BY <1>10 DEF ChunkDataAlmostDone
    <2>2. m \in Parser /\ m.state = "s_chunk_data_done"
      BY <1>1 DEF Parser, Move, State, BodyStates
    <2> HIDE DEF m
    <2>3. Cursor /\ parser' = m /\ cb'.for \in {"body", "none"}
      BY <1>1, <1>4, <2>1, <2>2, StepOnward, DataOnward, Onwards, CallLikes DEF Data
    <2> QED
      BY <1>3, <2>2, <2>3 DEF TextStates
  <1>11. CASE ChunkDataDone
    <2> DEFINE q == [Move(parser, "s_chunk_size_start") EXCEPT !.nread = 0]
    <2>1. \/ Notify("chunk_complete", q, NextByte, call.pos + 1)
          \/ Step(Error(parser, "HPE_STRICT"))
      BY <1>11 DEF ChunkDataDone
    <2>2. q \in Parser /\ q.state = "s_chunk_size_start"
      BY <1>1 DEF Parser, Move, State, HeaderPhaseStates
    <2> HIDE DEF q
    <2>3. parser' = q /\ Cursor /\ cb'.for \notin HeaderCb
      BY <1>4, <2>1, <2>2, StepOnward, NotifyOnward DEF NotifyCb
    <2> QED
      BY <1>3, <2>2, <2>3 DEF TextStates
  <1> QED
    BY <1>6, <1>7, <1>8, <1>9, <1>10, <1>11

-----------------------------------------------------------------------------
(* The steps of the strings *)

\* Before a name the last header has its value; before a value there is a name.
LEMMA HeaderOrder ==
    ASSUME Telling, Within
    PROVE  /\ parser.state = "s_header_field_start" => ~res.concat_header_field
           /\ parser.state \in ValueStates => res.concat_header_field \/ res.concat_header_value
  <1>1. phase = PhaseFor(parser, last, eof) /\ parser.http_errno = "HPE_OK"
        /\ LastOK(parser, last)
    BY Mapping, WithinFacts
  <1>2. CASE parser.state = "s_header_field_start"
    <2>1. last \in BeforeNames(parser) \cup {"header_value"}
      BY <1>1, <1>2 DEF LastOK
    <2>2. phase = IF Trailing(parser) THEN TrailerPhaseOf(last) ELSE HeadPhaseOf(last)
      BY <1>1, <1>2, HeadPhases DEF ByLast
    <2>3. phase \notin {"name", "tname"}
      BY <2>1, <2>2 DEF BeforeNames, TrailerPhaseOf, HeadPhaseOf
    <2> QED
      BY <1>2, <2>3, TellingFacts DEF ValueStates
  <1>3. CASE parser.state \in ValueStates
    <2>1. last \in {"header_field", "header_value"}
      BY <1>1, <1>3 DEF LastOK
    <2>2. phase = IF Trailing(parser) THEN TrailerPhaseOf(last) ELSE HeadPhaseOf(last)
      BY <1>1, <1>3, HeadPhases DEF ByLast
    <2>3. phase \in {"name", "tname", "value", "tvalue"}
      BY <2>1, <2>2 DEF TrailerPhaseOf, HeadPhaseOf
    <2> QED
      BY <1>3, <2>3, TellingFacts DEF ValueStates
  <1> QED
    BY <1>2, <1>3

\* What a data callback is given is the open string.
LEMMA SliceIsOpen ==
    ASSUME NEW f \in DataCb, call.mark[f] # 0, cb'.at = call.mark[f] - 1,
           cb'.n = call.pos + 1 - call.mark[f]
    PROVE  Slice = Open(call, data, f)
  BY DEF Slice, Open

LEMMA DeliveredOpen ==
    ASSUME Within, parser'.http_errno = "HPE_OK", NEW f \in DataCb, call.mark[f] # 0,
           NEW p, NEW er, NEW q, NEW eq, NEW c, c.mark = call.mark,
           DataThen(f, Length(f, call), p, er, q, eq, c)
    PROVE  /\ cb'.for = f /\ Slice = Open(call, data, f)
           /\ parser' = q /\ call' = [c EXCEPT !.mark[f] = 0]
  <1>1. /\ cb'.for = f /\ cb'.n = Length(f, call)
        /\ parser' = q /\ call' = [c EXCEPT !.mark[f] = 0]
    BY Delivered
  <1>2. cb'.at = call.mark[f] - 1
    BY DEF DataThen
  <1> QED
    BY <1>1, <1>2, SliceIsOpen DEF Length

LEMMA HeaderFieldStartTold ==
    ASSUME Telling, Within, HeaderFieldStart PROVE HeadersTold'
  <1>1. CASE ~Token(call.cur)
    <2>1. Plainly
      BY <1>1, AroundPlain DEF Telling, NoError
    <2> QED
      BY <2>1, ToldPlain DEF Plainly
  <1>2. CASE Token(call.cur)
    <2> DEFINE h == NameStart(call.cur)
               p == [Move(parser, "s_header_field") EXCEPT !.header_state = h]
               c == Marked(NextByte, "header_field")
    <2>1. cb' = NoCb /\ Continue(p, c, call.pos)
      BY <1>2 DEF HeaderFieldStart, Token
    <2>2. /\ call.cur # NoByte /\ NewName /\ call \in CallLike /\ NextByte \in CallLike
          /\ call.pos \in Nat /\ NextByte.pos = call.pos + 1 /\ NextByte.mark = call.mark
      BY <1>2, CallLikes DEF HeaderFieldStart, At, NewName, CallLike
    <2>3. call.mark["header_field"] = 0
      BY NothingOwed DEF HeaderFieldStart, At, StringStates, DataCb
    <2>4. c.mark["header_field"] = call.pos + 1 /\ c.pos = call.pos + 1
      BY <2>2, <2>3, MarkedLike DEF DataCb
    <2> HIDE DEF h
    <2>5. p.state = "s_header_field"
      BY WithinFacts DEF Move, Parser
    <2> HIDE DEF p, c
    <2>6. parser' = p /\ call' = c
      BY <2>1, Continued DEF Telling, NoError
    <2>7. ~res.concat_header_field
      BY HeaderOrder DEF HeaderFieldStart, At
    <2> QED
      BY <2>1, <2>2, <2>3, <2>4, <2>5, <2>6, <2>7, ToldNewName DEF NoCb, HeaderCb
  <1> QED
    BY <1>1, <1>2

LEMMA HeaderFieldTold ==
    ASSUME Telling, Within, HeaderField PROVE HeadersTold'
  <1> DEFINE h == NameStep(parser.header_state, call.cur)
             o == [parser EXCEPT !.header_state = h]
             p == Count(parser, call.run)
             m == Move(p, "s_header_value_discard_ws")
             c == [NextByte EXCEPT !.run = call.run + 1]
  <1>1. /\ parser.state = "s_header_field" /\ call.cur # NoByte /\ call.active
        /\ parser \in Parser /\ call \in CallLike /\ NextByte \in CallLike
        /\ NextByte.pos = call.pos + 1 /\ NextByte.mark = call.mark /\ NextByte.cur = NoByte
        /\ parser.state \in MarkStates["header_field"] /\ parser'.http_errno = "HPE_OK"
    BY CallLikes, WithinFacts, MarkStatesOf, NextByteMarks DEF HeaderField, At, Telling, NoError
  <1>2. call.mark["header_field"] # 0
    BY <1>1, OpenAt
  <1>3. \/ Token(call.cur) /\ cb' = NoCb /\ Continue(o, c, call.pos)
        \/ ~Token(call.cur) /\ p.http_errno # "HPE_OK" /\ Step(p)
        \/ /\ ~Token(call.cur)
           /\ Data("header_field", Length("header_field", call), m, call.pos + 1, NextByte)
        \/ Step(Error(p, "HPE_INVALID_HEADER_TOKEN"))
    BY DEF HeaderField, Token
  <1>4. p \in Parser /\ p.state = parser.state
    BY Counted
  <1> HIDE DEF h
  <1>5. o.state = "s_header_field"
    BY <1>1 DEF Parser
  <1>6. c.mark = call.mark /\ c.pos = call.pos + 1
    BY <1>1 DEF CallLike
  <1> HIDE DEF o, c, p
  <1>7. m.state = "s_header_value_discard_ws"
    BY <1>4 DEF Move, Parser
  <1> HIDE DEF m
  <1>8. CASE Token(call.cur) /\ cb' = NoCb /\ Continue(o, c, call.pos)
    <2>1. parser' = o /\ call' = c
      BY <1>1, <1>8, Continued
    <2> QED
      BY <1>1, <1>2, <1>5, <1>6, <1>8, <2>1, ToldMoreName DEF MoreName, NoCb, HeaderCb
  <1>9. CASE ~Token(call.cur)
             /\ Data("header_field", Length("header_field", call), m, call.pos + 1, NextByte)
    <2> DEFINE d == [NextByte EXCEPT !.mark["header_field"] = 0]
    <2>1. /\ cb'.for = "header_field" /\ Slice = Open(call, data, "header_field")
          /\ parser' = m /\ call' = d
      BY <1>1, <1>2, <1>9, DeliveredOpen DEF Data, DataCb
    <2>2. d.cur = NoByte
      BY <1>1 DEF CallLike
    <2> QED
      BY <1>1, <1>7, <1>9, <2>1, <2>2, ToldName DEF Cursor, TextStates
  <1>10. ~Step(Error(p, "HPE_INVALID_HEADER_TOKEN"))
    BY <1>1, <1>4, StepMoves DEF Error, Parser
  <1>11. ~(p.http_errno # "HPE_OK" /\ Step(p))
    BY <1>1, StepMoves
  <1> QED
    BY <1>3, <1>8, <1>9, <1>10, <1>11

\* The first byte of a value.
LEMMA StartValueTold ==
    ASSUME Telling, Within, call.cur # NoByte, ValueBegins, StartValue PROVE HeadersTold'
  <1> DEFINE p == ValueStart(call.cur)
             c == Marked(NextByte, "header_value")
  <1>1. cb' = NoCb /\ Continue(p, c, call.pos)
    BY DEF StartValue
  <1>2. /\ call \in CallLike /\ NextByte \in CallLike /\ call.cur \in Lexeme
        /\ call.pos \in Nat /\ NextByte.pos = call.pos + 1 /\ NextByte.mark = call.mark
        /\ parser.http_errno = "HPE_OK" /\ ParserInv(parser) /\ parser'.http_errno = "HPE_OK"
    BY CallLikes, WithinFacts DEF CallLike, Telling, NoError
  <1>3. /\ parser.state \in HeadStates /\ parser.state \notin StringStates
        /\ parser.state \in ValueStates
    BY DEF ValueBegins, HeadStates, HeaderPhaseStates, ChunkStates, StringStates, ValueStates
  <1>4. call.mark["header_value"] = 0
    BY <1>3, NothingOwed DEF DataCb
  <1>5. c.mark["header_value"] = call.pos + 1 /\ c.pos = call.pos + 1
    BY <1>2, <1>4, MarkedLike DEF DataCb
  <1>6. p.http_errno = "HPE_OK" => p.state = "s_header_value"
    BY <1>2, <1>3, ValueStartInv
  <1> HIDE DEF p, c
  <1>7. parser' = p /\ call' = c
    BY <1>1, <1>2, Continued
  <1>8. res.concat_header_field \/ res.concat_header_value
    BY <1>3, HeaderOrder
  <1> QED
    BY <1>1, <1>2, <1>4, <1>5, <1>6, <1>7, <1>8, ToldValueBegins DEF NoCb, HeaderCb

LEMMA ValueStartsTold ==
    ASSUME Telling, Within, HeaderValueDiscardWs \/ HeaderValueStart PROVE HeadersTold'
  <1>1. CASE HeaderValueDiscardWs /\ (IsLws(call.cur) \/ Newline)
    <2>1. Plainly
      BY <1>1, AroundPlain DEF Telling, NoError
    <2> QED
      BY <2>1, ToldPlain DEF Plainly
  <1>2. CASE \/ HeaderValueDiscardWs /\ ~(IsLws(call.cur) \/ Newline)
             \/ HeaderValueStart
    <2>1. StartValue
      BY <1>2 DEF HeaderValueDiscardWs, HeaderValueStart, Newline
    <2>2. ValueBegins /\ call.cur # NoByte
      BY <1>2 DEF HeaderValueDiscardWs, HeaderValueStart, ValueBegins, At
    <2> QED
      BY <2>1, <2>2, StartValueTold
  <1> QED
    BY <1>1, <1>2

\* A CR ends a value.
LEMMA HeaderValueCRTold ==
    ASSUME Telling, Within, HeaderValueCR PROVE HeadersTold'
  <1> DEFINE p == Move(parser, "s_header_almost_done")
             q == Count(p, call.run)
             d == [NextByte EXCEPT !.mark["header_value"] = 0]
  <1>1. /\ At("s_header_value") /\ Newline
        /\ DataThen("header_value", Length("header_value", call), p, call.pos + 1, q,
                    call.pos, NextByte)
    BY DEF HeaderValueCR, InValue, Newline
  <1>2. /\ call.mark["header_value"] # 0 /\ parser.state = "s_header_value"
        /\ NextByte \in CallLike /\ NextByte.mark = call.mark /\ NextByte.cur = NoByte
        /\ parser'.http_errno = "HPE_OK"
    BY <1>1, InValueFacts, NextByteMarks, CallLikes DEF Telling, NoError
  <1>3. q.state = "s_header_almost_done"
    BY <1>2, ValueEnds
  <1>4. d.cur = NoByte
    BY <1>2 DEF CallLike
  <1> HIDE DEF p, q
  <1>5. /\ cb'.for = "header_value" /\ Slice = Open(call, data, "header_value")
        /\ parser' = q /\ call' = d
    BY <1>1, <1>2, DeliveredOpen DEF DataCb
  <1> QED
    BY <1>1, <1>2, <1>3, <1>4, <1>5, ToldValue DEF Cursor, TextStates

\* A LF ends a value, and is examined again.
LEMMA HeaderValueLFTold ==
    ASSUME Telling, Within, HeaderValueLF PROVE HeadersTold'
  <1> DEFINE q == Count(Move(parser, "s_header_almost_done"), call.run)
             c == [call EXCEPT !.run = 0]
             d == [c EXCEPT !.mark["header_value"] = 0]
  <1>1. At("s_header_value") /\ Newline
    BY DEF HeaderValueLF, InValue, Newline
  <1>2. /\ call.mark["header_value"] # 0 /\ parser.state = "s_header_value"
        /\ call \in CallLike /\ parser'.http_errno = "HPE_OK" /\ call.pos \in Nat
    BY <1>1, InValueFacts, CallLikes DEF Telling, NoError, CallLike
  <1>3. q.state = "s_header_almost_done"
    BY <1>2, ValueEnds
  <1>4. c.mark = call.mark /\ d.pos = call.pos /\ d.cur = call.cur
    BY <1>2 DEF CallLike
  <1>5. \/ q.http_errno # "HPE_OK" /\ Return(q, call.pos)
        \/ Data("header_value", Length("header_value", call), q, call.pos, c)
    BY DEF HeaderValueLF
  <1> HIDE DEF q, c
  <1>6. DataThen("header_value", Length("header_value", call), q, call.pos, q, call.pos, c)
    BY <1>2, <1>5 DEF Data, Return
  <1>7. /\ cb'.for = "header_value" /\ Slice = Open(call, data, "header_value")
        /\ parser' = q /\ call' = d
    BY <1>2, <1>4, <1>6, DeliveredOpen DEF DataCb
  <1> HIDE DEF d
  <1>8. Cursor
    BY <1>4, <1>7 DEF Cursor
  <1> QED
    BY <1>1, <1>2, <1>3, <1>7, <1>8, ToldValue DEF TextStates

\* A byte of a value, and what the parser was to match it with.
LEMMA HeaderValueByteTold ==
    ASSUME Telling, Within, HeaderValueByte PROVE HeadersTold'
  <1> DEFINE q == ValueByte(parser, call.cur)
             r == call.run + 1
             c == [NextByte EXCEPT !.run = r]
  <1>1. At("s_header_value") /\ ValueGoesOn
    BY DEF HeaderValueByte, At, ValueGoesOn, Newline
  <1>2. /\ call.cur # NoByte /\ call.cur \in Lexeme /\ parser.state = "s_header_value"
        /\ parser.http_errno = "HPE_OK" /\ ParserInv(parser) /\ call.mark["header_value"] # 0
        /\ call \in CallLike /\ NextByte \in CallLike /\ NextByte.mark = call.mark
        /\ NextByte.pos = call.pos + 1 /\ call.run \in Nat /\ call.pos \in Nat
        /\ parser'.http_errno = "HPE_OK"
    BY <1>1, InValueFacts, CallLikes DEF Telling, NoError, CallLike
  <1>3. q.state = "s_header_value"
    BY <1>2, ValueByteInv
  <1>4. cb' = NoCb /\ Continue(q, c, call.pos)
    BY DEF HeaderValueByte
  <1> HIDE DEF q, r
  <1>5. c.mark = call.mark /\ c.pos = call.pos + 1 /\ c.run = r
    BY <1>2 DEF CallLike
  <1> HIDE DEF c
  <1>6. parser' = q /\ call' = c
    BY <1>2, <1>4, Continued
  <1>7. res.concat_header_field \/ res.concat_header_value
    BY <1>2, HeaderOrder DEF ValueStates
  <1> DEFINE k == 1
  <1>8. k \in Nat \ {0} /\ call'.pos = call.pos + k /\ call'.run - call.run = k
    BY <1>2, <1>5, <1>6 DEF r
  <1>9. cb'.for \notin HeaderCb
    BY <1>4 DEF NoCb, HeaderCb
  <1> HIDE DEF k
  <1> QED
    BY <1>1, <1>2, <1>3, <1>5, <1>6, <1>7, <1>8, <1>9, ToldValueGoesOn

\* The bytes of a value that memchr skips.
LEMMA HeaderValueSkipTold ==
    ASSUME Telling, Within, HeaderValueSkip PROVE HeadersTold'
  <1> DEFINE Skip(k, ch) == [call EXCEPT !.pos = call.pos + k, !.run = call.run + k, !.cur = ch]
             limit == Lesser(call.len - call.pos, HTTP_MAX_HEADER_SIZE)
             rest == call.len - call.pos
  <1>1. At("s_header_value") /\ ValueGoesOn
    BY DEF HeaderValueSkip, At, ValueGoesOn, Newline
  <1>2. /\ call.cur # NoByte /\ parser.state = "s_header_value"
        /\ call.mark["header_value"] # 0 /\ call \in CallLike
        /\ call.run \in Nat /\ call.pos \in Nat /\ call.len \in Nat
        /\ parser.http_errno = "HPE_OK" /\ call.pos < call.len
    <2>1. Offsets(call) /\ call.active
      BY WithinFacts DEF Within
    <2> QED
      BY <1>1, <2>1, InValueFacts, CallLikes DEF CallLike, Offsets
  <1>3. cb' = NoCb
    BY DEF HeaderValueSkip
  <1>4. rest \in Nat \ {0} /\ limit \in Nat
    BY <1>2, HeaderSizeAssumption DEF Lesser
  <1>5. \/ \E k \in 1..(limit - 1), ch \in Lexeme : Continue(parser, Skip(k, ch), call.pos)
        \/ Continue(parser, Skip(rest, NoByte), call.pos)
    <2>1. Offered(parser) \subseteq Lexeme
      BY WithinFacts, OfferedType
    <2> QED
      BY <2>1 DEF HeaderValueSkip
  <1>6. PICK k \in Nat \ {0}, ch \in Lexeme \cup {NoByte} :
           Continue(parser, Skip(k, ch), call.pos)
    <2>1. \A k \in 1..(limit - 1) : k \in Nat \ {0}
      BY <1>4
    <2> HIDE DEF limit, rest, Skip
    <2> QED
      BY <1>4, <1>5, <2>1
  <1> DEFINE x == call.pos + k
             y == call.run + k
             c == [call EXCEPT !.pos = x, !.run = y, !.cur = ch]
  <1>7. parser' = parser /\ call' = c
    BY <1>2, <1>6, Continued
  <1>8. c.pos = x /\ c.run = y /\ c.mark = call.mark
    <2> HIDE DEF x, y
    <2> QED
      BY <1>2 DEF CallLike
  <1> HIDE DEF c
  <1>9. call'.pos = call.pos + k /\ call'.run - call.run = k /\ call'.mark = call.mark
    BY <1>2, <1>7, <1>8
  <1>10. res.concat_header_field \/ res.concat_header_value
    BY <1>2, HeaderOrder DEF ValueStates
  <1>11. cb'.for \notin HeaderCb
    BY <1>3 DEF NoCb, HeaderCb
  <1> QED
    BY <1>1, <1>2, <1>7, <1>9, <1>10, <1>11, ToldValueGoesOn

\* An empty value, or white space before one.
LEMMA HeaderValueDiscardLwsTold ==
    ASSUME Telling, Within, HeaderValueDiscardLws PROVE HeadersTold'
  <1>1. CASE IsLws(call.cur)
    <2>1. Plainly
      BY <1>1, AroundPlain DEF Telling, NoError
    <2> QED
      BY <2>1, ToldPlain DEF Plainly
  <1>2. CASE ~IsLws(call.cur)
    <2> DEFINE q == [Move(parser, "s_header_field_start") EXCEPT
                         !.flags = @ \cup FlagOf(parser.header_state)]
               c == Marked(call, "header_value")
               d == [c EXCEPT !.mark["header_value"] = 0]
    <2>1. /\ ValueEmpty /\ call.cur # NoByte
          /\ DataThen("header_value", 0, q, call.pos, q, call.pos, c)
      BY <1>2 DEF HeaderValueDiscardLws, At, ValueEmpty, Data
    <2>2. /\ call \in CallLike /\ "header_value" \in DataCb /\ call.pos \in Nat
          /\ parser'.http_errno = "HPE_OK"
      BY CallLikes DEF CallLike, DataCb, Telling, NoError
    <2>3. /\ c \in CallLike /\ c.pos = call.pos /\ c.cur = call.cur
          /\ c.mark["header_value"] # 0
      BY <2>2, MarkedLike DEF CallLike
    <2>4. q.state = "s_header_field_start"
      BY HeaderEnds
    <2> HIDE DEF q, c
    <2>5. d.pos = call.pos /\ d.cur = call.cur
      BY <2>3 DEF CallLike
    <2> HIDE DEF d
    <2>6. /\ cb'.for = "header_value" /\ cb'.n = 0
          /\ parser' = q /\ (q.http_errno = "HPE_OK" => call' = d)
      BY <2>1, <2>2, <2>3, Delivered DEF d
    <2>7. Cursor
      BY <2>2, <2>5, <2>6 DEF Cursor
    <2> QED
      BY <2>1, <2>4, <2>6, <2>7, ToldEmpty DEF TextStates
  <1> QED
    BY <1>1, <1>2

\* The head of the loop, and the end of the loops over the strings: no byte is passed.
LEMMA LoopTold ==
    ASSUME Telling, Within, Fetch \/ LeaveInnerLoop PROVE HeadersTold'
  <1> DEFINE c(ch) == [call EXCEPT !.cur = ch]
             d == [call EXCEPT !.run = 0]
  <1>1. /\ call \in CallLike /\ call.pos \in Nat /\ call.run \in Nat /\ parser \in Parser
        /\ parser'.http_errno = "HPE_OK" /\ call.cur = NoByte /\ cb' = NoCb
    BY CallLikes, WithinFacts DEF CallLike, Telling, NoError, Fetch, LeaveInnerLoop
  <1>2. /\ \A ch : c(ch).pos = call.pos /\ c(ch).mark = call.mark
        /\ d.pos = call.pos /\ d.mark = call.mark
    BY <1>1 DEF CallLike
  <1>3. \E p \in {Count(parser, 1), parser, Count(parser, call.run)} :
           \/ \E ch : Continue(p, c(ch), call.pos)
           \/ Continue(p, d, call.pos)
    BY DEF Fetch, LeaveInnerLoop
  <1> HIDE DEF c, d
  <1>4. PICK p \in {Count(parser, 1), parser, Count(parser, call.run)} :
           /\ parser' = p /\ call'.pos = call.pos /\ call'.mark = call.mark
    BY <1>1, <1>2, <1>3, Continued
  <1> DEFINE n == 1
  <1>5. Count(parser, n).state = parser.state /\ Count(parser, call.run).state = parser.state
    <2>1. n \in Nat
      OBVIOUS
    <2> HIDE DEF n
    <2> QED
      BY <1>1, <2>1, CountType
  <1>6. parser'.state = parser.state
    BY <1>4, <1>5
  <1>7. Cursor
    BY <1>1, <1>4 DEF Cursor
  <1>8. \A f \in HeaderCb : Open(call', data', f) = Open(call, data, f)
    BY <1>4, TellingFacts, OpenKept DEF HeaderCb, DataCb
  <1> QED
    BY <1>1, <1>6, <1>7, <1>8, ToldKept DEF NoCb, HeaderCb

\* The end of the buffer: what is open is delivered so far.
LEMMA EndOfBufferTold ==
    ASSUME Telling, Within, EndOfBuffer PROVE HeadersTold'
  <1>1. call.cur = NoByte /\ parser'.http_errno = "HPE_OK" /\ call \in CallLike
        /\ MarkInv(parser, call)
    BY CallLikes, WithinFacts DEF EndOfBuffer, Telling, NoError
  <1>2. ASSUME NEW f \in DataCb, call.mark[f] # 0,
               Data(f, Length(f, call), parser, call.len, call)
        PROVE  HeadersTold'
    <2> DEFINE d == [call EXCEPT !.mark[f] = 0]
    <2>1. /\ cb'.for = f /\ Slice = Open(call, data, f) /\ parser' = parser /\ call' = d
      BY <1>1, <1>2, DeliveredOpen DEF Data
    <2>2. d.cur = NoByte /\ d.mark[f] = 0
      BY <1>1, <1>2 DEF CallLike
    <2> HIDE DEF d
    <2>3. Cursor /\ Open(call', data', f) = <<>>
      BY <2>1, <2>2 DEF Cursor, Open
    <2>4. parser.state \in MarkStates[f]
      BY <1>1, <1>2 DEF MarkInv
    <2>5. CASE f = "header_field"
      BY <1>1, <2>1, <2>3, <2>4, <2>5, MarkStatesOf, ToldName
    <2>6. CASE f = "header_value"
      BY <1>1, <2>1, <2>3, <2>4, <2>6, MarkStatesOf, ToldValue
    <2>7. CASE f \in {"status", "body"}
      <3>1. parser.state \notin TextStates /\ f \notin HeaderCb
        BY <2>4, <2>7, MarkStatesOf DEF TextStates, HeaderCb
      <3> QED
        BY <1>1, <2>1, <2>3, <3>1, ToldPlain
    <2> QED
      BY <2>5, <2>6, <2>7 DEF DataCb
  <1>3. CASE call.mark = NoMark /\ cb' = NoCb /\ Return(parser, call.len)
    <2>1. parser' = parser /\ call' = NoCall
      BY <1>3 DEF Return
    <2>2. \A f \in HeaderCb : Open(call', data', f) = Open(call, data, f)
      BY <1>3, <2>1 DEF NoCall, NoMark, HeaderCb, DataCb, Open
    <2>3. Cursor
      BY <2>1 DEF Cursor, NoCall
    <2> QED
      BY <1>1, <1>3, <2>1, <2>2, <2>3, ToldKept DEF NoCb, HeaderCb
  <1> QED
    BY <1>2, <1>3 DEF EndOfBuffer

-----------------------------------------------------------------------------
(* The invariant *)

\* Every step of a call in progress.
LEMMA RunTold ==
    ASSUME Telling, Run PROVE HeadersTold'
  <1>1. Within /\ parser'.http_errno = "HPE_OK"
    BY TellingWithin DEF Telling, NoError
  <1>2. CASE Fetch \/ LeaveInnerLoop \/ EndOfBuffer
    BY <1>1, <1>2, LoopTold, EndOfBufferTold
  <1>3. CASE Switch
    <2>1. ASSUME Plainly PROVE HeadersTold'
      BY <1>1, <2>1, ToldPlain DEF Plainly
    <2>2. CASE Dead \/ StartRes \/ Version \/ FirstStatusCode \/ StatusCode
               \/ StatusStart \/ Status \/ ResLineAlmostDone
               \/ HeaderAlmostDone \/ HeaderValueLws \/ HeaderValueDiscardWsAlmostDone
               \/ HeadersAlmostDone \/ HeadersDone \/ MessageDone
      BY <1>1, <2>1, <2>2, LinePlain, EndPlain
    <2>3. CASE BodyIdentity \/ BodyIdentityEof
               \/ ChunkSizeStart \/ ChunkSize \/ ChunkParameters \/ ChunkSizeAlmostDone
               \/ ChunkData \/ ChunkDataAlmostDone \/ ChunkDataDone
      BY <1>1, <2>1, <2>3, BodyPlain, ChunkPlain
    <2>4. CASE HeaderFieldStart \/ HeaderField \/ HeaderValueDiscardWs \/ HeaderValueStart
               \/ HeaderValueCR \/ HeaderValueLF \/ HeaderValueByte \/ HeaderValueSkip
               \/ HeaderValueDiscardLws
      BY <1>1, <2>4, HeaderFieldStartTold, HeaderFieldTold, ValueStartsTold,
         HeaderValueCRTold, HeaderValueLFTold, HeaderValueByteTold, HeaderValueSkipTold,
         HeaderValueDiscardLwsTold
    <2> QED
      BY <1>3, <2>2, <2>3, <2>4 DEF Switch
  <1> QED
    BY <1>2, <1>3 DEF Run

\* A call begins where the last one stopped, with the strings that it left open.
LEMMA CallTold ==
    ASSUME Telling, (\E n \in 1..MaxLen : Execute(n)) \/ Finish PROVE HeadersTold'
  <1>1. /\ ~call.active /\ parser'.http_errno = "HPE_OK" /\ parser.http_errno = "HPE_OK"
        /\ call = NoCall /\ parser \in Parser
    <2>1. StateInv(parser, call)
      BY DEF Telling, BodyInv, RInv, PInv, IInv
    <2> QED
      BY <2>1 DEF Telling, NoError, Execute, Finish, StateInv, ParserInv
  <1>2. \A f \in HeaderCb : call.mark[f] = 0
    BY <1>1 DEF NoCall, NoMark, HeaderCb, DataCb
  <1>3. CASE \E n \in 1..MaxLen : Execute(n)
    <2>1. PICK n \in 1..MaxLen :
             /\ call' = [NoCall EXCEPT !.active = TRUE, !.len = n,
                                       !.mark = OpenMark(parser.state)]
             /\ parser' = parser /\ cb' = NoCb
      BY <1>1, <1>3 DEF Execute
    <2>2. call'.cur = NoByte /\ call'.pos = 0 /\ call'.mark = OpenMark(parser.state)
      BY <2>1 DEF NoCall
    <2>3. \A f \in HeaderCb : call'.mark[f] \in {0, 1}
      BY <2>2 DEF OpenMark, HeaderCb, DataCb
    <2>4. \A f \in HeaderCb : Open(call', data', f) = Open(call, data, f)
      <3> SUFFICES ASSUME NEW f \in HeaderCb
                   PROVE  Open(call', data', f) = Open(call, data, f)
        OBVIOUS
      <3>1. Open(call, data, f) = <<>>
        BY <1>2 DEF Open
      <3>2. CASE call'.mark[f] = 0
        BY <3>1, <3>2 DEF Open
      <3>3. CASE call'.mark[f] = 1
        <4>1. Len(Open(call', data', f)) = 0 /\ Open(call', data', f) \in Seq(Lexeme)
          <5>1. MarksPassed(call') /\ f \in DataCb
            BY TellingFacts, BothCalls DEF HeaderCb, DataCb
          <5>2. data' \in Seq(Lexeme)
            BY TellingFacts, ReadFacts DEF DataOK
          <5>3. call'.pos + 1 - call'.mark[f] = 0 /\ call'.mark[f] # 0
            BY <2>2, <3>3
          <5> QED
            BY <5>1, <5>2, <5>3, OpenType
        <4> QED
          BY <3>1, <4>1
      <3> QED
        BY <2>3, <3>2, <3>3
    <2> QED
      BY <1>1, <2>1, <2>2, <2>4, ToldKept DEF Cursor, NoCb, HeaderCb
  <1>4. CASE Finish
    <2>1. /\ call' = NoCall /\ cb'.for \in {"none", "message_complete"}
          /\ parser' = parser
      <3>2. CASE parser.state = "s_body_identity_eof"
        <4>1. PICK ret \in CbRet : /\ cb'.for = "message_complete"
                                   /\ call' = NoCall /\ parser' = Called(parser, parser, ret)
          BY <1>1, <1>4, <3>2 DEF Finish, Return
        <4> QED
          BY <1>1, <4>1 DEF Called, Error, Parser
      <3>3. CASE parser.state \in {"s_dead", "s_start_res"}
        BY <1>1, <1>4, <3>3 DEF Finish, Return, NoCb
      <3>4. CASE parser.state \notin {"s_dead", "s_start_res", "s_body_identity_eof"}
        <4>1. parser' = Error(parser, "HPE_INVALID_EOF_STATE")
          BY <1>1, <1>4, <3>4 DEF Finish, Return
        <4> QED
          BY <1>1, <4>1 DEF Error, Parser
      <3> QED
        BY <3>2, <3>3, <3>4
    <2>2. \A f \in HeaderCb : Open(call', data', f) = Open(call, data, f)
      BY <1>1, <1>2, <2>1 DEF Open
    <2>3. Cursor /\ call = NoCall
      BY <1>1, <2>1 DEF Cursor, NoCall
    <2> QED
      BY <1>1, <2>1, <2>2, <2>3, ToldKept DEF HeaderCb
  <1> QED
    BY <1>3, <1>4

LEMMA HeadersInvInit ==
    ASSUME RInit PROVE HeadersInv
  <1>1. BodyInv
    BY BodyInvInit
  <1>2. /\ call = NoCall /\ parser.state = "s_start_res" /\ data = <<>>
        /\ wire.names = <<>> /\ wire.values = <<>>
    BY DEF RInit, PInit, Init, http_parser_init
  <1>3. /\ res.header_fields = <<>> /\ res.header_values = <<>> /\ res.headers_count = 0
        /\ ~res.concat_header_field
    BY DEF RInit, response_parser_init, http_response_init
  <1>4. Buffered
    BY <1>2 DEF Buffered, NoCall
  <1>5. Counts
    BY <1>3 DEF Counts
  <1>6. Names = <<>> /\ Values = <<>>
    BY <1>3 DEF Names, Values, Texts
  <1> QED
    BY <1>1, <1>2, <1>4, <1>5, <1>6 DEF HeadersInv, HeadersTold, NamesTold, ValuesTold

LEMMA HeadersInvNext ==
    ASSUME HeadersInv, RStep PROVE HeadersInv'
  <1>1. BodyInv'
    BY BodyInvNext DEF HeadersInv
  <1>2. CASE Handled
    <2>1. EngineStep /\ last' = (IF cb' = NoCb THEN last ELSE cb'.for) /\ Respond /\ History
      BY <1>2 DEF Handled, History
    <2>2. PInv' /\ Protocol!Next
      BY <2>1, EngineImplements DEF HeadersInv, BodyInv, RInv, EngineStep
    <2>3. ASSUME NoError' PROVE HeadersTold'
      <3>1. NoError
        BY <2>1, <2>2, <2>3, StepPasses DEF HeadersInv, BodyInv, NoError
      <3>2. Telling
        BY <2>1, <2>2, <2>3, <3>1 DEF HeadersInv, Telling
      <3> QED
        BY <2>1, <3>2, RunTold, CallTold DEF EngineStep
    <2> QED
      BY <1>1, <2>3 DEF HeadersInv
  <1>3. ASSUME UNCHANGED <<parser, call, data, wire>>, SameHeaders PROVE HeadersInv'
    <2>1. Names' = Names /\ Values' = Values /\ (Counts => Counts')
      BY <1>3 DEF SameHeaders, Names, Values, Counts
    <2>2. \A f : Open(call', data', f) = Open(call, data, f)
      BY <1>3
    <2>3. res'.concat_header_field = res.concat_header_field
      BY <1>3 DEF SameHeaders
    <2>4. NamesTold' = NamesTold /\ ValuesTold' = ValuesTold
      BY <1>3, <2>1, <2>3 DEF NamesTold, ValuesTold
    <2> QED
      BY <1>1, <1>3, <2>1, <2>4 DEF HeadersInv, HeadersTold, NoError, Buffered
  <1>4. CASE Free
    <2>1. UNCHANGED <<parser, call, data, wire>>
      BY <1>4 DEF Free, pvars, vars
    <2>2. SameHeaders
      BY <1>4, FreedHandled DEF Free, HeadersInv, BodyInv, RInv
    <2> QED
      BY <1>3, <2>1, <2>2
  <1>5. CASE UNCHANGED rvars
    BY <1>3, <1>5 DEF rvars, pvars, vars, SameHeaders
  <1> QED
    BY <1>2, <1>4, <1>5 DEF RStep

\* After the headers, no name is without its value.
LEMMA HeadersEnded ==
    ASSUME RInv, NoError, parser.state \in {"s_headers_done"} \cup BodyStates
    PROVE  ~res.concat_header_field
  <1>1. phase = PhaseFor(parser, last, eof) /\ parser.content_length \in Nat
    BY Mapping DEF RInv, PInv, IInv, StateInv, ParserInv, Parser
  <1>2. PhaseOf(BodyState(parser)) \in {"body", "close", "chunks", "done"}
    BY <1>1, BodyPhase
  <1>3. eof \in BOOLEAN
    BY DEF RInv, PInv, IInv
  <1>4. phase \notin {"name", "tname", "over"}
    <2>1. CASE parser.state = "s_headers_done"
      BY <1>1, <1>2, <2>1, PhaseFacts DEF NoError
    <2>2. CASE parser.state \in BodyStates
      BY <1>1, <1>3, <2>2, PhaseFacts DEF NoError, BodyStates, InChunk
    <2> QED
      BY <2>1, <2>2
  <1> QED
    BY <1>4 DEF RInv, Linked

-----------------------------------------------------------------------------
(* What the parser knows of a header's name *)

\* A name is being read, or white space before its value
NamingStates == {"s_header_field", "s_header_value_discard_ws",
                 "s_header_value_discard_ws_almost_done", "s_header_value_discard_lws"}

\* A value has begun
ValuedStates == {"s_header_value_start", "s_header_value", "s_header_almost_done",
                 "s_header_value_lws"}

\* header_state after the bytes t of a name
NameState(t) ==
    CASE Len(t) = 1 -> NameStart(t[1])
      [] Len(t) = 2 -> NameStep(NameStart(t[1]), t[2])
      [] OTHER      -> "h_general"

LEMMA NameGoesOn ==
    ASSUME NEW t \in Seq(Lexeme), NEW ch \in Lexeme
    PROVE  /\ NameState(<<ch>>) = NameStart(ch)
           /\ t # <<>> => NameState(t \o <<ch>>) = NameStep(NameState(t), ch)
  <1> DEFINE u == t \o <<ch>>
  <1>1. NameState(<<ch>>) = NameStart(ch)
    BY DEF NameState
  <1>2. u[Len(t) + 1] = ch /\ \A i \in 1..Len(t) : u[i] = t[i]
    OBVIOUS
  <1>3. Len(u) = Len(t) + 1 /\ Len(t) \in Nat /\ (t # <<>> => Len(t) >= 1)
    OBVIOUS
  <1> HIDE DEF u
  <1>4. ASSUME t # <<>> PROVE NameState(u) = NameStep(NameState(t), ch)
    <2>1. CASE Len(t) = 1
      <3>1. Len(u) = 2 /\ u[2] = ch /\ u[1] = t[1]
        BY <1>2, <1>3, <2>1
      <3> QED
        BY <2>1, <3>1 DEF NameState
    <2>2. CASE Len(t) # 1
      <3>4. t # <<>> /\ Len(t) # 1
        BY <1>4, <2>2
      <3>5. Len(t) >= 1
        BY <1>3, <3>4
      <3> DEFINE n == Len(t)
                 m == Len(u)
      <3>6. m = n + 1 /\ n \in Nat /\ n >= 1 /\ n # 1
        BY <1>3, <3>4, <3>5
      <3> HIDE DEF n, m
      <3>7. m # 1 /\ m # 2
        BY <3>6
      <3> Len(u) # 1 /\ Len(u) # 2
        BY <3>7 DEF m
      <3>1. NameState(u) = "h_general"
        BY DEF NameState
      <3>2. NameState(t) \in {"h_general", "h_connection", "h_content_length",
                              "h_transfer_encoding", "h_upgrade"}
        BY <2>2 DEF NameState, NameStep
      <3>3. NameStep(NameState(t), ch) = "h_general"
        BY <3>2 DEF NameStep
      <3> QED
        BY <3>1, <3>3
    <2> QED
      BY <2>1, <2>2
  <1> QED
    BY <1>1, <1>4 DEF u

LEMMA NameOfLength ==
    ASSUME NEW t \in Seq(Lexeme), IsContentLength(t) PROVE NameState(t) = "h_content_length"
  <1>1. Len(t) = 2 /\ t[1] = Letters("content-") /\ t[2] = Letters("length")
    BY DEF IsContentLength
  <1> QED
    BY <1>1 DEF NameState, NameStart, NameStep, Letters

-----------------------------------------------------------------------------
(* How the steps move the parser *)

\* The flags and the length stay as they are
Kept(q) == q.flags = parser.flags /\ q.content_length = parser.content_length

\* What a step that only goes to another state, or counts bytes, leaves alone.
Still(q) == Kept(q) /\ q.header_state = parser.header_state

LEMMA MoveType ==
    ASSUME NEW p \in Parser, NEW s \in State
    PROVE  /\ Move(p, s) \in Parser /\ Move(p, s).flags = p.flags /\ Move(p, s).state = s
           /\ Move(p, s).content_length = p.content_length
           /\ Move(p, s).header_state = p.header_state
  BY DEF Move, Parser

LEMMA MovesKept ==
    ASSUME parser \in Parser, NEW n \in Nat
    PROVE  /\ \A s \in State :
                 /\ Move(parser, s).state = s /\ Still(Move(parser, s))
                 /\ Move(Count(parser, n), s).state = s /\ Still(Move(Count(parser, n), s))
                 /\ Count(Move(parser, s), n).state = s /\ Still(Count(Move(parser, s), n))
                 /\ Move(parser, s) \in Parser /\ Move(Count(parser, n), s) \in Parser
                 /\ Count(Move(parser, s), n) \in Parser
           /\ \A e : Error(parser, e).http_errno = e /\ Error(Count(parser, n), e).http_errno = e
           /\ Count(parser, n).state = parser.state /\ Still(Count(parser, n))
           /\ Still(parser)
  <1>1. \A p \in Parser : \A e : Error(p, e).http_errno = e
    BY DEF Error, Parser
  <1>2. ASSUME NEW p \in Parser
        PROVE  /\ Count(p, n) \in Parser /\ Count(p, n).flags = p.flags
               /\ Count(p, n).state = p.state /\ Count(p, n).content_length = p.content_length
               /\ Count(p, n).header_state = p.header_state
    BY CountType
  <1>3. ASSUME NEW p \in Parser, NEW s \in State
        PROVE  /\ Move(p, s) \in Parser /\ Move(p, s).flags = p.flags /\ Move(p, s).state = s
               /\ Move(p, s).content_length = p.content_length
               /\ Move(p, s).header_state = p.header_state
    BY MoveType
  <1> QED
    BY <1>1, <1>2, <1>3 DEF Still, Kept

\* The status line, and the end of the headers.
LEMMA LineMoves ==
    ASSUME Within, parser'.http_errno = "HPE_OK",
           \/ Dead \/ Version \/ FirstStatusCode \/ StatusCode \/ StatusStart \/ Status
           \/ ResLineAlmostDone \/ (HeaderFieldStart /\ ~Token(call.cur))
    PROVE  /\ Kept(parser') /\ cb'.for \in {"none", "status"}
           /\ parser.state \in LineStates \cup {"s_dead", "s_header_field_start"}
           /\ \/ parser'.state = parser.state
              \/ parser.state # "s_dead"
                 /\ parser'.state \in LineStates \cup {"s_header_field_start",
                                                       "s_headers_almost_done"}
  <1>1. parser \in Parser /\ NoCb.for = "none" /\ Kept(parser)
    BY WithinFacts DEF NoCb, Kept
  <1>2. parser.state \in LineStates \cup {"s_dead", "s_header_field_start"}
    BY DEF Dead, Version, FirstStatusCode, StatusCode, StatusStart, Status, ResLineAlmostDone,
       HeaderFieldStart, At, LineStates
  <1> DEFINE S == LineStates \cup {"s_header_field_start", "s_headers_almost_done"}
             Moved == \E s \in S : parser.state # "s_dead" /\ parser' = Move(parser, s)
  <1>3. S \subseteq State
    BY DEF LineStates, State, HeaderPhaseStates
  <1>4. ASSUME parser' = parser \/ Moved, cb'.for \in {"none", "status"} PROVE
           /\ Kept(parser')
           /\ \/ parser'.state = parser.state
              \/ parser.state # "s_dead" /\ parser'.state \in S
    BY <1>1, <1>3, <1>4, MoveType DEF Kept
  <1>5. CASE Version
    <2> DEFINE b == call.cur.v > 0
               m == [Move(parser, "s_res_first_status_code") EXCEPT !.http11 = b]
    <2>1. \/ Step(m)
          \/ \E e \in {"HPE_STRICT", "HPE_INVALID_VERSION"} : Step(Error(parser, e))
      BY <1>5 DEF Version
    <2> HIDE DEF b
    <2>2. m.state = "s_res_first_status_code" /\ Kept(m)
      BY <1>1 DEF Move, Parser, Kept
    <2> HIDE DEF m
    <2>3. cb' = NoCb /\ parser' = m
      BY <2>1, MoveFacts, StepMoves
    <2> QED
      BY <1>1, <1>2, <1>5, <2>2, <2>3 DEF LineStates, Version, At
  <1>6. CASE FirstStatusCode
    <2> DEFINE v == call.cur.v
               m == [Move(parser, "s_res_status_code") EXCEPT !.status_code = v]
    <2>1. Step(parser) \/ Step(m) \/ Step(Error(parser, "HPE_INVALID_STATUS"))
      BY <1>6 DEF FirstStatusCode
    <2> HIDE DEF v
    <2>2. m.state = "s_res_status_code" /\ Kept(m)
      BY <1>1 DEF Move, Parser, Kept
    <2> HIDE DEF m
    <2>3. cb' = NoCb /\ parser' \in {parser, m}
      BY <2>1, MoveFacts, StepMoves
    <2> QED
      BY <1>1, <1>2, <1>6, <2>2, <2>3 DEF LineStates, FirstStatusCode, At
  <1>7. CASE Dead \/ StatusCode \/ ResLineAlmostDone \/ (HeaderFieldStart /\ ~Token(call.cur))
    <2>1. \/ Step(parser)
          \/ \E s \in S : parser.state # "s_dead"
                          /\ (Step(Move(parser, s)) \/ Reexecute(Move(parser, s)))
          \/ \E e \in Errno \ {"HPE_OK"} : Step(Error(parser, e))
      <3>1. CASE Dead
        BY <3>1 DEF Dead, Errno
      <3>2. CASE StatusCode \/ ResLineAlmostDone
        BY <3>2 DEF StatusCode, ResLineAlmostDone, Errno, LineStates, At
      <3>3. CASE (HeaderFieldStart /\ ~Token(call.cur))
        BY <3>3 DEF HeaderFieldStart, Errno, At
      <3> QED
        BY <1>7, <3>1, <3>2, <3>3
    <2>2. cb' = NoCb /\ (parser' = parser \/ Moved)
      BY <2>1, MoveFacts, StepMoves
    <2> QED
      BY <1>1, <1>2, <1>4, <2>2
  <1>8. CASE StatusStart
    <2>1. \/ \E s \in S : Step(Move(parser, s))
          \/ /\ cb' = NoCb
             /\ Continue(Move(parser, "s_res_status"), Marked(NextByte, "status"), call.pos)
      BY <1>8 DEF StatusStart, LineStates
    <2>2. cb' = NoCb /\ \E s \in S : parser' = Move(parser, s)
      BY <2>1, StepMoves, ContinueMoves DEF LineStates
    <2>3. parser.state # "s_dead"
      BY <1>8 DEF StatusStart, At
    <2> QED
      BY <1>1, <1>2, <1>4, <2>2, <2>3
  <1>9. CASE Status
    <2>1. PICK s \in {"s_res_line_almost_done", "s_header_field_start"} :
             \/ Step(parser)
             \/ Data("status", Length("status", call), Move(parser, s), call.pos + 1, NextByte)
      BY <1>9 DEF Status
    <2>2. cb'.for \in {"none", "status"} /\ parser' \in {parser, Move(parser, s)}
      <3>1. Move(parser, s) \in Parser
        BY <1>1 DEF Move, Parser, State, HeaderPhaseStates
      <3> QED
        BY <1>1, <2>1, <3>1, StepMoves, DataMoves DEF Data
    <2>3. parser.state # "s_dead" /\ s \in S
      BY <1>9 DEF Status, At, LineStates
    <2> QED
      BY <1>1, <1>2, <1>4, <2>2, <2>3
  <1> HIDE DEF S
  <1>10. CASE Dead \/ StatusCode \/ ResLineAlmostDone \/ StatusStart \/ Status
              \/ (HeaderFieldStart /\ ~Token(call.cur))
    BY <1>2, <1>7, <1>8, <1>9, <1>10 DEF S
  <1> QED
    BY <1>5, <1>6, <1>10


\* While the headers of a message are read, a Content-Length that was accepted is a number
LengthRead(p) ==
    p.state \in HeadSet /\ "F_TRAILING" \notin p.flags /\ "F_CONTENTLENGTH" \in p.flags
        => p.content_length < ULLONG_MAX

\* A step that leaves what is known of the header's name, and the length, as they are
Steady ==
    /\ parser.flags \subseteq parser'.flags \/ parser.state = "s_start_res"
    /\ LengthRead(parser) => LengthRead(parser')
    /\ parser'.state \in NamingStates
          => parser.state \in NamingStates /\ parser'.header_state = parser.header_state
    /\ parser.state \in NamingStates => parser'.state \in NamingStates
    /\ parser'.state \in ValuedStates => parser.state \in ValuedStates
    /\ parser'.state \in {"s_start_res", "s_dead"}
          => parser.state \in {"s_start_res", "s_dead"} \/ cb'.for = "message_complete"

LEMMA LineSteady ==
    ASSUME Within, parser'.http_errno = "HPE_OK",
           \/ Dead \/ Version \/ FirstStatusCode \/ StatusCode \/ StatusStart \/ Status
           \/ ResLineAlmostDone \/ (HeaderFieldStart /\ ~Token(call.cur))
    PROVE  Steady
  <1>1. /\ Kept(parser')
        /\ parser.state \in LineStates \cup {"s_dead", "s_header_field_start"}
        /\ \/ parser'.state = parser.state
           \/ parser.state # "s_dead"
              /\ parser'.state \in LineStates \cup {"s_header_field_start",
                                                    "s_headers_almost_done"}
    BY LineMoves
  <1>2. LineStates \cup {"s_header_field_start"} \subseteq HeadSet
    BY DEF LineStates, HeadSet, HeaderPhaseStates, ChunkStates
  <1>3. LengthRead(parser) => LengthRead(parser')
    BY <1>1, <1>2 DEF LengthRead, Kept
  <1>4. /\ {parser.state, parser'.state} \cap (NamingStates \cup ValuedStates) = {}
        /\ parser'.state \in {"s_start_res", "s_dead"} => parser.state \in {"s_start_res", "s_dead"}
    BY <1>1 DEF LineStates, NamingStates, ValuedStates
  <1> QED
    BY <1>1, <1>3, <1>4 DEF Steady, Kept

LEMMA StartSteady ==
    ASSUME Within, parser'.http_errno = "HPE_OK", StartRes PROVE Steady
  <1> DEFINE p == [parser EXCEPT !.flags = {}, !.content_length = ULLONG_MAX]
             m == Move(p, "s_res_H")
  <1>1. /\ p \in Parser /\ p.flags = {} /\ p.state = "s_start_res"
        /\ m \in Parser /\ m.flags = {} /\ m.state = "s_res_H" /\ parser.state = "s_start_res"
    BY WithinFacts, LengthAssumption
       DEF StartRes, At, Parser, Flag, Move, State, HeaderPhaseStates
  <1>2. Error(p, "HPE_INVALID_CONSTANT").http_errno # "HPE_OK"
    BY <1>1 DEF Error, Parser
  <1>3. \/ Notify("message_begin", m, NextByte, call.pos + 1)
        \/ Notify("message_begin", p, NextByte, call.pos + 1)
        \/ Step(Error(p, "HPE_INVALID_CONSTANT"))
    BY DEF StartRes
  <1> HIDE DEF p, m
  <1>4. parser' \in {p, m} /\ cb'.for = "message_begin"
    BY <1>1, <1>2, <1>3, NotifyMoves, StepMoves
  <1>5. parser'.flags = {} /\ parser'.state \in {"s_start_res", "s_res_H"}
    BY <1>1, <1>4
  <1> QED
    BY <1>1, <1>5 DEF Steady, LengthRead, NamingStates, ValuedStates

\* The end of the headers, and of a message that has no body or whose body has been read.
LEMMA EndSteady ==
    ASSUME Within, parser'.http_errno = "HPE_OK", HeadersAlmostDone \/ HeadersDone \/ MessageDone
    PROVE  Steady
  <1>1. parser \in Parser /\ \A e : Error(parser, e).http_errno = e
    BY WithinFacts DEF Error, Parser
  <1>2. ASSUME parser.state \notin NamingStates \cup ValuedStates,
               parser'.state \notin HeadSet, parser.flags \subseteq parser'.flags,
               parser'.state \in {"s_start_res", "s_dead"} => cb'.for = "message_complete"
        PROVE  Steady
    <2>1. NamingStates \cup ValuedStates \subseteq HeadSet
      BY DEF NamingStates, ValuedStates, HeadSet, HeaderPhaseStates, ChunkStates
    <2> QED
      BY <1>2, <2>1 DEF Steady, LengthRead
  <1>3. {"s_headers_done", "s_message_done", "s_chunk_size_start", "s_body_identity",
         "s_body_identity_eof", "s_start_res", "s_dead"} \cap HeadSet = {}
    BY DEF HeadSet, HeaderPhaseStates, ChunkStates
  <1>4. {"s_headers_almost_done", "s_headers_done", "s_message_done"}
            \cap (NamingStates \cup ValuedStates) = {}
    BY DEF NamingStates, ValuedStates
  <1> HIDE DEF HeadSet, NamingStates, ValuedStates
  <1>5. ASSUME NEW p \in Parser, MessageComplete(p), p.flags = parser.flags,
               parser.state \in {"s_headers_done", "s_message_done"}
        PROVE  Steady
    BY <1>2, <1>3, <1>4, <1>5, Completed
  <1>6. CASE HeadersAlmostDone
    <2> DEFINE u == {"F_UPGRADE", "F_CONNECTION_UPGRADE"} \subseteq parser.flags
               p == [Move(parser, "s_headers_done") EXCEPT !.upgrade = u]
               m == Move(parser, "s_message_done")
    <2>1. /\ p \in Parser /\ p.flags = parser.flags /\ p.state = "s_headers_done"
          /\ m \in Parser /\ m.flags = parser.flags /\ m.state = "s_message_done"
          /\ parser.state = "s_headers_almost_done"
      <3> HIDE DEF u
      <3>1. u \in BOOLEAN
        BY DEF u
      <3> QED
        BY <1>1, <1>6, <3>1 DEF Move, Parser, State, HeaderPhaseStates, BodyStates,
           HeadersAlmostDone, At
    <2>2. \/ Step(Error(parser, "HPE_STRICT"))
          \/ Notify("chunk_complete", m, call, call.pos)
          \/ Step(Error(parser, "HPE_UNEXPECTED_CONTENT_LENGTH"))
          \/ HeadersComplete(p)
      BY <1>6 DEF HeadersAlmostDone
    <2> HIDE DEF p, m
    <2>3. CASE Notify("chunk_complete", m, call, call.pos)
      <3>1. parser' = m
        BY <2>1, <2>3, NotifyMoves
      <3> QED
        BY <1>2, <1>3, <1>4, <2>1, <3>1
    <2>4. CASE HeadersComplete(p)
      <3> DEFINE f == p.flags \cup {"F_SKIPBODY"}
      <3>1. \/ parser' \in {p, [p EXCEPT !.flags = f], Error(p, "HPE_CB")}
            \/ parser' = [p EXCEPT !.flags = f, !.upgrade = TRUE]
        BY <2>4, ContinueMoves DEF HeadersComplete
      <3> HIDE DEF f
      <3>2. Error(p, "HPE_CB").http_errno = "HPE_CB"
        BY <2>1 DEF Error, Parser
      <3>3. parser'.state = "s_headers_done" /\ parser'.flags \in {p.flags, f}
        BY <2>1, <3>1, <3>2 DEF Parser
      <3>4. parser.flags \subseteq parser'.flags
        BY <2>1, <3>3 DEF f
      <3> QED
        BY <1>2, <1>3, <1>4, <2>1, <3>3, <3>4
    <2> QED
      BY <1>1, <2>2, <2>3, <2>4, StepMoves
  <1>7. CASE HeadersDone
    <2> DEFINE p == [parser EXCEPT !.nread = 0]
               s == BodyState(p)
    <2>1. p \in Parser /\ p.flags = parser.flags /\ parser.state = "s_headers_done"
      BY <1>1, <1>7 DEF HeadersDone, At, Parser
    <2>2. \/ Step(Error(parser, "HPE_STRICT"))
          \/ s # "none" /\ Step(Move(p, s))
          \/ MessageComplete(p)
      BY <1>7 DEF HeadersDone
    <2>3. s \in {"none", "s_chunk_size_start", "s_body_identity", "s_body_identity_eof"}
      BY DEF BodyState
    <2> HIDE DEF p, s
    <2>4. CASE s # "none" /\ Step(Move(p, s))
      <3>1. s \in State
        BY <2>3, <2>4 DEF State, HeaderPhaseStates, BodyStates
      <3>2. parser' = Move(p, s) /\ parser'.state = s /\ parser'.flags = p.flags
        BY <2>1, <2>4, <3>1, StepMoves, MoveType
      <3> QED
        BY <1>2, <1>3, <1>4, <2>1, <2>3, <2>4, <3>2
    <2> QED
      BY <1>1, <1>5, <2>1, <2>2, <2>4, StepMoves
  <1>8. CASE MessageDone
    BY <1>1, <1>5, <1>8 DEF MessageDone, At
  <1> QED
    BY <1>6, <1>7, <1>8

\* Bodies, chunks, and the bytes between two states.
LEMMA BodySteady ==
    ASSUME Within, parser'.http_errno = "HPE_OK", BodyIdentity \/ BodyIdentityEof PROVE Steady
  <1> DEFINE k == parser.content_length - ToRead
             p == [parser EXCEPT !.content_length = k]
             m == Move(p, "s_message_done")
             c == Marked(Advance(ToRead), "body")
  <1>1. /\ parser \in Parser /\ call \in CallLike
        /\ parser.state \in {"s_body_identity", "s_body_identity_eof"}
    BY CallLikes, WithinFacts DEF BodyIdentity, BodyIdentityEof, At
  <1>2. CASE BodyIdentity
    <2>1. ToRead \in Nat /\ ToRead <= parser.content_length /\ parser.content_length \in Nat
      <3>1. parser.content_length \in Nat /\ call.len - call.pos \in Nat
        <4>1. call.pos <= call.len
          BY WithinFacts, <1>2 DEF BodyIdentity, At, Offsets
        <4> QED
          BY <1>1, <4>1 DEF Parser, CallLike
      <3> QED
        BY <3>1 DEF ToRead, Lesser
    <2>2. k \in Nat
      BY <2>1
    <2>3. \/ Data("body", c.pos + 2 - c.mark["body"], m, c.pos, c)
          \/ Continue(p, [c EXCEPT !.pos = @ + 1, !.cur = NoByte], call.pos)
      BY <1>2 DEF BodyIdentity
    <2> HIDE DEF k, c
    <2>4. /\ p \in Parser /\ p.flags = parser.flags /\ p.state = parser.state
          /\ m \in Parser /\ m.flags = parser.flags /\ m.state = "s_message_done"
      BY <1>1, <2>2 DEF Move, Parser, State, BodyStates
    <2> HIDE DEF p, m
    <2>5. parser' \in {m, p}
      BY <2>3, <2>4, DataMoves, ContinueMoves DEF Data
    <2>6. parser'.flags = parser.flags
          /\ parser'.state \in {"s_body_identity", "s_body_identity_eof", "s_message_done"}
      BY <1>1, <2>4, <2>5
    <2> QED
      BY <1>1, <2>6 DEF Steady, LengthRead, HeadSet, HeaderPhaseStates, NamingStates, ValuedStates
  <1>3. CASE BodyIdentityEof
    <2>1. parser' = parser
      BY <1>3, ContinueMoves DEF BodyIdentityEof
    <2> QED
      BY <1>1, <2>1 DEF Steady
  <1> QED
    BY <1>2, <1>3

LEMMA ChunkSteady ==
    ASSUME Within, parser'.http_errno = "HPE_OK",
           \/ ChunkSizeStart \/ ChunkSize \/ ChunkParameters \/ ChunkSizeAlmostDone
           \/ ChunkData \/ ChunkDataAlmostDone \/ ChunkDataDone
    PROVE  Steady
  <1>1. ChunksKept(parser')
    BY ChunkSteps
  <1>2. parser.state \in ChunkStates
    BY DEF ChunkSizeStart, ChunkSize, ChunkParameters,
       ChunkSizeAlmostDone, ChunkData, ChunkDataAlmostDone, ChunkDataDone, At, ChunkStates
  <1>3. ChunkStates \cap (HeadSet \cup NamingStates \cup ValuedStates \cup {"s_start_res", "s_dead"}) = {}
    BY DEF ChunkStates, HeadSet, NamingStates, ValuedStates
  <1>4. "s_header_field_start" \notin NamingStates \cup ValuedStates \cup {"s_start_res", "s_dead"}
    BY DEF NamingStates, ValuedStates
  <1> QED
    BY <1>1, <1>2, <1>3, <1>4 DEF Steady, ChunksKept, LengthRead

LEMMA SameSteady ==
    ASSUME SameFrame(parser') PROVE Steady
  BY DEF SameFrame, Steady, LengthRead

\* A header ends, or its value has not begun: the states of one are left for those of another.
LEMMA MovesSteady ==
    ASSUME parser \in Parser, parser'.flags = parser.flags,
           parser'.content_length = parser.content_length,
           parser'.header_state = parser.header_state,
           \/ {parser.state, parser'.state} \subseteq NamingStates
           \/ {parser.state, parser'.state} \subseteq ValuedStates
    PROVE  Steady
  <1>1. NamingStates \cup ValuedStates \subseteq HeadSet /\ NamingStates \cap ValuedStates = {}
    BY DEF NamingStates, ValuedStates, HeadSet, HeaderPhaseStates, ChunkStates
  <1>2. {"s_start_res", "s_dead"} \cap (NamingStates \cup ValuedStates) = {}
    BY DEF NamingStates, ValuedStates
  <1> HIDE DEF HeadSet, NamingStates, ValuedStates
  <1> QED
    BY <1>1, <1>2 DEF Steady, LengthRead

\* The steps around the bytes of a name or a value.
LEMMA ValueSteady ==
    ASSUME Within, parser'.http_errno = "HPE_OK",
           \/ HeaderField /\ ~Token(call.cur)
           \/ HeaderValueDiscardWs /\ (IsLws(call.cur) \/ Newline)
           \/ HeaderValueDiscardWsAlmostDone
           \/ HeaderValueDiscardLws /\ IsLws(call.cur)
           \/ HeaderValueCR \/ HeaderValueLF \/ HeaderAlmostDone \/ HeaderValueLws
    PROVE  Steady
  <1>1. /\ parser \in Parser /\ call.run \in Nat
        /\ \A e : Error(parser, e).http_errno = e
        /\ \A e : Error(Count(parser, call.run), e).http_errno = e
    BY CallLikes, WithinFacts, MovesKept DEF CallLike
  <1> DEFINE N == Count(parser, call.run)
  <1>2. /\ {"s_header_field", "s_header_value_discard_ws", "s_header_value_discard_lws",
            "s_header_value_discard_ws_almost_done"} = NamingStates
        /\ {"s_header_value", "s_header_almost_done", "s_header_value_lws",
            "s_header_value_start"} = ValuedStates
        /\ NamingStates \cup ValuedStates \cup {"s_header_field_start"} \subseteq State
    BY DEF NamingStates, ValuedStates, State, HeaderPhaseStates
  <1>3. ASSUME NEW s, Still(parser'), parser'.state = s,
               {parser.state, s} \subseteq NamingStates \/ {parser.state, s} \subseteq ValuedStates
        PROVE  Steady
    BY <1>1, <1>3, MovesSteady DEF Still, Kept
  <1>4. ASSUME NEW s \in NamingStates \cup ValuedStates
        PROVE  /\ Move(parser, s) \in Parser /\ Still(Move(parser, s)) /\ Move(parser, s).state = s
               /\ Still(Move(N, s)) /\ Move(N, s).state = s /\ Move(N, s) \in Parser
               /\ Still(Count(Move(parser, s), call.run)) /\ Count(Move(parser, s), call.run) \in Parser
               /\ Count(Move(parser, s), call.run).state = s
    BY <1>1, <1>2, MovesKept
  <1> HIDE DEF NamingStates, ValuedStates
  <1>5. CASE HeaderField /\ ~Token(call.cur)
    <2>1. \/ N.http_errno # "HPE_OK" /\ Step(N)
          \/ Data("header_field", Length("header_field", call),
                  Move(N, "s_header_value_discard_ws"), call.pos + 1, NextByte)
          \/ Step(Error(N, "HPE_INVALID_HEADER_TOKEN"))
      BY <1>5 DEF HeaderField
    <2> HIDE DEF N
    <2>2. parser' = Move(N, "s_header_value_discard_ws")
      BY <1>1, <1>2, <1>4, <2>1, StepMoves, DataMoves DEF Data, N
    <2>3. parser.state = "s_header_field"
      BY <1>5 DEF HeaderField, At
    <2> QED
      BY <1>2, <1>3, <1>4, <2>2, <2>3
  <1> HIDE DEF N
  <1>6. CASE HeaderValueDiscardWs /\ (IsLws(call.cur) \/ Newline)
    <2>1. \/ Step(parser)
          \/ Step(Move(parser, "s_header_value_discard_ws_almost_done"))
          \/ Step(Move(parser, "s_header_value_discard_lws"))
      BY <1>6 DEF HeaderValueDiscardWs, Newline
    <2>2. parser.state = "s_header_value_discard_ws"
      BY <1>6 DEF HeaderValueDiscardWs, At
    <2>3. parser' = parser \/ \E s \in NamingStates : parser' = Move(parser, s)
      BY <1>2, <2>1, StepMoves
    <2> QED
      BY <1>2, <1>3, <1>4, <2>2, <2>3 DEF Still, Kept
  <1>7. CASE HeaderValueDiscardWsAlmostDone \/ (HeaderValueDiscardLws /\ IsLws(call.cur))
    <2>1. /\ parser.state \in {"s_header_value_discard_ws_almost_done",
                               "s_header_value_discard_lws"}
          /\ \/ Step(Error(parser, "HPE_STRICT"))
             \/ Step(Move(parser, "s_header_value_discard_lws"))
             \/ Step(Move(parser, "s_header_value_discard_ws"))
      BY <1>7 DEF HeaderValueDiscardWsAlmostDone, HeaderValueDiscardLws, At
    <2>2. \E s \in NamingStates : parser' = Move(parser, s)
      BY <1>1, <1>2, <2>1, StepMoves
    <2> QED
      BY <1>2, <1>3, <1>4, <2>1, <2>2
  <1>8. CASE HeaderValueCR
    <2> DEFINE p == Move(parser, "s_header_almost_done")
    <2>1. /\ parser.state = "s_header_value"
          /\ DataThen("header_value", Length("header_value", call), p, call.pos + 1,
                      Count(p, call.run), call.pos, NextByte)
      BY <1>8 DEF HeaderValueCR, InValue, At
    <2>2. p \in Parser
      BY <1>2, <1>4
    <2> HIDE DEF p
    <2>3. parser' = Count(p, call.run)
      BY <2>1, <2>2, DataMoves
    <2> QED
      BY <1>2, <1>3, <1>4, <2>1, <2>3 DEF p
  <1>9. CASE HeaderValueLF
    <2> DEFINE p == Count(Move(parser, "s_header_almost_done"), call.run)
    <2>1. /\ parser.state = "s_header_value"
          /\ \/ p.http_errno # "HPE_OK" /\ Return(p, call.pos)
             \/ Data("header_value", Length("header_value", call), p, call.pos,
                     [call EXCEPT !.run = 0])
      BY <1>9 DEF HeaderValueLF, InValue, At
    <2>2. p \in Parser
      BY <1>2, <1>4
    <2> HIDE DEF p
    <2>3. parser' = p
      BY <2>1, <2>2, DataMoves DEF Return, Data
    <2> QED
      BY <1>2, <1>3, <1>4, <2>1, <2>3 DEF p
  <1>10. CASE HeaderAlmostDone
    <2>1. /\ parser.state = "s_header_almost_done"
          /\ Step(Error(parser, "HPE_LF_EXPECTED")) \/ Step(Move(parser, "s_header_value_lws"))
      BY <1>10 DEF HeaderAlmostDone, At
    <2>2. parser' = Move(parser, "s_header_value_lws")
      BY <1>1, <2>1, StepMoves
    <2> QED
      BY <1>2, <1>3, <1>4, <2>1, <2>2
  <1>11. CASE HeaderValueLws
    <2> DEFINE f == parser.flags \cup FlagOf(parser.header_state)
               ended == [Move(parser, "s_header_field_start") EXCEPT !.flags = f]
    <2>1. /\ parser.state = "s_header_value_lws"
          /\ Reexecute(Move(parser, "s_header_value_start")) \/ Reexecute(ended)
      BY <1>1, <1>11 DEF HeaderValueLws, At, Move, Parser
    <2>2. CASE parser' = Move(parser, "s_header_value_start")
      BY <1>2, <1>3, <1>4, <2>1, <2>2
    <2>3. CASE parser' = ended
      <3>1. f = parser.flags \cup FlagOf(parser.header_state)
        OBVIOUS
      <3> HIDE DEF f
      <3>2. /\ parser'.state = "s_header_field_start" /\ parser'.flags = f
            /\ parser'.content_length = parser.content_length
        BY <1>1, <2>3 DEF Move, Parser
      <3>3. /\ "F_CONTENTLENGTH" \in f => "F_CONTENTLENGTH" \in parser.flags
            /\ parser.flags \subseteq f
        BY <3>1 DEF FlagOf
      <3>4. parser.state \in HeadSet
        BY <2>1 DEF HeadSet, HeaderPhaseStates, ChunkStates
      <3> QED
        BY <2>1, <3>2, <3>3, <3>4 DEF Steady, LengthRead, NamingStates, ValuedStates
    <2> HIDE DEF ended
    <2> QED
      BY <2>1, <2>2, <2>3, StepMoves
  <1> QED
    BY <1>5, <1>6, <1>7, <1>8, <1>9, <1>10, <1>11

\* A value begins: a Content-Length is a digit, so far, and its flag is set.
LEMMA ValueStartLength ==
    ASSUME Within, parser.state \in HeadSet, NEW ch \in Lexeme,
           ValueStart(ch).http_errno = "HPE_OK"
    PROVE  /\ ValueStart(ch).state = "s_header_value" /\ HeadKept(ValueStart(ch))
           /\ LengthRead(parser) => LengthRead(ValueStart(ch))
           /\ parser.header_state = "h_content_length"
                 => IsNum(ch) /\ "F_CONTENTLENGTH" \in ValueStart(ch).flags
  <1> DEFINE p == Move(parser, "s_header_value")
             To(s) == [p EXCEPT !.header_state = s]
             Adds(f) == [To("h_general") EXCEPT !.flags = @ \cup {f}]
             v == ch.v
             l == [p EXCEPT !.flags = @ \cup {"F_CONTENTLENGTH"}, !.content_length = v]
             q == ValueStart(ch)
  <1>1. /\ parser \in Parser /\ p.state = "s_header_value" /\ p.flags = parser.flags
        /\ p.content_length = parser.content_length /\ v \in Nat
    BY WithinFacts DEF Move, Parser, Lexeme
  <1>2. \A e : Error(p, e).http_errno = e
    BY <1>1 DEF Move, Error, Parser
  <1>3. /\ parser.header_state = "h_content_length" => IsNum(ch) /\ q = l
        /\ parser.header_state # "h_content_length"
              => q \in {p, Adds("F_UPGRADE")} \/ \E s : q = To(s)
    BY <1>2 DEF ValueStart
  <1>4. \A s : To(s).state = "s_header_value" /\ To(s).flags = parser.flags
               /\ To(s).content_length = parser.content_length
    BY <1>1 DEF Move, Parser
  <1>5. /\ Adds("F_UPGRADE").state = "s_header_value"
        /\ Adds("F_UPGRADE").flags = parser.flags \cup {"F_UPGRADE"}
        /\ Adds("F_UPGRADE").content_length = parser.content_length
    BY <1>1 DEF Move, Parser
  <1>6. /\ l.state = "s_header_value" /\ l.flags = parser.flags \cup {"F_CONTENTLENGTH"}
        /\ l.content_length = v
    <2> HIDE DEF v
    <2> QED
      BY <1>1 DEF Move, Parser
  <1>7. IsNum(ch) => v < ULLONG_MAX
    BY <1>1, LengthAssumption DEF IsNum
  <1>8. HeadKept(q)
    BY ValueStartKept
  <1> HIDE DEF p, To, Adds, l, HeadSet, q, v
  <1>9. CASE parser.header_state = "h_content_length"
    BY <1>1, <1>3, <1>6, <1>7, <1>8, <1>9 DEF LengthRead, q
  <1>10. CASE parser.header_state # "h_content_length"
    <2>1. /\ q.state = "s_header_value" /\ q.content_length = parser.content_length
          /\ q.flags \subseteq parser.flags \cup {"F_UPGRADE"}
      BY <1>1, <1>3, <1>4, <1>5, <1>10
    <2>2. LengthRead(parser) => LengthRead(q)
      BY <1>8, <2>1 DEF LengthRead, HeadKept
    <2> QED
      BY <1>8, <1>10, <2>1, <2>2 DEF q
  <1> QED
    BY <1>9, <1>10

\* A value goes on: a length with one more digit stays below the mark of no length.
LEMMA ValueByteLength ==
    ASSUME Within, parser.state = "s_header_value", NEW ch \in Lexeme,
           ValueByte(parser, ch).http_errno = "HPE_OK"
    PROVE  /\ ValueByte(parser, ch).state = "s_header_value" /\ HeadKept(ValueByte(parser, ch))
           /\ LengthRead(parser) => LengthRead(ValueByte(parser, ch))
  <1> DEFINE v == ch.v
             l == parser.content_length * 10 + v
             h == ValueStep(parser.header_state, ch)
             f == IF ch.c = "," /\ parser.header_state # "h_transfer_encoding_chunked"
                  THEN parser.flags \cup FlagOf(parser.header_state) ELSE parser.flags
             q == ValueByte(parser, ch)
  <1>1. /\ parser \in Parser /\ \A e : Error(parser, e).http_errno = e
        /\ parser.content_length \in Nat /\ v \in Nat
    BY WithinFacts DEF Error, Parser, Lexeme
  <1>2. \/ q = parser
        \/ IsNum(ch) /\ ~Overflow(parser.content_length, 10)
           /\ q = [parser EXCEPT !.content_length = l]
        \/ q = [parser EXCEPT !.header_state = h, !.flags = f]
    BY <1>1 DEF ValueByte, LengthDigit
  <1>3. parser.state \in HeadSet
    BY DEF HeadSet, HeaderPhaseStates, ChunkStates
  <1>4. HeadKept(q)
    BY <1>3, ValueByteKept
  <1>5. IsNum(ch) /\ ~Overflow(parser.content_length, 10) => l < ULLONG_MAX
    BY <1>1, OverflowBound DEF IsNum
  <1>6. "F_CONTENTLENGTH" \in f => "F_CONTENTLENGTH" \in parser.flags
    BY DEF FlagOf
  <1> HIDE DEF l, h, f, q, HeadSet, v
  <1>7. CASE q = parser
    BY <1>4, <1>7 DEF q
  <1>8. CASE IsNum(ch) /\ ~Overflow(parser.content_length, 10)
             /\ q = [parser EXCEPT !.content_length = l]
    <2>1. q.state = "s_header_value" /\ q.content_length = l
      BY <1>1, <1>8 DEF Parser
    <2> QED
      BY <1>4, <1>5, <1>8, <2>1 DEF LengthRead, q
  <1>9. CASE q = [parser EXCEPT !.header_state = h, !.flags = f]
    <2>1. q.state = "s_header_value" /\ q.content_length = parser.content_length /\ q.flags = f
      BY <1>1, <1>9 DEF Parser
    <2> QED
      BY <1>3, <1>4, <1>6, <2>1 DEF LengthRead, HeadKept, q
  <1> QED
    BY <1>2, <1>7, <1>8, <1>9

-----------------------------------------------------------------------------
(* Names, values and the length *)

\* The name being read is the last one sent, header_state is what its bytes stand for, and
\* its value, once begun, is not empty
NameMatched ==
    /\ parser.state \in NamingStates =>
          /\ Len(wire.names) = Len(wire.values) + 1
          /\ wire.names[Len(wire.names)] # <<>>
          /\ parser.header_state = NameState(wire.names[Len(wire.names)])
    /\ parser.state \notin NamingStates => Len(wire.names) = Len(wire.values)
    /\ parser.state \in ValuedStates =>
          Len(wire.values) > 0 /\ wire.values[Len(wire.values)] # <<>>

\* A Content-Length is empty or begins with a digit
LengthValue(name, value) == IsContentLength(name) /\ value # <<>> => IsNum(value[1])
LengthsNumeric ==
    \A i \in 1..Len(wire.values) : LengthValue(wire.names[i], wire.values[i])

\* Without the flag, every Content-Length of the first message is empty
EmptyLength(name, value) == IsContentLength(name) => value = <<>>
LengthsFlagged ==
    wire.messages = 0 =>
        /\ "F_CONTENTLENGTH" \notin parser.flags =>
              \A i \in 1..Len(wire.values) : EmptyLength(wire.names[i], wire.values[i])
        /\ parser.state \in {"s_start_res", "s_dead"} => wire.names = <<>>

Matched == NameMatched /\ LengthsNumeric /\ LengthsFlagged /\ LengthRead(parser)

LEMMA TellingWire ==
    ASSUME Telling
    PROVE  /\ wire.names \in Strings /\ wire.values \in Strings
           /\ wire'.names \in Strings /\ wire'.values \in Strings
           /\ wire.messages \in Nat
           /\ wire'.messages = IF cb'.for = "message_complete" THEN wire.messages + 1
                                                               ELSE wire.messages
           /\ wire'.messages = 0 => wire.messages = 0 /\ cb'.for # "message_complete"
           /\ parser'.http_errno = "HPE_OK"
  <1>1. /\ RInv /\ PInv' /\ EngineStep /\ History /\ wire \in Wire /\ parser'.http_errno = "HPE_OK"
    BY TellingFacts DEF Telling, NoError
  <1>2. /\ wire' \in Wire
        /\ wire'.messages = IF cb'.for = "message_complete" THEN wire.messages + 1
                                                            ELSE wire.messages
    BY <1>1, StepPasses
  <1>3. wire.messages \in Nat
    BY <1>1 DEF Wire
  <1> QED
    BY <1>1, <1>2, <1>3 DEF Wire, Strings

LEMMA MatchedQuiet ==
    ASSUME Telling, Matched, Steady, wire'.names = wire.names, wire'.values = wire.values
    PROVE  Matched'
  <1>1. NameMatched'
    BY DEF Matched, NameMatched, Steady
  <1>2. LengthsNumeric'
    BY DEF Matched, LengthsNumeric
  <1>3. LengthsFlagged'
    <2> SUFFICES ASSUME wire'.messages = 0
                 PROVE  /\ "F_CONTENTLENGTH" \notin parser'.flags =>
                              \A i \in 1..Len(wire.values) :
                                 EmptyLength(wire.names[i], wire.values[i])
                        /\ parser'.state \in {"s_start_res", "s_dead"} => wire.names = <<>>
      BY DEF LengthsFlagged
    <2>1. wire.messages = 0 /\ cb'.for # "message_complete"
      BY TellingWire
    <2>2. CASE parser.state = "s_start_res"
      <3>1. wire.names = <<>> /\ Len(wire.names) = Len(wire.values)
        BY <2>1, <2>2 DEF Matched, LengthsFlagged, NameMatched, NamingStates
      <3>2. Len(wire.values) = 0
        BY <3>1
      <3> QED
        BY <3>1, <3>2
    <2>3. CASE parser.state # "s_start_res"
      BY <2>1, <2>3 DEF Matched, LengthsFlagged, Steady
    <2> QED
      BY <2>2, <2>3
  <1> QED
    BY <1>1, <1>2, <1>3 DEF Matched, Steady

\* A name begins.
LEMMA MatchedNewName ==
    ASSUME Telling, Matched, call.cur \in Lexeme, NewName, parser'.state = "s_header_field",
           Kept(parser'), parser'.header_state = NameStart(call.cur),
           wire'.names = Append(wire.names, <<call.cur>>), wire'.values = wire.values
    PROVE  Matched'
  <1> DEFINE a == wire.names
             b == wire.values
             t == <<call.cur>>
  <1>1. /\ a \in Strings /\ b \in Strings /\ t \in Seq(Lexeme)
        /\ wire'.messages = 0 => wire.messages = 0
    BY TellingWire
  <1>2. Len(a) = Len(b) /\ parser.state = "s_header_field_start"
    BY DEF Matched, NameMatched, NewName, NamingStates
  <1>3. /\ Len(wire'.names) = Len(a) + 1 /\ wire'.names[Len(a) + 1] = t
        /\ \A i \in 1..Len(a) : wire'.names[i] = a[i]
    BY <1>1, AppendSeq
  <1>4. t # <<>> /\ NameState(t) = NameStart(call.cur)
    BY DEF NameState
  <1>5. Len(a) \in Nat /\ Len(b) \in Nat
    BY <1>1 DEF Strings
  <1>6. NameMatched'
    BY <1>2, <1>3, <1>4, <1>5 DEF NameMatched, NamingStates, ValuedStates
  <1>7. LengthsNumeric'
    BY <1>2, <1>3 DEF Matched, LengthsNumeric
  <1>8. LengthsFlagged'
    BY <1>1, <1>2, <1>3 DEF Matched, LengthsFlagged, Kept
  <1>9. LengthRead(parser')
    <2>1. {"s_header_field", "s_header_field_start"} \subseteq HeadSet
      BY DEF HeadSet, HeaderPhaseStates, ChunkStates
    <2> QED
      BY <1>2, <2>1 DEF Matched, LengthRead, Kept
  <1> QED
    BY <1>6, <1>7, <1>8, <1>9 DEF Matched

\* A name goes on.
LEMMA MatchedMoreName ==
    ASSUME Telling, Matched, call.cur \in Lexeme, MoreName, parser'.state = "s_header_field",
           Kept(parser'), parser'.header_state = NameStep(parser.header_state, call.cur),
           wire'.names = Extend(wire.names, <<call.cur>>), wire'.values = wire.values
    PROVE  Matched'
  <1> DEFINE a == wire.names
             b == wire.values
             t == <<call.cur>>
             n == Len(a)
  <1>1. /\ a \in Strings /\ b \in Strings /\ t \in Seq(Lexeme)
        /\ wire'.messages = 0 => wire.messages = 0
    BY TellingWire
  <1>2. /\ n = Len(b) + 1 /\ parser.state = "s_header_field" /\ a[n] # <<>>
        /\ parser.header_state = NameState(a[n])
    BY DEF Matched, NameMatched, MoreName, NamingStates
  <1>3. n \in Nat /\ Len(b) \in Nat /\ n >= 1 /\ n - 1 = Len(b)
    BY <1>1, <1>2 DEF Strings
  <1>4. /\ Len(wire'.names) = n /\ wire'.names[n] = a[n] \o t
        /\ \A i \in 1..Len(b) : wire'.names[i] = a[i]
    <2>1. /\ Len(wire'.names) = n /\ (n > 0 => wire'.names[n] = a[n] \o t)
          /\ \A i \in 1..(n - 1) : wire'.names[i] = a[i]
      <3>1. a \in Seq(Seq(Lexeme)) /\ wire'.names = Extend(a, t) /\ t \in Seq(Lexeme)
        BY <1>1 DEF Strings
      <3>2. /\ Len(Extend(a, t)) = Len(a)
            /\ Len(a) > 0 => Extend(a, t)[Len(a)] = a[Len(a)] \o t
            /\ \A i \in 1..(Len(a) - 1) : Extend(a, t)[i] = a[i]
        BY <3>1, ExtendSeq
      <3> QED
        BY <3>1, <3>2
    <2> HIDE DEF n, t
    <2> QED
      BY <1>3, <2>1
  <1>5. a[n] \in Seq(Lexeme)
    BY <1>1, <1>3 DEF Strings
  <1>6. a[n] \o t # <<>> /\ NameState(a[n] \o t) = NameStep(NameState(a[n]), call.cur)
    <2>1. Len(a[n] \o t) = Len(a[n]) + 1 /\ Len(a[n]) \in Nat
      BY <1>1, <1>5, ConcatSeq
    <2>2. Len(<<>>) = 0
      OBVIOUS
    <2>3. a[n] \o t # <<>>
      BY <2>1, <2>2
    <2> QED
      BY <1>2, <1>5, <2>3, NameGoesOn
  <1> HIDE DEF n, t
  <1>7. NameMatched'
    BY <1>2, <1>4, <1>6 DEF NameMatched, NamingStates, ValuedStates
  <1>8. LengthsNumeric'
    BY <1>4 DEF Matched, LengthsNumeric
  <1>9. LengthsFlagged'
    BY <1>1, <1>4 DEF Matched, LengthsFlagged, Kept
  <1>10. LengthRead(parser')
    BY <1>2 DEF Matched, LengthRead, Kept
  <1> QED
    BY <1>7, <1>8, <1>9, <1>10 DEF Matched

\* A value is added to the name before it, which may be empty.
LEMMA MatchedValueAdded ==
    ASSUME Telling, Matched, parser.state \in NamingStates, NEW t \in Seq(Lexeme),
           wire'.names = wire.names, wire'.values = MoreValue(t),
           parser'.state \notin NamingStates \cup {"s_start_res", "s_dead"},
           t = <<>> => parser'.state \notin ValuedStates,
           t # <<>> /\ parser.header_state = "h_content_length"
               => IsNum(t[1]) /\ "F_CONTENTLENGTH" \in parser'.flags,
           parser.flags \subseteq parser'.flags, LengthRead(parser')
    PROVE  Matched'
  <1> DEFINE a == wire.names
             b == wire.values
             n == Len(b) + 1
  <1>1. /\ a \in Strings /\ b \in Strings
        /\ wire'.messages = 0 => wire.messages = 0
    BY TellingWire
  <1>2. /\ Len(a) = n /\ a[n] # <<>> /\ parser.header_state = NameState(a[n])
    BY DEF Matched, NameMatched
  <1>3. Len(b) \in Nat /\ Len(b) < Len(a) /\ n >= 1
    BY <1>1, <1>2 DEF Strings
  <1>4. /\ wire'.values = Append(b, t)
        /\ Len(wire'.values) = n /\ wire'.values[n] = t
        /\ \A i \in 1..Len(b) : wire'.values[i] = b[i]
    BY <1>1, <1>3, AppendSeq DEF MoreValue, Add
  <1>5. a[n] \in Seq(Lexeme)
    BY <1>1, <1>2, <1>3 DEF Strings
  <1>6. IsContentLength(a[n]) /\ t # <<>> => IsNum(t[1]) /\ "F_CONTENTLENGTH" \in parser'.flags
    BY <1>2, <1>5, NameOfLength
  <1>7. \A i \in 1..n : i \in 1..Len(b) \/ i = n
    BY <1>3
  <1> HIDE DEF n
  <1>8. NameMatched'
    BY <1>2, <1>3, <1>4 DEF NameMatched, n
  <1>9. LengthsNumeric'
    <2>1. ASSUME NEW i \in 1..n PROVE LengthValue(a[i], wire'.values[i])
      BY <1>4, <1>6, <1>7 DEF Matched, LengthsNumeric, LengthValue
    <2> QED
      BY <1>4, <2>1 DEF LengthsNumeric
  <1>10. LengthsFlagged'
    <2>1. ASSUME wire'.messages = 0, "F_CONTENTLENGTH" \notin parser'.flags, NEW i \in 1..n
          PROVE  EmptyLength(a[i], wire'.values[i])
      BY <1>1, <1>4, <1>6, <1>7, <2>1 DEF Matched, LengthsFlagged, EmptyLength
    <2> QED
      BY <1>4, <2>1 DEF LengthsFlagged
  <1> QED
    BY <1>8, <1>9, <1>10 DEF Matched

\* A value goes on.
LEMMA MatchedValueExtended ==
    ASSUME Telling, Matched, parser.state \in ValuedStates, NEW t \in Seq(Lexeme),
           wire'.names = wire.names, wire'.values = MoreValue(t),
           parser'.state \in ValuedStates,
           parser.flags \subseteq parser'.flags, LengthRead(parser')
    PROVE  Matched'
  <1> DEFINE a == wire.names
             b == wire.values
             n == Len(b)
  <1>1. /\ a \in Strings /\ b \in Strings
        /\ wire'.messages = 0 => wire.messages = 0
    BY TellingWire
  <1>2. ValuedStates \cap (NamingStates \cup {"s_start_res", "s_dead"}) = {}
    BY DEF ValuedStates, NamingStates
  <1>3. Len(a) = n /\ n > 0 /\ b[n] # <<>>
    BY <1>2 DEF Matched, NameMatched
  <1>4. n \in Nat /\ ~(Len(b) < Len(a))
    BY <1>1, <1>3 DEF Strings
  <1>5. wire'.values = Extend(b, t)
    BY <1>4 DEF MoreValue, Add
  <1>6. /\ Len(wire'.values) = n /\ wire'.values[n] = b[n] \o t
        /\ \A i \in 1..(n - 1) : wire'.values[i] = b[i]
    BY <1>1, <1>3, <1>5, ExtendSeq DEF Strings
  <1>7. b[n] \in Seq(Lexeme)
    BY <1>1, <1>3, <1>4 DEF Strings
  <1>8. b[n] \o t # <<>> /\ (b[n] \o t)[1] = b[n][1]
    <2>1. /\ Len(b[n] \o t) = Len(b[n]) + Len(t) /\ Len(b[n]) \in Nat /\ Len(t) \in Nat
          /\ Len(b[n]) >= 1
      BY <1>3, <1>7
    <2>2. \A i \in 1..(Len(b[n]) + Len(t)) :
             (b[n] \o t)[i] = IF i <= Len(b[n]) THEN b[n][i] ELSE t[i - Len(b[n])]
      BY <1>7, ConcatSeq
    <2>3. Len(<<>>) = 0
      OBVIOUS
    <2> QED
      BY <2>1, <2>2, <2>3
  <1>9. \A i \in 1..n : i \in 1..(n - 1) \/ i = n
    BY <1>4
  <1>10. n \in 1..n
    BY <1>3, <1>4
  <1> HIDE DEF n
  <1>11. NameMatched'
    BY <1>2, <1>3, <1>6, <1>8 DEF NameMatched, n
  <1>12. LengthsNumeric'
    <2>1. ASSUME NEW i \in 1..n PROVE LengthValue(a[i], wire'.values[i])
      <3>1. LengthValue(a[i], b[i])
        BY DEF Matched, LengthsNumeric, n
      <3> QED
        BY <1>3, <1>6, <1>8, <1>9, <3>1 DEF LengthValue
    <2> QED
      BY <1>6, <2>1 DEF LengthsNumeric
  <1>13. LengthsFlagged'
    <2>1. ASSUME wire'.messages = 0, "F_CONTENTLENGTH" \notin parser'.flags, NEW i \in 1..n
          PROVE  EmptyLength(a[i], wire'.values[i])
      <3>1. EmptyLength(a[i], b[i])
        BY <1>1, <2>1 DEF Matched, LengthsFlagged, n
      <3> QED
        BY <1>3, <1>6, <1>9, <3>1 DEF EmptyLength
    <2> QED
      BY <1>2, <1>6, <2>1 DEF LengthsFlagged
  <1> QED
    BY <1>11, <1>12, <1>13 DEF Matched

-----------------------------------------------------------------------------
(* The steps of a call *)

\* What a step of the switch adds to the names and values that were sent.
LEMMA TextsSent ==
    ASSUME Telling, Within, call.cur # NoByte
    PROVE  LET t == <<call.cur>>
           IN  /\ call.cur \in Lexeme /\ t \in Seq(Lexeme)
               /\ NewName => wire'.names = Append(wire.names, t) /\ wire'.values = wire.values
               /\ MoreName => wire'.names = Extend(wire.names, t) /\ wire'.values = wire.values
               /\ ValueBegins => wire'.names = wire.names /\ wire'.values = MoreValue(t)
               /\ ValueGoesOn /\ call'.run - call.run - 1 \in Nat =>
                     /\ wire'.names = wire.names
                     /\ wire'.values = MoreValue(t \o Skipped(call'.run - call.run))
                     /\ t \o Skipped(call'.run - call.run) \in Seq(Lexeme)
               /\ ValueEmpty => wire'.names = wire.names /\ wire'.values = MoreValue(<<>>)
               /\ ~(NewName \/ MoreName \/ ValueBegins \/ ValueGoesOn \/ ValueEmpty)
                     => wire'.names = wire.names /\ wire'.values = wire.values
  <1>1. /\ wire \in Wire /\ call.active /\ call.cur \in Lexeme \cup {NoByte}
        /\ wire'.names = Sent.names /\ wire'.values = Sent.values
    BY TellingFacts, TellingTexts, WithinFacts, BothCalls DEF Offsets
  <1>2. call'.run - call.run - 1 \in Nat =>
           <<call.cur>> \o Skipped(call'.run - call.run) \in Seq(Lexeme)
    <2> SUFFICES ASSUME call'.run - call.run - 1 \in Nat
                 PROVE  <<call.cur>> \o Skipped(call'.run - call.run) \in Seq(Lexeme)
      OBVIOUS
    <2>1. Skipped(call'.run - call.run) \in Seq(Lexeme)
      BY AnyLexeme DEF Skipped
    <2> QED
      BY <1>1, <2>1, ConcatSeq
  <1> QED
    BY <1>1, <1>2, SentTexts

LEMMA PlainMatched ==
    ASSUME Telling, Matched, Within, Steady,
           call.cur = NoByte \/ ~(NewName \/ MoreName \/ ValueBegins \/ ValueGoesOn \/ ValueEmpty)
    PROVE  Matched'
  <1>1. CASE call.cur = NoByte
    BY <1>1, TellingTexts, MatchedQuiet
  <1>2. CASE call.cur # NoByte
    BY <1>2, TextsSent, MatchedQuiet
  <1> QED
    BY <1>1, <1>2

LEMMA PlainlyMatched ==
    ASSUME Telling, Matched, Within, Steady, Plainly PROVE Matched'
  <1>1. ~(NewName \/ MoreName \/ ValueBegins \/ ValueGoesOn \/ ValueEmpty)
    BY DEF Plainly, TextStates, MoreName, ValueGoesOn
  <1> QED
    BY <1>1, PlainMatched

\* Names.
LEMMA NameMatches ==
    ASSUME Telling, Matched, Within, HeaderFieldStart \/ HeaderField, Token(call.cur)
    PROVE  Matched'
  <1> DEFINE h == NameStart(call.cur)
             k == NameStep(parser.header_state, call.cur)
             p == [Move(parser, "s_header_field") EXCEPT !.header_state = h]
             q == [parser EXCEPT !.header_state = k]
  <1>1. /\ call.cur # NoByte /\ parser'.http_errno = "HPE_OK" /\ parser \in Parser
        /\ call.cur \in Lexeme
    BY WithinFacts, TextsSent, TellingWire DEF HeaderFieldStart, HeaderField, At
  <1>2. CASE HeaderFieldStart
    <2>1. parser' = p
      BY <1>2, ContinueMoves DEF HeaderFieldStart, Token
    <2>2. NewName
      BY <1>2 DEF HeaderFieldStart, At, NewName
    <2> HIDE DEF h
    <2>3. p.state = "s_header_field" /\ Kept(p) /\ p.header_state = h
      BY <1>1 DEF Move, Parser, Kept
    <2> HIDE DEF p
    <2> QED
      BY <1>1, <2>1, <2>2, <2>3, TextsSent, MatchedNewName DEF h
  <1>3. CASE HeaderField
    <2>1. parser' = q
      <3>1. call.cur.c # ":"
        BY DEF Token
      <3>2. Continue(q, [NextByte EXCEPT !.run = call.run + 1], call.pos)
        BY <1>3, <3>1 DEF HeaderField
      <3> QED
        BY <3>2, ContinueMoves
    <2>2. MoreName
      BY <1>3 DEF HeaderField, At, MoreName
    <2> HIDE DEF k
    <2>3. q.state = "s_header_field" /\ Kept(q) /\ q.header_state = k
      BY <1>1, <1>3 DEF HeaderField, At, Parser, Kept
    <2> HIDE DEF q
    <2> QED
      BY <1>1, <2>1, <2>2, <2>3, TextsSent, MatchedMoreName DEF k
  <1> QED
    BY <1>2, <1>3

\* The first byte of a value.
LEMMA StartValueMatches ==
    ASSUME Telling, Matched, Within, call.cur # NoByte, ValueBegins, StartValue PROVE Matched'
  <1> DEFINE q == ValueStart(call.cur)
             t == <<call.cur>>
  <1>1. /\ parser' = q /\ q.http_errno = "HPE_OK" /\ call.cur \in Lexeme /\ t \in Seq(Lexeme)
        /\ wire'.names = wire.names /\ wire'.values = MoreValue(t)
    BY ContinueMoves, TextsSent, TellingWire DEF StartValue
  <1>2. parser.state \in HeadSet
    BY DEF ValueBegins, HeadSet, HeaderPhaseStates, ChunkStates
  <1>3. /\ q.state = "s_header_value" /\ HeadKept(q)
        /\ LengthRead(parser) => LengthRead(q)
        /\ parser.header_state = "h_content_length"
              => IsNum(call.cur) /\ "F_CONTENTLENGTH" \in q.flags
    BY <1>1, <1>2, ValueStartLength
  <1>4. /\ q.state \in ValuedStates /\ q.state \notin NamingStates \cup {"s_start_res", "s_dead"}
        /\ parser.flags \subseteq q.flags /\ LengthRead(q) /\ t # <<>> /\ t[1] = call.cur
    BY <1>3 DEF ValuedStates, NamingStates, HeadKept, Matched
  <1>5. parser.state \in NamingStates \/ parser.state \in ValuedStates
    BY DEF ValueBegins, NamingStates, ValuedStates
  <1> HIDE DEF q, t, NamingStates, ValuedStates
  <1>6. CASE parser.state \in NamingStates
    BY <1>1, <1>3, <1>4, <1>6, MatchedValueAdded
  <1>7. CASE parser.state \in ValuedStates
    BY <1>1, <1>4, <1>7, MatchedValueExtended
  <1> QED
    BY <1>5, <1>6, <1>7

\* The further bytes of a value.
LEMMA MoreValueMatches ==
    ASSUME Telling, Matched, Within, HeaderValueByte \/ HeaderValueSkip PROVE Matched'
  <1> DEFINE t == <<call.cur>> \o Skipped(call'.run - call.run)
  <1>1. /\ At("s_header_value") /\ ValueGoesOn /\ call.cur # NoByte
        /\ call.cur \in Lexeme /\ parser.state = "s_header_value"
        /\ parser'.http_errno = "HPE_OK" /\ call \in CallLike /\ NextByte \in CallLike
        /\ call.run \in Nat /\ call.pos \in Nat /\ call.len \in Nat /\ call.pos < call.len
        /\ parser \in Parser
    <2>1. Offsets(call) /\ call.active
      BY WithinFacts DEF Offsets
    <2> QED
      BY <2>1, TextsSent, TellingWire, CallLikes, WithinFacts
         DEF HeaderValueByte, HeaderValueSkip, At, ValueGoesOn, Newline, CallLike, Offsets
  <1>2. /\ parser'.state = "s_header_value" /\ parser.flags \subseteq parser'.flags
        /\ LengthRead(parser')
    <2>1. CASE HeaderValueByte
      <3>1. parser' = ValueByte(parser, call.cur)
        BY <2>1, ContinueMoves DEF HeaderValueByte
      <3> QED
        BY <1>1, <3>1, ValueByteLength DEF HeadKept, Matched
    <2>2. CASE HeaderValueSkip
      <3>1. parser' = parser
        BY <2>2, ContinueMoves DEF HeaderValueSkip
      <3> QED
        BY <1>1, <3>1 DEF Matched
    <2> QED
      BY <2>1, <2>2
  <1>3. call'.run - call.run - 1 \in Nat
    <2>1. CASE HeaderValueByte
      <3> DEFINE r == call.run + 1
                 c == [NextByte EXCEPT !.run = r]
      <3>1. Continue(ValueByte(parser, call.cur), c, call.pos)
        BY <2>1 DEF HeaderValueByte
      <3>2. call' = c
        BY <1>1, <3>1 DEF Continue, Return
      <3> HIDE DEF r
      <3>3. c.run = r
        BY <1>1 DEF CallLike
      <3> QED
        BY <1>1, <3>2, <3>3 DEF r
    <2>2. CASE HeaderValueSkip
      <3> DEFINE Skip(k, ch) == [call EXCEPT !.pos = call.pos + k, !.run = call.run + k, !.cur = ch]
                 limit == Lesser(call.len - call.pos, HTTP_MAX_HEADER_SIZE)
                 rest == call.len - call.pos
      <3>1. rest \in Nat \ {0} /\ limit \in Nat
        BY <1>1, HeaderSizeAssumption DEF Lesser
      <3>2. \/ \E k \in 1..(limit - 1) : \E ch \in Offered(parser) :
                  Continue(parser, Skip(k, ch), call.pos)
            \/ Continue(parser, Skip(rest, NoByte), call.pos)
        BY <2>2 DEF HeaderValueSkip
      <3>3. \A k \in 1..(limit - 1) : k \in Nat \ {0}
        BY <3>1
      <3> HIDE DEF limit, rest, Skip
      <3>4. PICK k \in Nat \ {0} : \E ch : Continue(parser, Skip(k, ch), call.pos)
        BY <3>1, <3>2, <3>3
      <3>5. PICK ch : Continue(parser, Skip(k, ch), call.pos)
        BY <3>4
      <3>6. call' = Skip(k, ch)
        <4>1. parser.http_errno = "HPE_OK"
          BY WithinFacts
        <4> QED
          BY <3>5, <4>1 DEF Continue
      <3> DEFINE x == call.pos + k
                 y == call.run + k
      <3>7. call' = [call EXCEPT !.pos = x, !.run = y, !.cur = ch]
        BY <3>6 DEF Skip
      <3> HIDE DEF x, y
      <3>8. call'.run = y
        BY <1>1, <3>7 DEF CallLike
      <3> QED
        BY <1>1, <3>8 DEF y
    <2> QED
      BY <2>1, <2>2
  <1>4. wire'.names = wire.names /\ wire'.values = MoreValue(t) /\ t \in Seq(Lexeme)
    BY <1>1, <1>3, TextsSent
  <1>5. "s_header_value" \in ValuedStates
    BY DEF ValuedStates
  <1> HIDE DEF t
  <1> QED
    BY <1>1, <1>2, <1>4, <1>5, MatchedValueExtended

\* A value that is not there: what follows the name's line end is not white space.
LEMMA EmptyValueMatches ==
    ASSUME Telling, Matched, Within, HeaderValueDiscardLws, ~IsLws(call.cur) PROVE Matched'
  <1> DEFINE g == parser.flags \cup FlagOf(parser.header_state)
             q == [Move(parser, "s_header_field_start") EXCEPT
                       !.flags = @ \cup FlagOf(parser.header_state)]
             t == <<>>
  <1>1. /\ parser.state = "s_header_value_discard_lws" /\ ValueEmpty /\ call.cur # NoByte
        /\ DataThen("header_value", 0, q, call.pos, q, call.pos, Marked(call, "header_value"))
    BY DEF HeaderValueDiscardLws, At, ValueEmpty, Data
  <1>2. /\ parser \in Parser /\ parser'.http_errno = "HPE_OK"
        /\ wire'.names = wire.names /\ wire'.values = MoreValue(t)
    BY <1>1, WithinFacts, TextsSent, TellingWire
  <1>3. /\ q \in Parser /\ q.state = "s_header_field_start" /\ q.flags = g
        /\ q.content_length = parser.content_length
    <2>1. FlagOf(parser.header_state) \subseteq Flag
      BY DEF FlagOf, Flag
    <2>2. g \in SUBSET Flag
      BY <1>2, <2>1 DEF Parser
    <2>3. q = [Move(parser, "s_header_field_start") EXCEPT !.flags = g]
      BY <1>2 DEF Move, Parser
    <2> HIDE DEF g, q
    <2> QED
      BY <1>2, <2>2, <2>3 DEF Move, Parser, State, HeaderPhaseStates
  <1>4. parser.flags \subseteq g
    OBVIOUS
  <1>5. "F_CONTENTLENGTH" \in g <=> "F_CONTENTLENGTH" \in parser.flags
    BY DEF FlagOf
  <1>6. parser.state \in HeadSet
    BY <1>1 DEF HeadSet, HeaderPhaseStates, ChunkStates
  <1> HIDE DEF g, q
  <1>7. parser' = q
    BY <1>1, <1>2, <1>3, DataMoves
  <1>8. LengthRead(parser')
    BY <1>3, <1>4, <1>5, <1>6, <1>7 DEF Matched, LengthRead
  <1>9. /\ parser.state \in NamingStates
        /\ parser'.state \notin NamingStates \cup {"s_start_res", "s_dead"}
        /\ parser'.state \notin ValuedStates
    BY <1>1, <1>3, <1>7 DEF NamingStates, ValuedStates
  <1>10. t \in Seq(Lexeme) /\ ~(t # <<>>) /\ parser.flags \subseteq parser'.flags
    BY <1>3, <1>4, <1>7
  <1> HIDE DEF t
  <1> QED
    BY <1>2, <1>8, <1>9, <1>10, MatchedValueAdded

\* Every step of a call in progress.
LEMMA RunMatched ==
    ASSUME Telling, Matched, Run PROVE Matched'
  <1>1. Within /\ parser'.http_errno = "HPE_OK"
    BY TellingWithin DEF Telling, NoError
  <1>2. CASE Fetch \/ LeaveInnerLoop \/ EndOfBuffer
    <2>1. call.cur = NoByte
      BY <1>2 DEF Fetch, LeaveInnerLoop, EndOfBuffer
    <2> QED
      BY <1>1, <1>2, <2>1, BetweenBytes, SameSteady, PlainMatched
  <1>3. CASE Switch
    <2>1. CASE \/ Dead \/ Version \/ FirstStatusCode \/ StatusCode \/ StatusStart \/ Status
               \/ ResLineAlmostDone \/ (HeaderFieldStart /\ ~Token(call.cur))
      BY <1>1, <2>1, LineSteady, LinePlain, AroundPlain, PlainlyMatched
    <2>2. CASE StartRes \/ HeadersAlmostDone \/ HeadersDone \/ MessageDone
      BY <1>1, <2>2, StartSteady, EndSteady, EndPlain, PlainlyMatched
    <2>3. CASE BodyIdentity \/ BodyIdentityEof
               \/ ChunkSizeStart \/ ChunkSize \/ ChunkParameters \/ ChunkSizeAlmostDone
               \/ ChunkData \/ ChunkDataAlmostDone \/ ChunkDataDone
      BY <1>1, <2>3, BodySteady, ChunkSteady, BodyPlain, ChunkPlain, PlainlyMatched
    <2>4. CASE HeaderAlmostDone \/ HeaderValueDiscardWsAlmostDone \/ HeaderValueLws
      BY <1>1, <2>4, ValueSteady, LinePlain, EndPlain, PlainlyMatched
    <2>5. CASE \/ HeaderValueDiscardWs /\ (IsLws(call.cur) \/ Newline)
               \/ HeaderValueDiscardLws /\ IsLws(call.cur)
      BY <1>1, <2>5, ValueSteady, AroundPlain, PlainlyMatched
    <2>6. CASE (HeaderField /\ ~Token(call.cur)) \/ HeaderValueCR \/ HeaderValueLF
      <3>1. \/ parser.state = "s_header_field" /\ ~Token(call.cur)
            \/ parser.state = "s_header_value" /\ Newline
        BY <2>6 DEF HeaderField, HeaderValueCR, HeaderValueLF, InValue, At, Newline
      <3>2. ~(NewName \/ MoreName \/ ValueBegins \/ ValueGoesOn \/ ValueEmpty)
        BY <3>1 DEF NewName, MoreName, ValueBegins, ValueGoesOn, ValueEmpty
      <3>3. Steady
        BY <1>1, <2>6, ValueSteady
      <3> QED
        BY <1>1, <3>2, <3>3, PlainMatched
    <2>7. CASE (HeaderFieldStart \/ HeaderField) /\ Token(call.cur)
      BY <1>1, <2>7, NameMatches
    <2>8. CASE HeaderValueStart \/ (HeaderValueDiscardWs /\ ~IsLws(call.cur) /\ ~Newline)
      <3>1. StartValue /\ ValueBegins /\ call.cur # NoByte
        BY <2>8 DEF HeaderValueStart, HeaderValueDiscardWs, At, ValueBegins, Newline
      <3> QED
        BY <1>1, <3>1, StartValueMatches
    <2>9. CASE HeaderValueByte \/ HeaderValueSkip
      BY <1>1, <2>9, MoreValueMatches
    <2>10. CASE HeaderValueDiscardLws /\ ~IsLws(call.cur)
      BY <1>1, <2>10, EmptyValueMatches
    <2> QED
      BY <1>3, <2>1, <2>2, <2>3, <2>4, <2>5, <2>6, <2>7, <2>8, <2>9, <2>10 DEF Switch
  <1> QED
    BY <1>2, <1>3 DEF Run

\* Between two calls.
LEMMA CallMatched ==
    ASSUME Telling, Matched, (\E n \in 1..MaxLen : Execute(n)) \/ Finish PROVE Matched'
  <1>1. ~call.active
    BY DEF Execute, Finish
  <1>2. wire'.names = wire.names /\ wire'.values = wire.values
    BY <1>1, TellingTexts
  <1>3. parser' = parser
    <2>1. parser \in Parser /\ parser'.http_errno = "HPE_OK"
      BY DEF Telling, BodyInv, RInv, PInv, IInv, StateInv, ParserInv, NoError
    <2>2. \A e : Error(parser, e).http_errno = e
      BY <2>1 DEF Error, Parser
    <2> QED
      BY <2>1, <2>2 DEF Execute, Finish, Return, Called
  <1>4. Steady
    BY <1>3, SameSteady DEF SameFrame
  <1> QED
    BY <1>2, <1>4, MatchedQuiet

-----------------------------------------------------------------------------
(* The invariant *)

\* What was sent, and what the parser knows of it
MatchInv == HeadersInv /\ (NoError => Matched)

LEMMA MatchInvInit ==
    ASSUME RInit PROVE MatchInv
  <1>1. HeadersInv
    BY HeadersInvInit
  <1>2. /\ parser.state = "s_start_res" /\ parser.flags = {} /\ wire.names = <<>>
        /\ wire.values = <<>>
    BY DEF RInit, PInit, Init, http_parser_init
  <1>3. NameMatched /\ LengthsNumeric /\ LengthsFlagged
    BY <1>2 DEF NameMatched, LengthsNumeric, LengthsFlagged, NamingStates, ValuedStates
  <1>4. LengthRead(parser)
    BY <1>2 DEF LengthRead
  <1> QED
    BY <1>1, <1>3, <1>4 DEF MatchInv, Matched

\* A step of the engine from a state without an error to one.
LEMMA ParseTelling ==
    ASSUME HeadersInv, Handled
    PROVE  /\ EngineStep /\ Respond /\ History /\ PInv' /\ Protocol!Next
           /\ NoError' => Telling
  <1>1. EngineStep /\ last' = (IF cb' = NoCb THEN last ELSE cb'.for) /\ Respond /\ History
    BY DEF Handled, History
  <1>2. PInv' /\ Protocol!Next
    BY <1>1, EngineImplements DEF HeadersInv, BodyInv, RInv, EngineStep
  <1>3. ASSUME NoError' PROVE Telling
    <2>1. NoError
      BY <1>1, <1>2, <1>3, StepPasses DEF HeadersInv, BodyInv, NoError
    <2> QED
      BY <1>1, <1>2, <1>3, <2>1 DEF HeadersInv, Telling
  <1> QED
    BY <1>1, <1>2, <1>3

LEMMA MatchInvNext ==
    ASSUME MatchInv, RStep PROVE MatchInv'
  <1>1. HeadersInv'
    BY HeadersInvNext DEF MatchInv
  <1>2. CASE Handled
    <2>1. ASSUME NoError' PROVE Matched'
      <3>1. Telling /\ EngineStep
        BY <1>2, <2>1, ParseTelling DEF MatchInv
      <3>2. Matched
        BY <3>1 DEF MatchInv, Telling
      <3> QED
        BY <3>1, <3>2, RunMatched, CallMatched DEF EngineStep
    <2> QED
      BY <1>1, <2>1 DEF MatchInv
  <1>3. CASE Free \/ UNCHANGED rvars
    <2>1. parser' = parser /\ wire' = wire
      BY <1>3 DEF Free, rvars, pvars, vars
    <2> QED
      BY <1>1, <2>1
         DEF MatchInv, NoError, Matched, NameMatched, LengthsNumeric, LengthsFlagged
  <1> QED
    BY <1>2, <1>3 DEF RStep

-----------------------------------------------------------------------------
(* What the handlers return *)

\* In the states that read a string, its callback is the only one.
LEMMA TextCallbacks ==
    ASSUME Run, parser.state \in TextStates PROVE cb'.for # "headers_complete"
  <1>1. /\ NoCb.for = "none" /\ "headers_complete" \notin DataCb
        /\ "header_field" \in DataCb /\ "header_value" \in DataCb
    BY DEF NoCb, DataCb
  <1>2. ASSUME NEW f \in DataCb, NEW n, NEW p, NEW er, NEW q, NEW eq, NEW c,
               DataThen(f, n, p, er, q, eq, c)
        PROVE  cb'.for # "headers_complete"
    BY <1>1, <1>2 DEF DataThen
  <1>3. CASE Fetch \/ LeaveInnerLoop \/ EndOfBuffer
    <2>1. cb' = NoCb \/ \E f \in DataCb : Data(f, Length(f, call), parser, call.len, call)
      BY <1>3 DEF Fetch, LeaveInnerLoop, EndOfBuffer
    <2> QED
      BY <1>1, <1>2, <2>1 DEF Data
  <1>4. CASE HeaderField
    <2>1. \/ cb' = NoCb
          \/ Data("header_field", Length("header_field", call),
                  Move(Count(parser, call.run), "s_header_value_discard_ws"),
                  call.pos + 1, NextByte)
      BY <1>4 DEF HeaderField, Step
    <2> QED
      BY <1>1, <1>2, <2>1 DEF Data
  <1>5. CASE HeaderValueCR
    BY <1>1, <1>2, <1>5 DEF HeaderValueCR
  <1>6. CASE HeaderValueLF
    <2>1. \/ cb' = NoCb
          \/ Data("header_value", Length("header_value", call),
                  Count(Move(parser, "s_header_almost_done"), call.run), call.pos,
                  [call EXCEPT !.run = 0])
      BY <1>6 DEF HeaderValueLF
    <2> QED
      BY <1>1, <1>2, <2>1 DEF Data
  <1>7. CASE HeaderValueByte \/ HeaderValueSkip
    BY <1>1, <1>7 DEF HeaderValueByte, HeaderValueSkip
  <1>8. CASE HeadersAlmostDone
    BY <1>8 DEF HeadersAlmostDone, At, TextStates
  <1>9. Fetch \/ LeaveInnerLoop \/ EndOfBuffer \/ Switch
    BY DEF Run
  <1>10. Switch => HeaderField \/ HeaderValueCR \/ HeaderValueLF \/ HeaderValueByte
                   \/ HeaderValueSkip
    BY DEF Switch, TextStates, At, Dead, StartRes, Version, FirstStatusCode, StatusCode,
       StatusStart, Status, ResLineAlmostDone, HeaderFieldStart, HeaderValueDiscardWs,
       HeaderValueStart, HeaderAlmostDone, HeaderValueLws, HeaderValueDiscardWsAlmostDone,
       HeaderValueDiscardLws, HeadersAlmostDone, HeadersDone, BodyIdentity, BodyIdentityEof,
       MessageDone, ChunkSizeStart, ChunkSize, ChunkParameters, ChunkSizeAlmostDone,
       ChunkData, ChunkDataAlmostDone, ChunkDataDone
  <1> QED
    BY <1>3, <1>4, <1>5, <1>6, <1>7, <1>9, <1>10

\* Where the headers end, the response has them as they were sent.
LEMMA CompleteTexts ==
    ASSUME HeadersInv, EngineStep, NoError, phase \in {"begun", "status", "value"},
           cb'.for = "headers_complete"
    PROVE  /\ wire.names = Names /\ wire.values = Values
           /\ Len(res.header_fields) = res.headers_count
           /\ Len(res.header_values) = res.headers_count
           /\ res.headers_count \in Nat
           /\ res.header_fields \in Seq(Block) /\ res.header_values \in Seq(Block)
  <1>1. /\ HeadersTold /\ RInv
        /\ res.headers_count \in Nat /\ res.concat_header_field \in BOOLEAN
        /\ res.header_fields \in Seq(Block) /\ res.header_values \in Seq(Block)
    BY HeadersAssumption DEF HeadersInv, BodyInv, RInv, ResInv, ResponseType
  <1>2. parser.state \notin TextStates
    <2>1. ASSUME NEW n \in 1..MaxLen PROVE ~Execute(n)
      <3>1. Execute(n) => cb' = NoCb
        BY DEF Execute
      <3> QED
        BY <3>1 DEF NoCb
    <2>2. ~Finish
      <3>1. Finish => cb' = NoCb \/ cb'.for = "message_complete"
        BY DEF Finish
      <3> QED
        BY <3>1 DEF NoCb
    <2> QED
      BY <2>1, <2>2, TextCallbacks DEF EngineStep
  <1>3. ~res.concat_header_field
    BY <1>1 DEF RInv, Linked
  <1> QED
    BY <1>1, <1>2, <1>3 DEF HeadersTold, NamesTold, ValuesTold, Counts, TextStates

\* The length of the headers is a number, or empty.
LEMMA CompleteAccepts ==
    ASSUME MatchInv, EngineStep, NoError, phase \in {"begun", "status", "value"},
           cb'.for = "headers_complete", NEW ret, SetHeadersComplete(ret)
    PROVE  ret = 0
  <1> DEFINE named == {i \in 1..res.headers_count : IsContentLength(res.header_fields[i].text)}
             first == CHOOSE i \in named : \A j \in named : i <= j
             text == res.header_values[first].text
  <1>1. /\ wire.names = Names /\ wire.values = Values
        /\ Len(res.header_fields) = res.headers_count
        /\ Len(res.header_values) = res.headers_count
        /\ res.headers_count \in Nat
        /\ res.header_fields \in Seq(Block) /\ res.header_values \in Seq(Block)
    BY CompleteTexts DEF MatchInv
  <1>2. CASE named = {}
    BY <1>2 DEF SetHeadersComplete, HTTPS_CLIENT_OK
  <1>3. CASE named # {}
    <2>1. first \in named
      <3>1. named \subseteq Nat
        OBVIOUS
      <3> HIDE DEF named
      <3> QED
        BY <1>3, <3>1, LeastIn
    <2> HIDE DEF first
    <2>2. /\ first \in 1..res.headers_count /\ IsContentLength(res.header_fields[first].text)
      BY <2>1
    <2>3. first \in 1..Len(wire.values) /\ wire.names[first] = res.header_fields[first].text
          /\ wire.values[first] = text
      BY <1>1, <2>2, TextsType DEF Names, Values
    <2>4. ~(text # <<>> /\ ~IsNum(text[1]))
      BY <2>2, <2>3 DEF MatchInv, Matched, LengthsNumeric, LengthValue
    <2>5. \/ text # <<>> /\ ~IsNum(text[1])
          \/ ret = HTTPS_CLIENT_OK
      BY <1>3 DEF SetHeadersComplete, first
    <2> QED
      BY <2>4, <2>5 DEF HTTPS_CLIENT_OK
  <1> QED
    BY <1>2, <1>3

\* What the handlers of a step return, the one that appends to a null pointer never called.
LEMMA NoConcatStep ==
    ASSUME MatchInv, Handled PROVE cb'.ret # HTTPS_CLIENT_INVALID_PARAMETER
  <1>1. /\ EngineStep /\ Respond /\ Protocol!Next /\ PInv' /\ RInv /\ ResInv(res)
    BY ParseTelling DEF MatchInv, HeadersInv, BodyInv, RInv
  <1>2. /\ cb' \in CallbackRecord /\ cb'.n \in Nat /\ Slice \in Seq(Lexeme)
    <2>1. cb' \in CallbackRecord
      BY <1>1 DEF PInv, IInv
    <2> QED
      BY <1>1, <2>1, SliceType DEF RInv, CallbackRecord
  <1>3. /\ 0 # HTTPS_CLIENT_INVALID_PARAMETER
        /\ HTTPS_CLIENT_NO_MEMORY # HTTPS_CLIENT_INVALID_PARAMETER
    BY DEF HTTPS_CLIENT_NO_MEMORY, HTTPS_CLIENT_INVALID_PARAMETER
  <1>4. CASE cb' = NoCb
    BY <1>3, <1>4 DEF NoCb
  <1>5. CASE Protocol!HeaderField
    <2>1. cb'.for = "header_field" /\ phase # "over"
      BY <1>5 DEF Protocol!HeaderField, Protocol!Calls
    <2>2. SetHeaderField(Slice, cb'.ret) /\ Continuable(res)
      BY <1>1, <2>1 DEF Respond, RInv, Linked
    <2> QED
      BY <1>1, <1>2, <1>3, <2>2, SetHeaderFieldHandled
  <1>6. CASE Protocol!HeaderValue
    <2>1. cb'.for = "header_value" /\ phase \in {"name", "value", "tname", "tvalue"}
      BY <1>6 DEF Protocol!HeaderValue, Protocol!Calls
    <2>2. /\ SetHeaderValue(Slice, cb'.ret) /\ Continuable(res)
          /\ res.concat_header_field \/ res.concat_header_value
      BY <1>1, <2>1 DEF Respond, RInv, Linked
    <2> QED
      BY <1>1, <1>2, <1>3, <2>2, SetHeaderValueHandled
  <1>7. CASE Protocol!Status
    <2>1. cb'.for = "status"
      BY <1>7 DEF Protocol!Status, Protocol!Calls
    <2> QED
      BY <1>1, <1>3, <2>1 DEF Respond, SetStatus, HTTPS_CLIENT_OK
  <1>8. CASE Protocol!HeadersComplete
    <2>1. cb'.for = "headers_complete" /\ phase \in {"begun", "status", "value"}
      BY <1>8 DEF Protocol!HeadersComplete, Protocol!Calls
    <2>2. NoError
      <3>1. phase = PhaseFor(parser, last, eof)
        BY Mapping
      <3> QED
        BY <2>1, <3>1 DEF PhaseFor, NoError
    <2>3. SetHeadersComplete(cb'.ret)
      BY <1>1, <2>1 DEF Respond
    <2> QED
      BY <1>1, <1>3, <2>1, <2>2, <2>3, CompleteAccepts
  <1>9. CASE Protocol!Body
    <2>1. cb'.for = "body" /\ cb'.n > 0
      BY <1>9 DEF Protocol!Body, Protocol!Calls
    <2>2. BodyCallback
      BY <1>1, <2>1 DEF Respond
    <2> QED
      BY <1>1, <1>2, <2>1, <2>2, BodyCallbackHandled
  <1>10. CASE Protocol!MessageBegin \/ Protocol!ChunkHeader \/ Protocol!ChunkComplete
              \/ Protocol!MessageComplete
    <2>1. cb'.for \in {"message_begin", "chunk_header", "chunk_complete", "message_complete"}
      BY <1>10 DEF Protocol!MessageBegin, Protocol!ChunkHeader, Protocol!ChunkComplete,
         Protocol!MessageComplete, Protocol!Calls
    <2>2. PlainCallback
      BY <1>1, <2>1 DEF Respond
    <2> QED
      BY <1>1, <1>3, <2>2, PlainHandled
  <1> QED
    BY <1>1, <1>4, <1>5, <1>6, <1>7, <1>8, <1>9, <1>10
       DEF Protocol!Next, Protocol!Quiet, Protocol!Fail

-----------------------------------------------------------------------------
(* The block of the body *)

\* No byte of a body yet, and then the bodies without a length that was announced
BeforeBody == {"idle", "begun", "status", "name", "value"}
Unmeasured == {"close", "chunks", "chunk", "trailers", "tname", "tvalue"}

InBlock == LengthsAgree /\ res.body # 0 => res.body_offset <= res.body

\* What is known of the block while the first message goes on: it is as long as what was
\* stored, or as the length that was announced
BlockTold ==
    /\ res.body = 0 => res.body_offset = 0
    /\ phase \in BeforeBody => res.body = 0 /\ res.expected_content_length = 0
    /\ phase \in Unmeasured => res.expected_content_length = 0
    /\ phase = "body" => declared # ULLONG_MAX
    /\ ~res.is_chunked /\ res.body # 0 => res.body = res.expected_content_length

BlockInv ==
    /\ MatchInv /\ WholeInv
    /\ wire.messages = 0 => InBlock /\ (NoError /\ ~res.null => BlockTold)

\* Only the end of the headers begins a body.
LEMMA BodyBegins ==
    ASSUME Protocol!Next, cb'.for \notin {"headers_complete", "message_complete"},
           phase' # "over"
    PROVE  /\ phase' \in BeforeBody => phase \in BeforeBody
           /\ phase' \in Unmeasured => phase \in Unmeasured
           /\ phase' = "body" => phase = "body"
  BY DEF Protocol!Next, Protocol!MessageBegin, Protocol!Status,
     Protocol!HeaderField, Protocol!HeaderValue, Protocol!HeadersComplete,
     Protocol!ChunkHeader, Protocol!Body, Protocol!ChunkComplete,
     Protocol!MessageComplete, Protocol!Quiet, Protocol!Fail, Protocol!Calls,
     Protocol!Then, BeforeBody, Unmeasured

\* A step of the engine on the first message, which it does not end.
FirstMessage ==
    /\ RInv /\ MatchInv /\ WholeInv /\ NoError /\ ~res.null /\ wire.messages = 0
    /\ InBlock /\ BlockTold
    /\ EngineStep /\ PInv' /\ Protocol!Next /\ Respond /\ History /\ body_cb' = body_cb
    /\ cb'.for # "message_complete"

\* An error is the end of the protocol.
LEMMA OverIsError ==
    ASSUME PInv' PROVE NoError' <=> phase' # "over"
  <1>1. parser' \in Parser /\ phase' = PhaseFor(parser', last', eof')
    BY Mapping DEF PInv, IInv, StateInv, ParserInv
  <1> QED
    BY <1>1, NotOver DEF PhaseFor, NoError

\* A step that leaves the block alone.
LEMMA BlockLeft ==
    ASSUME FirstMessage, BlockKept, cb'.for # "headers_complete"
    PROVE  InBlock' /\ (NoError' => BlockTold')
  <1>1. declared' = declared
    BY DEF FirstMessage, History
  <1>2. InBlock'
    BY <1>1 DEF FirstMessage, BlockKept, InBlock, LengthsAgree
  <1>3. ASSUME NoError' PROVE BlockTold'
    <2>1. phase' # "over"
      BY <1>3, OverIsError DEF FirstMessage
    <2>2. /\ phase' \in BeforeBody => phase \in BeforeBody
          /\ phase' \in Unmeasured => phase \in Unmeasured
          /\ phase' = "body" => phase = "body"
      BY <2>1, BodyBegins DEF FirstMessage
    <2> QED
      BY <1>1, <2>2 DEF FirstMessage, BlockKept, BlockTold
  <1> QED
    BY <1>2, <1>3

\* The handlers that have nothing to do with a body.
LEMMA OtherHandlers ==
    ASSUME RInv, PInv', Protocol!Next, Respond, cb'.for \notin {"body", "headers_complete"}
    PROVE  BlockKept
  <1>1. /\ ResInv(res) /\ cb' \in CallbackRecord /\ Slice \in Seq(Lexeme)
        /\ parser'.status_code \in Nat
    <2>1. cb' \in CallbackRecord /\ parser' \in Parser
      BY DEF PInv, IInv, StateInv, ParserInv
    <2>2. parser'.status_code \in Nat
      BY <2>1 DEF Parser
    <2> QED
      BY <2>1, <2>2, SliceType DEF RInv
  <1>2. SameBody /\ res'.expected_content_length = res.expected_content_length => BlockKept
    BY DEF SameBody, BlockKept
  <1>3. CASE cb' = NoCb
    BY <1>1, <1>3 DEF Respond, NoCb, BlockKept
  <1>4. CASE Protocol!HeaderField
    <2>1. cb'.for = "header_field"
      BY <1>4 DEF Protocol!HeaderField, Protocol!Calls
    <2>2. SetHeaderField(Slice, cb'.ret)
      BY <2>1 DEF Respond
    <2> QED
      BY <1>1, <1>2, <2>2, SetHeaderFieldHandled
  <1>5. CASE Protocol!HeaderValue
    <2>1. cb'.for = "header_value" /\ phase \in {"name", "value", "tname", "tvalue"}
      BY <1>5 DEF Protocol!HeaderValue, Protocol!Calls
    <2>2. /\ SetHeaderValue(Slice, cb'.ret)
          /\ res.concat_header_field \/ res.concat_header_value
      BY <2>1 DEF Respond, RInv, Linked
    <2> QED
      BY <1>1, <1>2, <2>2, SetHeaderValueHandled
  <1>6. CASE Protocol!Status
    <2>1. cb'.for = "status"
      BY <1>6 DEF Protocol!Status, Protocol!Calls
    <2>2. SetStatus(parser'.status_code, Slice, cb'.ret)
      BY <2>1 DEF Respond
    <2> QED
      BY <1>1, <1>2, <2>2, SetStatusHandled
  <1>7. CASE Protocol!MessageBegin \/ Protocol!ChunkHeader \/ Protocol!ChunkComplete
             \/ Protocol!MessageComplete
    <2>1. cb'.for \in {"message_begin", "chunk_header", "chunk_complete", "message_complete"}
      BY <1>7 DEF Protocol!MessageBegin, Protocol!ChunkHeader, Protocol!ChunkComplete,
         Protocol!MessageComplete, Protocol!Calls
    <2>2. PlainCallback
      BY <2>1 DEF Respond
    <2> QED
      BY <1>1, <2>2, PlainHandled
  <1> QED
    BY <1>3, <1>4, <1>5, <1>6, <1>7
       DEF Protocol!Next, Protocol!Quiet, Protocol!Fail, Protocol!Body,
           Protocol!HeadersComplete, Protocol!Calls

\* What is announced of a body is what has passed and what the callbacks are still owed.
LEMMA BodyOwed ==
    ASSUME WholeInv, NoError, wire.messages = 0, phase = "body"
    PROVE  /\ wire.body + parser.content_length = declared
           /\ wire.body \in Nat /\ parser.content_length \in Nat
           /\ left <= parser.content_length + Pending(call)
  <1>1. /\ ParserInv(parser) /\ parser \in Parser /\ parser.http_errno = "HPE_OK"
        /\ Framed(parser, wire.body, declared)
        /\ StateInv(parser, call) /\ StringOpen(parser, call)
    BY DEF WholeInv, BodyInv, RInv, PInv, IInv, StateInv, ParserInv, NoError
  <1>2. wire.body \in Nat /\ parser.content_length \in Nat
    BY <1>1 DEF WholeInv, BodyInv, Wire, Parser
  <1>3. \/ parser.state = "s_body_identity"
        \/ parser.state = "s_headers_done" /\ PhaseOf(BodyState(parser)) = "body"
    <2>1. PhaseFor(parser, last, eof) = "body"
      BY Mapping
    <2>2. \A l : HeadPhaseOf(l) # "body" /\ TrailerPhaseOf(l) # "body"
      BY DEF HeadPhaseOf, TrailerPhaseOf
    <2>3. \A s \in {"s_message_done", "s_chunk_size_start", "s_chunk_size",
                    "s_chunk_parameters", "s_chunk_size_almost_done"}
                   \cup (BodyStates \ {"s_body_identity"}) : PhaseOf(s) # "body"
      BY DEF PhaseOf, BodyStates
    <2> QED
      BY <1>1, <2>1, <2>2, <2>3 DEF PhaseFor
  <1>4. "F_CHUNKED" \notin parser.flags
    <2>1. CASE parser.state = "s_body_identity"
      BY <1>1, <2>1 DEF ParserInv, FlagsInv
    <2>2. CASE PhaseOf(BodyState(parser)) = "body"
      <3>1. BodyState(parser) = "s_body_identity"
        BY <2>2 DEF PhaseOf, BodyState
      <3> QED
        BY <1>1, <3>1 DEF BodyState, Framed
    <2> QED
      BY <1>3, <2>1, <2>2
  <1>5. wire.body + parser.content_length = declared
    BY <1>1, <1>2, <1>3, <1>4 DEF Framed
  <1>6. left = 0 \/ left = parser.content_length + Pending(call)
    BY Mapping DEF Owed, Pending
  <1>7. Pending(call) \in Nat
    BY <1>1, PendingNat
  <1> QED
    BY <1>2, <1>5, <1>6, <1>7

\* n bytes more of a body whose length was announced: the offset stays within it.
LEMMA BodyMeasured ==
    ASSUME FirstMessage, phase = "body", body_cb = "NULL", NEW n \in Nat, n <= left
    PROVE  (res.body_offset + n) % UINT_RANGE <= declared
  <1> DEFINE b == wire.body - Pending(call)
             o == res.body_offset + n
  <1>1. /\ wire.body + parser.content_length = declared
        /\ wire.body \in Nat /\ parser.content_length \in Nat
        /\ left <= parser.content_length + Pending(call)
    BY BodyOwed DEF FirstMessage
  <1>2. b \in Nat /\ res.body_offset = b % UINT_RANGE
    BY DEF FirstMessage, WholeInv, BodyInv, BodyCounted
  <1>3. left \in Nat /\ Pending(call) \in Nat
    <2>1. StateInv(parser, call) /\ StringOpen(parser, call)
      BY DEF FirstMessage, RInv, PInv, IInv
    <2>2. Pending(call) \in Nat
      BY <2>1, PendingNat
    <2>3. left = 0 \/ left = parser.content_length + Pending(call)
      BY Mapping DEF Owed, Pending
    <2> QED
      BY <1>1, <2>2, <2>3
  <1>4. b + n <= declared
    BY <1>1, <1>3
  <1> HIDE DEF b
  <1>5. b % UINT_RANGE \in Nat /\ b % UINT_RANGE <= b
    <2>1. UINT_RANGE \in Int /\ UINT_RANGE > 0 /\ b \in Int
      BY <1>2, UintAssumption
    <2>2. b \div UINT_RANGE \in Int /\ b % UINT_RANGE \in 0..(UINT_RANGE - 1)
          /\ b = (b \div UINT_RANGE) * UINT_RANGE + (b % UINT_RANGE)
      BY <2>1, DivMod
    <2> QED
      BY <1>2, <2>1, <2>2
  <1>6. o \in Nat /\ o <= declared
    BY <1>1, <1>2, <1>4, <1>5
  <1> HIDE DEF o
  <1>7. o % UINT_RANGE <= o
    BY <1>6, UintAssumption
  <1> QED
    BY <1>1, <1>6, <1>7, UintAssumption DEF o

\* Bytes of a body: the block they are copied to ends where its text ends, or is as long as
\* what was announced, of which no more is delivered.
LEMMA BodyBlock ==
    ASSUME FirstMessage, Protocol!Body
    PROVE  InBlock' /\ (NoError' /\ ~res'.null => BlockTold')
  <1> DEFINE n == cb'.n
             ret == cb'.ret
             h == res.is_chunked \/ res.expected_content_length = 0
  <1>1. /\ cb'.for = "body" /\ n > 0 /\ n \in Nat
        /\ phase \in {"body", "chunk", "close"}
        /\ phase = "body" => n <= left
        /\ ret # 0 => phase' = "over"
    <2>1. n \in Nat
      BY DEF FirstMessage, PInv, IInv, CallbackRecord
    <2>2. cb'.for = "body" /\ n > 0
      BY DEF Protocol!Body, Protocol!Calls
    <2>3. /\ phase \in {"body", "chunk", "close"}
          /\ phase = "body" => n <= left
          /\ ret # 0 => phase' = "over"
      <3>1. \/ phase = "body" /\ n = left /\ (ret # 0 => phase' = "over")
            \/ phase \in {"body", "chunk"} /\ n <= left /\ (ret # 0 => phase' = "over")
            \/ phase = "close" /\ (ret # 0 => phase' = "over")
        BY DEF Protocol!Body, Protocol!Then
      <3> HIDE DEF n, ret
      <3>2. n = left => n <= left
        BY <2>1
      <3> QED
        BY <3>1, <3>2
    <2> QED
      BY <2>1, <2>2, <2>3
  <1>2. ResInv(res) /\ BodyCallback /\ cb'.for # "headers_complete" /\ PInv'
    BY <1>1 DEF FirstMessage, RInv, Respond
  <1>3. /\ BodyAdded(n, ret) /\ ResInv(res')
        /\ body_cb = "NULL" => Stored(n, ret)
        /\ body_cb # "NULL" => BlockKept
        /\ res'.expected_content_length = res.expected_content_length
    BY <1>1, <1>2, BodyCallbackHandled
  <1>4. declared' = declared
    BY <1>2 DEF FirstMessage, History
  <1>5. CASE body_cb # "NULL"
    BY <1>2, <1>3, <1>5, BlockLeft
  <1>6. CASE body_cb = "NULL" /\ ret # 0
    <2>1. res'.body = 0
      BY <1>3, <1>6 DEF Stored
    <2>2. ~NoError'
      BY <1>1, <1>2, <1>6, OverIsError
    <2> QED
      BY <2>1, <2>2 DEF InBlock
  <1>7. CASE body_cb = "NULL" /\ ret = 0
    <2>1. /\ res'.body_offset = (res.body_offset + n) % UINT_RANGE /\ res'.is_chunked = h
          /\ \/ res'.body = 0 /\ res'.null
             \/ h /\ res'.body = IF res.body # 0 THEN res.body_offset + n ELSE n
             \/ ~h /\ res'.body = IF res.body # 0 THEN res.body ELSE res.expected_content_length
      BY <1>3, <1>7 DEF Stored, BodyAdded
    <2>2. /\ res.body_offset \in Nat /\ res.body \in Nat /\ res.is_chunked \in BOOLEAN
          /\ res.body = 0 => res.body_offset = 0
          /\ ~res.is_chunked /\ res.body # 0 => res.body = res.expected_content_length
      BY <1>2, UintAssumption DEF FirstMessage, BlockTold, ResInv, ResponseType, Uint
    <2>3. NoError' => /\ phase' \notin BeforeBody
                      /\ phase' \in Unmeasured => res.expected_content_length = 0
                      /\ phase' = "body" => declared # ULLONG_MAX
      <3>1. ASSUME NoError'
            PROVE  /\ phase' \in BeforeBody => phase \in BeforeBody
                   /\ phase' \in Unmeasured => phase \in Unmeasured
                   /\ phase' = "body" => phase = "body"
        BY <1>1, <1>2, <3>1, OverIsError, BodyBegins DEF FirstMessage
      <3>2. phase \notin BeforeBody
        BY <1>1 DEF BeforeBody
      <3> QED
        BY <3>1, <3>2 DEF FirstMessage, BlockTold
    <2>4. CASE res'.body = 0 /\ res'.null
      BY <2>4 DEF InBlock
    <2>5. CASE h /\ res'.body = IF res.body # 0 THEN res.body_offset + n ELSE n
      <3>1. res'.body = res.body_offset + n
        BY <1>1, <2>2, <2>5
      <3>2. res'.body # 0 /\ res'.body_offset <= res'.body
        <4> DEFINE o == res.body_offset + n
        <4>1. o \in Nat /\ o > 0
          BY <1>1, <2>2
        <4> HIDE DEF o
        <4>2. o % UINT_RANGE <= o
          BY <4>1, UintAssumption
        <4> QED
          BY <2>1, <3>1, <4>1, <4>2 DEF o
      <3> QED
        BY <1>3, <1>4, <2>1, <2>3, <2>5, <3>2 DEF InBlock, BlockTold
    <2>6. CASE ~h /\ res'.body = IF res.body # 0 THEN res.body ELSE res.expected_content_length
      <3>1. res'.body = res.expected_content_length /\ res.expected_content_length # 0
        BY <2>2, <2>6
      <3>2. phase = "body"
        BY <1>1, <3>1 DEF FirstMessage, BlockTold, Unmeasured
      <3>3. LengthsAgree => res.expected_content_length = declared
        BY <3>2 DEF FirstMessage, BlockTold, LengthsAgree
      <3>4. (res.body_offset + n) % UINT_RANGE <= declared
        BY <1>1, <1>7, <3>2, BodyMeasured
      <3>5. InBlock'
        BY <1>3, <1>4, <2>1, <3>1, <3>3, <3>4 DEF InBlock, LengthsAgree
      <3> QED
        BY <1>3, <1>4, <2>1, <2>3, <3>1, <3>5 DEF BlockTold
    <2> QED
      BY <2>1, <2>4, <2>5, <2>6
  <1> QED
    BY <1>5, <1>6, <1>7

\* Only the line feed after the headers makes this callback.
LEMMA EndOfHeaders ==
    ASSUME Within, Run, parser'.http_errno = "HPE_OK", cb'.for = "headers_complete",
           NEW b \in Nat, NEW d, Framed(parser, b, d)
    PROVE  HeadersAlmostDone
  <1>1. parser \in Parser /\ NoCb.for = "none"
    BY WithinFacts DEF NoCb
  <1>2. ~(Fetch \/ LeaveInnerLoop \/ EndOfBuffer)
    BY BetweenBytes
  <1>3. ASSUME Dead \/ StartRes PROVE FALSE
    <2>1. parser.state \in {"s_dead", "s_start_res"}
      BY <1>3 DEF Dead, StartRes, At
    <2>2. b = 0
      BY <2>1 DEF Framed
    <2> QED
      BY <1>3, <2>2, StartFramed
  <1>4. ~(\/ Version \/ FirstStatusCode \/ StatusCode \/ StatusStart \/ Status
          \/ ResLineAlmostDone \/ HeaderFieldStart \/ HeaderField)
    BY LineKept
  <1>5. ~(\/ HeaderValueDiscardWs \/ HeaderValueStart
          \/ HeaderValueCR \/ HeaderValueLF \/ HeaderValueByte \/ HeaderValueSkip
          \/ HeaderAlmostDone \/ HeaderValueLws \/ HeaderValueDiscardWsAlmostDone
          \/ HeaderValueDiscardLws)
    BY ValueKept
  <1>6. ~HeadersDone /\ ~BodyIdentity /\ ~BodyIdentityEof
    BY <1>1, BodyFramed, IdentityFramed, EofFramed
  <1>7. ~MessageDone
    BY <1>1, Completed DEF MessageDone
  <1>8. ~(\/ ChunkSizeStart \/ ChunkSize \/ ChunkParameters \/ ChunkSizeAlmostDone
          \/ ChunkData \/ ChunkDataAlmostDone \/ ChunkDataDone)
    BY ChunkSteps
  <1> QED
    BY <1>2, <1>3, <1>4, <1>5, <1>6, <1>7, <1>8 DEF Run, Switch

\* There the parser only goes on to the next state.
LEMMA HeadersEndMoves ==
    ASSUME Within, HeadersAlmostDone, parser'.http_errno = "HPE_OK",
           cb'.for = "headers_complete", cb'.ret \notin {1, 2}
    PROVE  /\ parser.state = "s_headers_almost_done" /\ parser'.state = "s_headers_done"
           /\ parser'.flags = parser.flags /\ parser'.content_length = parser.content_length
  <1>1. parser \in Parser /\ parser.state = "s_headers_almost_done"
    BY WithinFacts DEF HeadersAlmostDone, At
  <1> DEFINE u == {"F_UPGRADE", "F_CONNECTION_UPGRADE"} \subseteq parser.flags
             p == [Move(parser, "s_headers_done") EXCEPT !.upgrade = u]
             m == Move(parser, "s_message_done")
  <1>2. /\ p \in Parser /\ p.flags = parser.flags /\ p.state = "s_headers_done"
        /\ p.content_length = parser.content_length /\ m \in Parser
    <2> HIDE DEF u
    <2>1. u \in BOOLEAN
      BY DEF u
    <2> QED
      BY <1>1, <2>1 DEF Move, Parser, State, HeaderPhaseStates, BodyStates
  <1>3. \/ Step(Error(parser, "HPE_STRICT"))
        \/ Notify("chunk_complete", m, call, call.pos)
        \/ Step(Error(parser, "HPE_UNEXPECTED_CONTENT_LENGTH"))
        \/ HeadersComplete(p)
    BY DEF HeadersAlmostDone
  <1> HIDE DEF p, m
  <1>4. ~Step(Error(parser, "HPE_STRICT"))
        /\ ~Step(Error(parser, "HPE_UNEXPECTED_CONTENT_LENGTH"))
    BY <1>1, StepMoves DEF Error, Parser
  <1>5. ~Notify("chunk_complete", m, call, call.pos)
    BY <1>2, NotifyMoves
  <1>6. HeadersComplete(p)
    BY <1>3, <1>4, <1>5
  <1>7. parser' \in {p, Error(p, "HPE_CB")}
    BY <1>6, ContinueMoves DEF HeadersComplete
  <1>8. parser' = p
    BY <1>2, <1>7 DEF Error, Parser
  <1> QED
    BY <1>1, <1>2, <1>8

\* sscanf leaves zero where an empty text is read (see SetHeadersComplete).
LEMMA ScannedEmpty == Scanned(<<>>) = 0
  <1> DEFINE text == <<>>
             Prefix(k) == \A i \in 1..k : IsNum(text[i])
             digits == CHOOSE k \in 0..Len(text) :
                          Prefix(k) /\ (k < Len(text) => ~Prefix(k + 1))
             IsValue(f) == f = [i \in 0..digits |-> IF i = 0 THEN 0 ELSE f[i - 1] * 10 + text[i].v]
             value == CHOOSE f : IsValue(f)
  <1>1. Scanned(text) = value[digits]
    BY DEF Scanned
  <1>2. digits = 0
    <2>1. text \in Seq(Lexeme) /\ Len(text) = 0
      OBVIOUS
    <2> HIDE DEF text
    <2>2. \E k \in 0..Len(text) : Prefix(k) /\ (k < Len(text) => ~Prefix(k + 1))
      BY <2>1, DigitsEnd
    <2> HIDE DEF Prefix
    <2>3. digits \in 0..Len(text)
      BY <2>2
    <2> HIDE DEF digits
    <2> QED
      BY <2>1, <2>3
  <1> HIDE DEF digits, text
  <1>3. IsValue([i \in 0..digits |-> 0])
    BY <1>2
  <1>4. IsValue(value)
    BY <1>3
  <1> HIDE DEF value
  <1>5. value[0] = 0
    BY <1>2, <1>4
  <1> QED
    BY <1>1, <1>2, <1>5 DEF text

\* No length is expected where the parser has read none.
LEMMA CompleteEmpty ==
    ASSUME MatchInv, EngineStep, NoError, phase \in {"begun", "status", "value"},
           cb'.for = "headers_complete", NEW ret, SetHeadersComplete(ret),
           wire.messages = 0, "F_CONTENTLENGTH" \notin parser.flags
    PROVE  res'.expected_content_length \in {res.expected_content_length, 0}
  <1> DEFINE named == {i \in 1..res.headers_count : IsContentLength(res.header_fields[i].text)}
             first == CHOOSE i \in named : \A j \in named : i <= j
             text == res.header_values[first].text
  <1>1. /\ wire.names = Names /\ wire.values = Values
        /\ Len(res.header_fields) = res.headers_count
        /\ Len(res.header_values) = res.headers_count
        /\ res.headers_count \in Nat /\ res \in ResponseType
        /\ res.header_fields \in Seq(Block) /\ res.header_values \in Seq(Block)
    BY CompleteTexts DEF MatchInv, HeadersInv, BodyInv, RInv, ResInv
  <1>2. CASE UNCHANGED res
    BY <1>2
  <1>3. CASE /\ named # {}
             /\ res' = [res EXCEPT !.expected_content_length = Scanned(text) % UINT_RANGE]
    <2>1. first \in named
      <3>1. named \subseteq Nat
        OBVIOUS
      <3> HIDE DEF named
      <3> QED
        BY <1>3, <3>1, LeastIn
    <2> HIDE DEF first
    <2>2. /\ first \in 1..res.headers_count /\ IsContentLength(res.header_fields[first].text)
      BY <2>1
    <2>3. first \in 1..Len(wire.values) /\ wire.names[first] = res.header_fields[first].text
          /\ wire.values[first] = text
      BY <1>1, <2>2, TextsType DEF Names, Values
    <2>4. text = <<>>
      BY <2>2, <2>3 DEF MatchInv, Matched, LengthsFlagged, EmptyLength
    <2> DEFINE n == Scanned(text) % UINT_RANGE
    <2>5. n = 0
      BY <2>4, ScannedEmpty, UintAssumption
    <2>6. res' = [res EXCEPT !.expected_content_length = n]
      BY <1>3
    <2> HIDE DEF n
    <2> QED
      BY <1>1, <2>5, <2>6 DEF ResponseType
  <1> QED
    BY <1>2, <1>3 DEF SetHeadersComplete

\* The end of the headers: a length is expected only of a body that has one.
LEMMA HeadBlock ==
    ASSUME FirstMessage, Protocol!HeadersComplete
    PROVE  InBlock' /\ (NoError' => BlockTold')
  <1>1. /\ cb'.for = "headers_complete" /\ phase \in {"begun", "status", "value"}
        /\ phase' \in {"body", "close", "chunks", "done", "over"}
    BY DEF Protocol!HeadersComplete, Protocol!Calls
  <1>2. /\ ResInv(res) /\ SetHeadersComplete(cb'.ret) /\ cb'.ret \notin {1, 2}
        /\ MatchInv /\ EngineStep /\ NoError /\ PInv /\ PInv' /\ wire.messages = 0
    BY <1>1, NoSkip DEF FirstMessage, RInv, Respond
  <1>3. /\ res.body = 0 /\ res.body_offset = 0 /\ res.expected_content_length = 0
    BY <1>1 DEF FirstMessage, BlockTold, BeforeBody
  <1>4. /\ SameBody /\ res'.body = 0 /\ res'.body_offset = 0
    BY <1>2, <1>3, SetHeadersCompleteHandled DEF SameBody
  <1>5. ASSUME NoError' PROVE BlockTold'
    <2>1. parser'.http_errno = "HPE_OK"
      BY <1>5 DEF NoError
    <2>2. /\ Framed(parser, wire.body, declared) /\ wire.body \in Nat
          /\ declared' = parser'.content_length
          /\ last' = IF cb' = NoCb THEN last ELSE cb'.for
      BY <1>1, <1>2 DEF FirstMessage, WholeInv, BodyInv, Wire, History
    <2>3. Run
      <3>1. ~((\E n \in 1..MaxLen : Execute(n)) \/ Finish)
        BY <1>1, <1>2, <2>1, <2>2, CallFramed
      <3> QED
        BY <1>2, <3>1 DEF EngineStep
    <2>4. Within
      <3>1. PInv /\ IInv'
        BY <1>2 DEF PInv
      <3> QED
        BY <2>2, <2>3, <3>1, RunInCall DEF Within
    <2>5. /\ parser.state = "s_headers_almost_done" /\ parser'.state = "s_headers_done"
          /\ parser'.flags = parser.flags /\ parser'.content_length = parser.content_length
      BY <1>1, <1>2, <2>1, <2>2, <2>3, <2>4, EndOfHeaders, HeadersEndMoves
    <2>6. /\ "F_TRAILING" \notin parser.flags
          /\ ~({"F_CHUNKED", "F_CONTENTLENGTH"} \subseteq parser.flags)
      <3>1. FlagsInv(parser')
        BY <1>2 DEF PInv, IInv, StateInv, ParserInv
      <3> QED
        BY <2>5, <3>1 DEF FlagsInv
    <2>7. "F_CONTENTLENGTH" \in parser.flags => parser.content_length < ULLONG_MAX
      <3>1. parser.state \in HeadSet
        BY <2>5 DEF HeadSet, HeaderPhaseStates, ChunkStates
      <3> QED
        BY <1>2, <2>6, <3>1 DEF MatchInv, Matched, LengthRead
    <2>8. phase' = PhaseOf(BodyState(parser'))
      BY <2>1, <2>5, Mapping, PhaseFacts
    <2>9. phase' = "body" => declared' # ULLONG_MAX
      BY <2>2, <2>8 DEF PhaseOf, BodyState
    <2>10. ASSUME phase' \in Unmeasured PROVE res'.expected_content_length = 0
      <3>1. BodyState(parser') \in {"s_body_identity_eof", "s_chunk_size_start"}
        BY <2>8, <2>10 DEF PhaseOf, BodyState, Unmeasured
      <3>2. parser'.content_length = ULLONG_MAX \/ "F_CHUNKED" \in parser'.flags
        BY <3>1 DEF BodyState
      <3>3. "F_CONTENTLENGTH" \notin parser.flags
        BY <2>5, <2>6, <2>7, <3>2, LengthAssumption
      <3> QED
        BY <1>1, <1>2, <1>3, <3>3, CompleteEmpty
    <2>11. phase' \notin BeforeBody
      <3>1. phase' # "over"
        BY <1>2, <1>5, OverIsError
      <3> QED
        BY <1>1, <3>1 DEF BeforeBody
    <2> QED
      BY <1>4, <2>9, <2>10, <2>11 DEF BlockTold
  <1> QED
    BY <1>4, <1>5 DEF InBlock

LEMMA BlockInvInit ==
    ASSUME RInit PROVE BlockInv
  <1>1. MatchInv /\ WholeInv
    BY MatchInvInit, WholeInvInit
  <1>2. res.body = 0 /\ res.body_offset = 0 /\ res.expected_content_length = 0
    BY FreshResponse DEF RInit
  <1>3. phase = "idle"
    <2>1. phase = PhaseFor(parser, last, eof)
      BY Mapping
    <2>2. parser.state = "s_start_res" /\ parser.http_errno = "HPE_OK" /\ last = "none"
      BY DEF RInit, PInit, Init, http_parser_init
    <2> QED
      <3>1. PhaseFor(parser, last, eof) = HeadPhaseOf(last)
        BY <2>2, PhaseFacts
      <3> QED
        BY <2>1, <2>2, <3>1 DEF HeadPhaseOf
  <1> QED
    BY <1>1, <1>2, <1>3 DEF BlockInv, InBlock, BlockTold, BeforeBody, Unmeasured

\* A step of the engine.
LEMMA ParseBlock ==
    ASSUME BlockInv, Handled, wire'.messages = 0
    PROVE  InBlock' /\ (NoError' /\ ~res'.null => BlockTold')
  <1>1. /\ MatchInv /\ WholeInv /\ HeadersInv /\ RInv /\ BodyInv /\ wire.messages \in Nat
        /\ ~res.null /\ body_cb' = body_cb
    BY DEF BlockInv, MatchInv, HeadersInv, BodyInv, Wire, Handled
  <1>2. EngineStep /\ Respond /\ History /\ PInv' /\ Protocol!Next
    BY <1>1, ParseTelling
  <1>3. wire.messages = 0 /\ cb'.for # "message_complete"
    <2>1. wire'.messages = IF cb'.for = "message_complete" THEN wire.messages + 1
                                                           ELSE wire.messages
      BY <1>1, <1>2, StepPasses DEF BodyInv
    <2> QED
      BY <1>1, <2>1
  <1>4. InBlock /\ (NoError => BlockTold)
    BY <1>1, <1>3 DEF BlockInv
  <1>5. CASE NoError
    <2>1. FirstMessage
      BY <1>1, <1>2, <1>3, <1>4, <1>5 DEF FirstMessage
    <2>2. CASE cb'.for \notin {"body", "headers_complete"}
      BY <1>1, <1>2, <2>1, <2>2, OtherHandlers, BlockLeft
    <2>3. CASE cb'.for = "body"
      <3>1. Protocol!Body
        BY <1>2, <2>3 DEF Protocol!Next, Protocol!MessageBegin, Protocol!Status,
           Protocol!HeaderField, Protocol!HeaderValue, Protocol!HeadersComplete,
           Protocol!ChunkHeader, Protocol!ChunkComplete, Protocol!MessageComplete,
           Protocol!Quiet, Protocol!Fail, Protocol!Calls, NoCb
      <3> QED
        BY <2>1, <3>1, BodyBlock
    <2>4. CASE cb'.for = "headers_complete"
      <3>1. Protocol!HeadersComplete
        BY <1>2, <2>4 DEF Protocol!Next, Protocol!MessageBegin, Protocol!Status,
           Protocol!HeaderField, Protocol!HeaderValue, Protocol!Body,
           Protocol!ChunkHeader, Protocol!ChunkComplete, Protocol!MessageComplete,
           Protocol!Quiet, Protocol!Fail, Protocol!Calls, NoCb
      <3> QED
        BY <2>1, <3>1, HeadBlock
    <2> QED
      BY <2>2, <2>3, <2>4
  <1>6. CASE ~NoError
    <2>1. ~NoError'
      BY <1>1, <1>2, <1>6, StepPasses DEF BodyInv, NoError
    <2>2. phase = "over"
      BY <1>6, Mapping DEF PhaseFor, NoError
    <2>3. cb' = NoCb
      BY <1>2, <2>2 DEF Protocol!Next, Protocol!MessageBegin, Protocol!Status,
         Protocol!HeaderField, Protocol!HeaderValue, Protocol!HeadersComplete, Protocol!Body,
         Protocol!ChunkHeader, Protocol!ChunkComplete, Protocol!MessageComplete,
         Protocol!Quiet, Protocol!Fail
    <2>4. cb'.for \notin {"body", "headers_complete"}
      BY <2>3 DEF NoCb
    <2>5. BlockKept
      BY <1>1, <1>2, <2>4, OtherHandlers
    <2>6. declared' = declared
      BY <1>2, <2>4 DEF History
    <2> QED
      BY <1>4, <2>1, <2>5, <2>6 DEF BlockKept, InBlock, LengthsAgree
  <1> QED
    BY <1>5, <1>6

LEMMA BlockInvNext ==
    ASSUME BlockInv, RStep PROVE BlockInv'
  <1>1. MatchInv' /\ WholeInv'
    BY MatchInvNext, WholeInvNext DEF BlockInv
  <1>2. CASE Handled
    BY <1>1, <1>2, ParseBlock DEF BlockInv
  <1>3. CASE Free \/ UNCHANGED rvars
    <2>1. /\ parser' = parser /\ last' = last /\ eof' = eof /\ wire' = wire
          /\ declared' = declared
      BY <1>3 DEF Free, rvars, pvars, vars
    <2>2. BlockKept /\ res'.null = res.null
      <3>1. CASE Free
        <4>1. ResInv(res) /\ FreeResponse /\ res \in ResponseType
          BY <3>1 DEF Free, BlockInv, WholeInv, BodyInv, RInv, ResInv
        <4>2. res'.null = res.null
          BY <4>1 DEF FreeResponse, ResponseType
        <4> QED
          BY <4>1, <4>2, FreedHandled
      <3>2. CASE UNCHANGED rvars
        BY <3>2 DEF rvars, BlockKept
      <3> QED
        BY <1>3, <3>1, <3>2
    <2>3. phase' = phase
      BY <2>1, Mapping
    <2> QED
      BY <1>1, <2>1, <2>2, <2>3
         DEF BlockInv, InBlock, LengthsAgree, BlockTold, BlockKept, NoError
  <1> QED
    BY <1>2, <1>3 DEF RStep

\* Where the headers are over no string is open: the response has all of them.
LEMMA HeadersInvSent ==
    ASSUME HeadersInv PROVE HeadersAsSent
  <1> SUFFICES ASSUME NoError, parser.state \in {"s_headers_done"} \cup BodyStates
               PROVE  /\ res.headers_count = Len(wire.names)
                      /\ Texts(res.header_fields) = wire.names
                      /\ Texts(res.header_values) = wire.values
    BY DEF HeadersAsSent
  <1>1. HeadersTold /\ RInv
    BY DEF HeadersInv, BodyInv
  <1>2. parser.state \notin TextStates
    BY DEF TextStates, BodyStates
  <1>3. wire.names = Names /\ wire.values = Values
    BY <1>1, <1>2 DEF HeadersTold, NamesTold, ValuesTold, TextStates
  <1>4. Len(Names) = Len(res.header_fields)
    <2>1. res.header_fields \in Seq(Block)
      BY <1>1 DEF RInv, ResInv, ResponseType
    <2> QED
      BY <2>1, TextsType DEF Names
  <1>5. Len(res.header_fields) = res.headers_count
    <2>1. ~res.concat_header_field /\ res.headers_count \in Nat
      BY <1>1, HeadersEnded, HeadersAssumption DEF RInv, ResInv, ResponseType
    <2> QED
      BY <1>1, <2>1 DEF HeadersTold, Counts
  <1> QED
    BY <1>3, <1>4, <1>5 DEF Names, Values

-----------------------------------------------------------------------------
(* Theorems *)

\* In every reachable state without an error, the response's names and values, with the
\* bytes of the string that is still open, are those that were sent.
THEOREM HeaderTextInvariance == RSpec => []HeadersInv
  <1>1. RInit => HeadersInv
    BY HeadersInvInit
  <1>2. HeadersInv /\ [RNext]_rvars => HeadersInv'
    BY HeadersInvNext, StepsHandled
  <1> QED
    BY <1>1, <1>2, PTL DEF RSpec

\* Once the headers are complete, the response has the names and values that the peer sent,
\* paired as they were sent: however many bytes they have, wherever the buffers cut them,
\* with folded and empty values, and whatever bytes the parser skips over.
THEOREM HeadersDelivered == RSpec => []HeadersAsSent
  BY HeadersInvSent, HeaderTextInvariance, PTL

\* What the parser knows of the headers agrees with what the peer sent of them: header_state
\* with the name being read, the flag and the number with the Content-Length values.
THEOREM MatchingInvariance == RSpec => []MatchInv
  <1>1. RInit => MatchInv
    BY MatchInvInit
  <1>2. MatchInv /\ [RNext]_rvars => MatchInv'
    BY MatchInvNext, StepsHandled
  <1> QED
    BY <1>1, <1>2, PTL DEF RSpec

\* NoConcatToNull: no handler ever returns HTTPS_CLIENT_INVALID_PARAMETER: it is never asked
\* to append to a null pointer (http_response.c:127, 171), and the Content-Length it scans at
\* the end of the headers is one the parser has let through as a number.
THEOREM NoConcatReached == RSpec => NoConcatToNull
  <1> DEFINE Fine == cb.ret # HTTPS_CLIENT_INVALID_PARAMETER
  <1>1. RInit => MatchInv /\ Fine
    <2>1. RInit => Fine
      BY DEF RInit, PInit, Init, NoCb, HTTPS_CLIENT_INVALID_PARAMETER
    <2> QED
      BY <2>1, MatchInvInit
  <1>2. (MatchInv /\ Fine) /\ [RNext]_rvars => (MatchInv /\ Fine)'
    <2> SUFFICES ASSUME MatchInv, Fine, [RNext]_rvars PROVE MatchInv' /\ Fine'
      OBVIOUS
    <2>1. MatchInv'
      BY MatchInvNext, StepsHandled
    <2>2. CASE Handled
      BY <2>1, <2>2, NoConcatStep
    <2>3. CASE Free \/ UNCHANGED rvars
      <3>1. cb' = cb
        BY <2>3 DEF Free, rvars, pvars, vars
      <3> QED
        BY <2>1, <3>1
    <2> QED
      BY <2>2, <2>3, StepsHandled DEF RStep
  <1>3. Fine' => [cb'.ret # HTTPS_CLIENT_INVALID_PARAMETER]_rvars
    OBVIOUS
  <1> HIDE DEF Fine
  <1> QED
    BY <1>1, <1>2, <1>3, PTL DEF RSpec, NoConcatToNull

\* BodyInBlock: for every size of buffer, limit and length, the bytes of the first body are
\* copied inside the block that http_response_set_body allocated for them
\* (http_response.c), if sscanf and the parser read the length alike.
THEOREM BodyBlockHolds == RSpec => []BodyInBlock
  <1>1. RInit => BlockInv
    BY BlockInvInit
  <1>2. BlockInv /\ [RNext]_rvars => BlockInv'
    BY BlockInvNext, StepsHandled
  <1>3. BlockInv => BodyInBlock
    BY DEF BlockInv, InBlock, BodyInBlock
  <1> QED
    BY <1>1, <1>2, <1>3, PTL DEF RSpec
=============================================================================
