---------------------------- MODULE ReplayProofs ----------------------------
(***************************************************************************)
(* The log replays the turn: what the events of a streaming attempt        *)
(* rebuild, once its buffers are drained, is what its collector holds, for *)
(* every value of the constants.                                           *)
(*                                                                         *)
(* The invariant is Mirrored: with the notices and items set aside, the    *)
(* parts rebuilt from the window of the log, the chain behind it and the   *)
(* two buffers are the collected ones, at most one buffer holds anything,  *)
(* no characters of the current step lie behind an item or a notice, and   *)
(* each open call is open in the log.                                      *)
(***************************************************************************)
EXTENDS TranscriptProofs

-----------------------------------------------------------------------------
(* Notices and items set aside, characters join the same parts of what the *)
(* turn collects and of what its log rebuilds.                             *)

Aside == {"notice", "item"}
CharKinds == {"text", "reasoning"}

Joinable(parts, kind, n) ==
    parts # <<>> /\ Last(parts).kind = kind /\ Last(parts).step = n

Joined(parts, kind, apart, toks, n) ==
    IF Joinable(parts, kind, n) /\ ~apart THEN WithChars(parts, toks)
    ELSE Append(parts, Chars(kind, toks, n))

(* No characters are of a later step, and none of this step are behind an  *)
(* item or a notice.                                                       *)
Upto(parts, n) == \A p \in Range(parts) : p.kind \in CharKinds => p.step <= n
Fresh(parts, n) ==
    /\ Upto(parts, n)
    /\ parts # <<>> /\ Last(parts).kind \in Aside =>
          \A p \in Range(parts) : p.kind \in CharKinds => p.step # n
NoItems(parts) == \A p \in Range(parts) : p.kind # "item"

LEMMA AppendedEnds ==
    ASSUME NEW T, NEW s \in Seq(T), NEW x \in T
    PROVE  /\ Append(s, x) \in Seq(T) /\ Append(s, x) # <<>>
           /\ Last(Append(s, x)) = x /\ Front(Append(s, x)) = s
<1> DEFINE t == Append(s, x)
<1>1. t \in Seq(T) /\ Len(t) = Len(s) + 1 /\ t[Len(s) + 1] = x
      /\ \A i \in 1..Len(s) : t[i] = s[i]
  BY AppendIs
<1>2. Len(s) \in Nat /\ t # <<>>
  OBVIOUS
<1> HIDE DEF t
<1>3. Last(t) = x
  BY <1>1, <1>2 DEF Last
<1>4. Front(t) \in Seq(T) /\ Len(Front(t)) = Len(s) /\ \A i \in 1..Len(s) : Front(t)[i] = s[i]
  <2>1. /\ Front(t) \in Seq(T) /\ Len(Front(t)) = Len(t) - 1
        /\ \A i \in 1..(Len(t) - 1) : Front(t)[i] = t[i]
    BY <1>1, <1>2, LastIs
  <2>2. Len(t) - 1 = Len(s)
    BY <1>1, <1>2
  <2> QED BY <2>1, <2>2, <1>1
<1>5. Front(t) = s
  BY <1>4, SameSequence
<1> QED BY <1>1, <1>2, <1>3, <1>5 DEF t

(* What is kept of a sequence, by its last element.                        *)
LEMMA WithoutLast ==
    ASSUME NEW T, NEW s \in Seq(T), s # <<>>, NEW kinds
    PROVE  /\ Without(s, kinds) = Keep(Without(Front(s), kinds), Last(s), kinds)
           /\ Without(Front(s), kinds) \in Seq(T)
<1>1. Front(s) \in Seq(T) /\ Last(s) \in T /\ s = Append(Front(s), Last(s))
  BY LastIs
<1>2. Without(Append(Front(s), Last(s)), kinds) = Keep(Without(Front(s), kinds), Last(s), kinds)
  BY <1>1, WithoutAppend
<1> QED BY <1>1, <1>2, WithoutKeeps

LEMMA LastInRange ==
    ASSUME NEW T, NEW s \in Seq(T), s # <<>>
    PROVE  Last(s) \in Range(s) /\ Range(s) \subseteq T /\ Range(Front(s)) \subseteq Range(s)
<1>1. /\ Len(s) \in Nat \ {0} /\ Last(s) = s[Len(s)]
      /\ Front(s) \in Seq(T) /\ Len(Front(s)) = Len(s) - 1
      /\ \A i \in 1..(Len(s) - 1) : Front(s)[i] = s[i]
  BY LastIs
<1>2. DOMAIN s = 1..Len(s) /\ DOMAIN Front(s) = 1..(Len(s) - 1)
  BY <1>1
<1>3. Len(s) \in 1..Len(s) /\ 1..(Len(s) - 1) \subseteq 1..Len(s)
      /\ \A i \in 1..Len(s) : s[i] \in T
  BY <1>1
<1> QED BY <1>1, <1>2, <1>3 DEF Range

LEMMA JoinableBared ==
    ASSUME NEW A, NEW s \in Seq(Parts(A)), NEW n \in Nat, Fresh(s, n), NEW kind \in CharKinds
    PROVE  LET t == Without(s, Aside) IN
           /\ t \in Seq(Parts(A))
           /\ Joinable(t, kind, n) <=> Joinable(s, kind, n)
           /\ Joinable(s, kind, n) => Last(t) = Last(s) /\ Front(t) = Without(Front(s), Aside)
<1> DEFINE t == Without(s, Aside)
<1>1. t \in Seq(Parts(A)) /\ Range(t) = {p \in Range(s) : p.kind \notin Aside}
  BY WithoutKeeps
<1>2. CASE s = <<>>
  <2>1. t = <<>>
    BY <1>2, WithoutNone, Zenon
  <2> HIDE DEF t
  <2>2. ~Joinable(t, kind, n) /\ ~Joinable(s, kind, n)
    BY <1>2, <2>1 DEF Joinable
  <2> QED BY <1>1, <2>2 DEF t
<1>3. CASE s # <<>>
  <2>1. /\ t = Keep(Without(Front(s), Aside), Last(s), Aside)
        /\ Without(Front(s), Aside) \in Seq(Parts(A))
    BY <1>3, WithoutLast
  <2>2. Last(s) \in Parts(A)
    BY <1>3, LastIs
  <2>3. CASE Last(s).kind \notin Aside
    <3>1. t = Append(Without(Front(s), Aside), Last(s))
      BY <2>1, <2>3 DEF Keep
    <3>2. t # <<>> /\ Last(t) = Last(s) /\ Front(t) = Without(Front(s), Aside)
      BY <2>1, <2>2, <3>1, AppendedEnds
    <3> HIDE DEF t
    <3> QED BY <1>1, <1>3, <3>2 DEF Joinable, t
  <2>4. CASE Last(s).kind \in Aside
    <3>1. \A p \in Range(s) : p.kind \in CharKinds => p.step # n
      BY <1>3, <2>4 DEF Fresh
    <3>2. ~Joinable(s, kind, n)
      BY <2>4 DEF Joinable, Aside, CharKinds
    <3> HIDE DEF t
    <3>3. t # <<>> => Last(t) \in Range(s)
      BY <1>1, LastInRange
    <3>4. ~Joinable(t, kind, n)
      BY <3>1, <3>3 DEF Joinable
    <3> QED BY <1>1, <3>2, <3>4 DEF t
  <2> QED BY <2>3, <2>4
<1> QED BY <1>2, <1>3

LEMMA CharsAre ==
    ASSUME NEW A, NEW kind \in CharKinds, NEW toks \in Seq(TokensOf(A)), NEW n \in Nat
    PROVE  /\ Chars(kind, toks, n) \in Parts(A)
           /\ Chars(kind, toks, n).kind = kind /\ Chars(kind, toks, n).toks = toks
           /\ Chars(kind, toks, n).step = n
  BY DEF Chars, Parts, CharParts, CharKinds

(* Characters join the last part of a sequence.                            *)
LEMMA WithCharsJoins ==
    ASSUME NEW A, NEW s \in Seq(Parts(A)), NEW kind \in CharKinds, NEW n, Joinable(s, kind, n),
           NEW toks \in Seq(TokensOf(A))
    PROVE  /\ Last(s).toks \in Seq(TokensOf(A)) /\ n \in Nat /\ Front(s) \in Seq(Parts(A))
           /\ Last(s).toks \o toks \in Seq(TokensOf(A))
           /\ WithChars(s, toks) = Append(Front(s), Chars(kind, Last(s).toks \o toks, n))
<1>1. s # <<>> /\ Last(s).kind = kind /\ Last(s).step = n /\ Last(s).kind \in {"text", "reasoning"}
  BY DEF Joinable, CharKinds
<1>2. /\ Last(s) \in CharParts(A)
      /\ WithChars(s, toks) = Append(Front(s), [kind |-> Last(s).kind, toks |-> Last(s).toks \o toks,
                                                step |-> Last(s).step])
  BY <1>1, WithCharsIs
<1>3. Last(s).toks \in Seq(TokensOf(A)) /\ Last(s).step \in Nat
  BY <1>2 DEF CharParts
<1>4. Front(s) \in Seq(Parts(A))
  BY <1>1, LastIs
<1>5. Last(s).toks \o toks \in Seq(TokensOf(A))
  BY <1>3
<1> QED BY <1>1, <1>2, <1>3, <1>4, <1>5 DEF Chars

LEMMA AppendFresh ==
    ASSUME NEW A, NEW s \in Seq(Parts(A)), NEW n \in Nat, Upto(s, n), NEW x \in Parts(A),
           x.kind \notin Aside, x.kind \in CharKinds => x.step <= n
    PROVE  Fresh(Append(s, x), n)
<1>1. Range(Append(s, x)) = Range(s) \cup {x} /\ Last(Append(s, x)) = x
  BY AppendedRange, AppendedEnds
<1> QED BY <1>1 DEF Fresh, Upto

LEMMA FrontUpto ==
    ASSUME NEW A, NEW s \in Seq(Parts(A)), s # <<>>, NEW n
    PROVE  /\ Upto(s, n) => Upto(Front(s), n)
           /\ NoItems(s) => NoItems(Front(s))
<1>1. Range(Front(s)) \subseteq Range(s)
  BY LastInRange
<1> QED BY <1>1 DEF Upto, NoItems

LEMMA NoItemsAppend ==
    ASSUME NEW A, NEW s \in Seq(Parts(A)), NEW x \in Parts(A), x.kind # "item", NoItems(s)
    PROVE  NoItems(Append(s, x))
<1>1. Range(Append(s, x)) = Range(s) \cup {x}
  BY AppendedRange
<1> QED BY <1>1 DEF NoItems

LEMMA JoinedFresh ==
    ASSUME NEW A, NEW s \in Seq(Parts(A)), NEW n \in Nat, Upto(s, n), NEW kind \in CharKinds,
           NEW apart, NEW toks \in Seq(TokensOf(A))
    PROVE  /\ Joined(s, kind, apart, toks, n) \in Seq(Parts(A))
           /\ Fresh(Joined(s, kind, apart, toks, n), n)
           /\ NoItems(s) => NoItems(Joined(s, kind, apart, toks, n))
<1>1. CASE Joinable(s, kind, n) /\ ~apart
  <2> DEFINE v == Last(s).toks \o toks
             p == Chars(kind, v, n)
  <2>1. /\ v \in Seq(TokensOf(A)) /\ Front(s) \in Seq(Parts(A))
        /\ WithChars(s, toks) = Append(Front(s), p)
    BY <1>1, WithCharsJoins
  <2> HIDE DEF v
  <2>2. p \in Parts(A) /\ p.kind = kind /\ p.step = n
    BY <2>1, CharsAre
  <2> HIDE DEF p
  <2>3. s # <<>>
    BY <1>1 DEF Joinable
  <2>4. Upto(Front(s), n) /\ (NoItems(s) => NoItems(Front(s)))
    BY <2>3, FrontUpto
  <2>5. p.kind \notin Aside /\ p.kind # "item" /\ p.step <= n
    BY <2>2 DEF Aside, CharKinds
  <2>6. Append(Front(s), p) \in Seq(Parts(A)) /\ Fresh(Append(Front(s), p), n)
    BY <2>1, <2>2, <2>4, <2>5, AppendFresh
  <2>7. NoItems(s) => NoItems(Append(Front(s), p))
    BY <2>1, <2>2, <2>4, <2>5, NoItemsAppend
  <2>8. Joined(s, kind, apart, toks, n) = Append(Front(s), p)
    BY <1>1, <2>1 DEF Joined
  <2> QED BY <2>6, <2>7, <2>8
<1>2. CASE ~(Joinable(s, kind, n) /\ ~apart)
  <2> DEFINE p == Chars(kind, toks, n)
  <2>1. p \in Parts(A) /\ p.kind = kind /\ p.step = n
    BY CharsAre
  <2>2. Joined(s, kind, apart, toks, n) = Append(s, p)
    BY <1>2 DEF Joined
  <2> HIDE DEF p
  <2>3. p.kind \notin Aside /\ p.kind # "item" /\ p.step <= n
    BY <2>1 DEF Aside, CharKinds
  <2>4. Append(s, p) \in Seq(Parts(A)) /\ Fresh(Append(s, p), n)
    BY <2>1, <2>3, AppendFresh
  <2>5. NoItems(s) => NoItems(Append(s, p))
    BY <2>1, <2>3, NoItemsAppend
  <2> QED BY <2>2, <2>4, <2>5
<1> QED BY <1>1, <1>2

LEMMA JoinedBared ==
    ASSUME NEW A, NEW s \in Seq(Parts(A)), NEW n \in Nat, Fresh(s, n), NEW kind \in CharKinds,
           NEW apart, NEW toks \in Seq(TokensOf(A))
    PROVE  Without(Joined(s, kind, apart, toks, n), Aside)
             = Joined(Without(s, Aside), kind, apart, toks, n)
<1> DEFINE t == Without(s, Aside)
<1>1. /\ t \in Seq(Parts(A))
      /\ Joinable(t, kind, n) <=> Joinable(s, kind, n)
      /\ Joinable(s, kind, n) => Last(t) = Last(s) /\ Front(t) = Without(Front(s), Aside)
  BY JoinableBared
<1> HIDE DEF t
<1>2. CASE Joinable(s, kind, n) /\ ~apart
  <2> DEFINE v == Last(s).toks \o toks
             p == Chars(kind, v, n)
  <2>1. /\ v \in Seq(TokensOf(A)) /\ Front(s) \in Seq(Parts(A))
        /\ WithChars(s, toks) = Append(Front(s), p)
    BY <1>2, WithCharsJoins
  <2>2. WithChars(t, toks) = Append(Front(t), Chars(kind, Last(t).toks \o toks, n))
    BY <1>1, <1>2, WithCharsJoins
  <2>3. WithChars(t, toks) = Append(Without(Front(s), Aside), p)
    BY <1>1, <1>2, <2>2
  <2> HIDE DEF v
  <2>4. p \in Parts(A) /\ p.kind = kind
    BY <2>1, CharsAre
  <2> HIDE DEF p
  <2>5. Without(Append(Front(s), p), Aside) = Keep(Without(Front(s), Aside), p, Aside)
    BY <2>1, <2>4, WithoutAppend
  <2>6. p.kind \notin Aside
    BY <2>4 DEF Aside, CharKinds
  <2>7. Without(WithChars(s, toks), Aside) = WithChars(t, toks)
    BY <2>1, <2>3, <2>5, <2>6 DEF Keep
  <2> QED BY <1>1, <1>2, <2>7 DEF Joined, t
<1>3. CASE ~(Joinable(s, kind, n) /\ ~apart)
  <2> DEFINE p == Chars(kind, toks, n)
  <2>1. p \in Parts(A) /\ p.kind = kind
    BY CharsAre
  <2>2. Joined(s, kind, apart, toks, n) = Append(s, p) /\ Joined(t, kind, apart, toks, n) = Append(t, p)
    BY <1>1, <1>3 DEF Joined
  <2> HIDE DEF p
  <2>3. Without(Append(s, p), Aside) = Keep(t, p, Aside)
    BY <2>1, WithoutAppend DEF t
  <2>4. p.kind \notin Aside
    BY <2>1 DEF Aside, CharKinds
  <2> QED BY <2>2, <2>3, <2>4 DEF Keep, t
<1> QED BY <1>2, <1>3

(* The characters of two deliveries to one part join it as those of one.   *)
(* Lists of tokens, and their concatenation.                               *)
Texts(A) == Seq(TokensOf(A))
Joins(toks, more, both) == both = toks \o more

JoinsTwice(s, kind, apart, toks, more, both, n) ==
    LET t == Joined(s, kind, apart, toks, n) IN
    /\ Joinable(t, kind, n)
    /\ Joined(t, kind, FALSE, more, n) = Joined(s, kind, apart, both, n)

LEMMA JoinedTwice ==
    ASSUME NEW A, NEW s \in Seq(Parts(A)), NEW n \in Nat, NEW kind \in CharKinds, NEW apart,
           NEW toks \in Texts(A), NEW more \in Texts(A), NEW both \in Texts(A),
           Joins(toks, more, both)
    PROVE  JoinsTwice(s, kind, apart, toks, more, both, n)
<1>1. toks \in Seq(TokensOf(A)) /\ more \in Seq(TokensOf(A)) /\ both \in Seq(TokensOf(A))
  BY DEF Texts
<1>2. PICK t : t = Joined(s, kind, apart, toks, n)
  OBVIOUS
<1>3. SUFFICES /\ Joinable(t, kind, n)
               /\ Joined(t, kind, FALSE, more, n) = Joined(s, kind, apart, both, n)
  BY <1>2 DEF JoinsTwice
<1>4. ASSUME NEW b \in Seq(Parts(A)), NEW u \in Seq(TokensOf(A)), t = Append(b, Chars(kind, u, n)),
             NEW v, Joins(u, more, v)
      PROVE  /\ Joinable(t, kind, n)
             /\ Joined(t, kind, FALSE, more, n) = Append(b, Chars(kind, v, n))
  <2> DEFINE p == Chars(kind, u, n)
  <2>1. p \in Parts(A) /\ p.kind = kind /\ p.step = n /\ p.toks = u
    BY CharsAre
  <2> HIDE DEF p
  <2>2. t \in Seq(Parts(A)) /\ t # <<>> /\ Last(t) = p /\ Front(t) = b
    BY <1>4, <2>1, AppendedEnds DEF p
  <2>3. Joinable(t, kind, n)
    BY <2>1, <2>2 DEF Joinable
  <2>4. WithChars(t, more) = Append(Front(t), Chars(kind, Last(t).toks \o more, n))
    BY <1>1, <2>2, <2>3, WithCharsJoins
  <2>5. Last(t).toks \o more = v
    BY <1>4, <2>1, <2>2 DEF Joins
  <2> QED BY <2>2, <2>3, <2>4, <2>5 DEF Joined
<1>5. CASE Joinable(s, kind, n) /\ ~apart
  <2> DEFINE u == Last(s).toks
             w == u \o toks
             v == u \o both
  <2>1. /\ u \in Seq(TokensOf(A)) /\ w \in Seq(TokensOf(A)) /\ Front(s) \in Seq(Parts(A))
        /\ WithChars(s, toks) = Append(Front(s), Chars(kind, w, n))
    BY <1>1, <1>5, WithCharsJoins
  <2> HIDE DEF w
  <2>2. WithChars(s, both) = Append(Front(s), Chars(kind, v, n))
    BY <1>1, <1>5, WithCharsJoins
  <2>3. t = WithChars(s, toks) /\ Joined(s, kind, apart, both, n) = WithChars(s, both)
    BY <1>5, <1>2 DEF Joined
  <2> HIDE DEF u
  <2>4. Joins(w, more, v)
    BY <1>1, <2>1 DEF Joins, w
  <2> HIDE DEF v
  <2> QED BY <1>4, <2>1, <2>2, <2>3, <2>4
<1>6. CASE ~(Joinable(s, kind, n) /\ ~apart)
  <2>1. t = Append(s, Chars(kind, toks, n))
        /\ Joined(s, kind, apart, both, n) = Append(s, Chars(kind, both, n))
    BY <1>6, <1>2 DEF Joined
  <2> QED BY <1>1, <1>4, <2>1
<1> QED BY <1>5, <1>6

(* An outcome touches no characters, and aside or not the same parts.      *)
LEMMA SettledPartIs ==
    ASSUME NEW A, NEW p \in Parts(A), NEW call \in CallsOf(A), NEW result \in Results
    PROVE  LET q == SettledPart(p, call, result) IN
           /\ q \in Parts(A)
           /\ p.kind \in CharKinds \cup Aside \/ q.kind \in CharKinds \cup Aside => q = p
<1>1. CASE p.kind = "pending-tool" /\ p.call = call
  <2>1. p.step \in Nat
    BY <1>1, PartKinds DEF PendingParts
  <2>2. SettledPart(p, call, result)
          = [kind |-> "tool", call |-> call, result |-> result, step |-> p.step]
    BY <1>1 DEF SettledPart
  <2>3. [kind |-> "tool", call |-> call, result |-> result, step |-> p.step] \in Parts(A)
    BY <2>1 DEF Parts, ToolParts
  <2> QED BY <1>1, <2>2, <2>3 DEF CharKinds, Aside
<1>2. CASE ~(p.kind = "pending-tool" /\ p.call = call)
  BY <1>2 DEF SettledPart
<1> QED BY <1>1, <1>2

LEMMA SettledPartsAre ==
    ASSUME NEW A, NEW s \in Seq(Parts(A)), NEW call \in CallsOf(A), NEW result \in Results
    PROVE  /\ SettledParts(s, call, result) \in Seq(Parts(A))
           /\ Len(SettledParts(s, call, result)) = Len(s)
           /\ \A i \in 1..Len(s) : SettledParts(s, call, result)[i] = SettledPart(s[i], call, result)
<1>1. DOMAIN s = 1..Len(s) /\ Len(s) \in Nat /\ \A i \in 1..Len(s) : s[i] \in Parts(A)
  OBVIOUS
<1> DEFINE new == SettledParts(s, call, result)
           m == Len(s)
<1>2. new = [i \in 1..m |-> SettledPart(s[i], call, result)]
  BY <1>1 DEF SettledParts
<1>3. \A i \in 1..m : SettledPart(s[i], call, result) \in Parts(A)
  BY <1>1, SettledPartIs
<1>4. m \in Nat
  BY <1>1
<1> HIDE DEF new, m
<1>5. new \in [1..m -> Parts(A)] /\ \A i \in 1..m : new[i] = SettledPart(s[i], call, result)
  BY <1>2, <1>3
<1>6. new \in Seq(Parts(A)) /\ Len(new) = m
  BY <1>4, <1>5
<1> QED BY <1>5, <1>6 DEF new, m

LEMMA SettledAppend ==
    ASSUME NEW A, NEW s \in Seq(Parts(A)), NEW p \in Parts(A),
           NEW call \in CallsOf(A), NEW result \in Results
    PROVE  SettledParts(Append(s, p), call, result)
             = Append(SettledParts(s, call, result), SettledPart(p, call, result))
<1> DEFINE t == Append(s, p)
           u == SettledParts(t, call, result)
           v == SettledParts(s, call, result)
           q == SettledPart(p, call, result)
<1>1. t \in Seq(Parts(A)) /\ Len(t) = Len(s) + 1 /\ t[Len(s) + 1] = p /\ Len(s) \in Nat
      /\ \A i \in 1..Len(s) : t[i] = s[i]
  BY AppendIs
<1> HIDE DEF t
<1>2. /\ u \in Seq(Parts(A)) /\ Len(u) = Len(t)
      /\ \A i \in 1..Len(t) : u[i] = SettledPart(t[i], call, result)
      /\ v \in Seq(Parts(A)) /\ Len(v) = Len(s)
      /\ \A i \in 1..Len(s) : v[i] = SettledPart(s[i], call, result)
  BY <1>1, SettledPartsAre
<1>3. q \in Parts(A)
  BY SettledPartIs
<1> HIDE DEF u, v
<1>4. /\ Len(s) + 1 \in 1..Len(t)
      /\ \A i \in 1..Len(t) : i \in 1..Len(s) \/ i = Len(s) + 1
      /\ \A i \in 1..Len(s) : i \in 1..Len(t)
  BY <1>1
<1>5. u[Len(s) + 1] = q /\ \A i \in 1..Len(s) : u[i] = v[i]
  BY <1>1, <1>2, <1>4
<1> HIDE DEF q
<1>6. /\ Append(v, q) \in Seq(Parts(A)) /\ Len(Append(v, q)) = Len(v) + 1
      /\ Append(v, q)[Len(v) + 1] = q /\ \A i \in 1..Len(v) : Append(v, q)[i] = v[i]
  BY <1>2, <1>3, AppendIs
<1>7. Len(u) = Len(Append(v, q)) /\ \A i \in 1..Len(u) : u[i] = Append(v, q)[i]
  BY <1>1, <1>2, <1>4, <1>5, <1>6
<1>8. u = Append(v, q)
  BY <1>2, <1>6, <1>7, SameSequence
<1> QED BY <1>8 DEF t, u, v, q

LEMMA SettledNone ==
    ASSUME NEW call, NEW result
    PROVE  SettledParts(<<>>, call, result) = <<>>
<1>1. <<>> \in Seq(Parts({})) /\ DOMAIN <<>> = {}
  OBVIOUS
<1> QED BY <1>1 DEF SettledParts

LEMMA SettledBared ==
    ASSUME NEW A, NEW call \in CallsOf(A), NEW result \in Results
    PROVE  \A s \in Seq(Parts(A)) :
              Without(SettledParts(s, call, result), Aside)
                = SettledParts(Without(s, Aside), call, result)
<1> DEFINE G == {s \in Seq(Parts(A)) : Without(SettledParts(s, call, result), Aside)
                                        = SettledParts(Without(s, Aside), call, result)}
<1>1. <<>> \in G
  <2>1. <<>> \in Seq(Parts(A))
    OBVIOUS
  <2> QED BY <2>1, WithoutNone, SettledNone
<1>2. ASSUME NEW s \in Seq(Parts(A)), NEW p \in Parts(A), s \in G PROVE Append(s, p) \in G
  <2> DEFINE v == SettledParts(s, call, result)
             q == SettledPart(p, call, result)
             t == Without(s, Aside)
  <2>1. Append(s, p) \in Seq(Parts(A)) /\ v \in Seq(Parts(A)) /\ t \in Seq(Parts(A))
    BY SettledPartsAre, WithoutKeeps
  <2>2. q \in Parts(A) /\ (p.kind \in Aside \/ q.kind \in Aside => q = p)
    BY SettledPartIs
  <2>3. Without(v, Aside) = SettledParts(t, call, result)
    BY <1>2
  <2>4. SettledParts(Append(s, p), call, result) = Append(v, q)
    BY SettledAppend
  <2>5. SettledParts(Append(t, p), call, result) = Append(SettledParts(t, call, result), q)
    BY <2>1, SettledAppend
  <2>6. Without(Append(s, p), Aside) = Keep(t, p, Aside)
    BY WithoutAppend
  <2> HIDE DEF v, q, t
  <2>7. Without(Append(v, q), Aside) = Keep(Without(v, Aside), q, Aside)
    BY <2>1, <2>2, WithoutAppend
  <2>8. CASE p.kind \in Aside
    BY <2>1, <2>2, <2>3, <2>4, <2>6, <2>7, <2>8 DEF Keep
  <2>9. CASE p.kind \notin Aside
    BY <2>1, <2>2, <2>3, <2>4, <2>5, <2>6, <2>7, <2>9 DEF Keep
  <2> QED BY <2>8, <2>9
<1>3. \A s \in Seq(Parts(A)) : s \in G
  <2> HIDE DEF G
  <2> QED BY <1>1, <1>2, EverySequence
<1> QED BY <1>3

LEMMA SettledFresh ==
    ASSUME NEW A, NEW s \in Seq(Parts(A)), NEW call \in CallsOf(A), NEW result \in Results, NEW n
    PROVE  LET t == SettledParts(s, call, result) IN
           /\ Fresh(s, n) => Fresh(t, n)
           /\ NoItems(s) => NoItems(t)
           /\ t # <<>> <=> s # <<>>
           /\ s # <<>> => /\ Last(t) = SettledPart(Last(s), call, result)
                          /\ Front(t) = SettledParts(Front(s), call, result)
<1> DEFINE t == SettledParts(s, call, result)
<1>1. /\ t \in Seq(Parts(A)) /\ Len(t) = Len(s)
      /\ \A i \in 1..Len(s) : t[i] = SettledPart(s[i], call, result)
  BY SettledPartsAre
<1>2. s # <<>> => Last(t) = SettledPart(Last(s), call, result)
                  /\ Front(t) = SettledParts(Front(s), call, result)
  <2> SUFFICES ASSUME s # <<>> PROVE Last(t) = SettledPart(Last(s), call, result)
                                      /\ Front(t) = SettledParts(Front(s), call, result)
    OBVIOUS
  <2>1. Front(s) \in Seq(Parts(A)) /\ Last(s) \in Parts(A) /\ s = Append(Front(s), Last(s))
    BY LastIs
  <2>2. t = Append(SettledParts(Front(s), call, result), SettledPart(Last(s), call, result))
    <3>1. SettledParts(Append(Front(s), Last(s)), call, result)
            = Append(SettledParts(Front(s), call, result), SettledPart(Last(s), call, result))
      BY <2>1, SettledAppend
    <3> QED BY <2>1, <3>1
  <2>3. SettledParts(Front(s), call, result) \in Seq(Parts(A))
        /\ SettledPart(Last(s), call, result) \in Parts(A)
    BY <2>1, SettledPartsAre, SettledPartIs
  <2> HIDE DEF t
  <2> QED BY <2>2, <2>3, AppendedEnds
<1>3. \A q \in Range(t) : \E p \in Range(s) : p \in Parts(A) /\ q = SettledPart(p, call, result)
  <2>1. DOMAIN t = 1..Len(s) /\ DOMAIN s = 1..Len(s) /\ \A i \in 1..Len(s) : s[i] \in Parts(A)
    BY <1>1
  <2> QED BY <1>1, <2>1 DEF Range
<1>4. \A q \in Range(t) : q.kind \in CharKinds \cup Aside => q \in Range(s)
  BY <1>3, SettledPartIs
<1>5. t # <<>> <=> s # <<>>
  BY <1>1
<1> HIDE DEF t
<1>6. s # <<>> /\ Last(t).kind \in Aside => Last(s).kind \in Aside
  <2> SUFFICES ASSUME s # <<>>, Last(t).kind \in Aside PROVE Last(s).kind \in Aside
    OBVIOUS
  <2>1. Last(s) \in Parts(A)
    BY LastIs
  <2> QED BY <1>2, <2>1, SettledPartIs
<1>7. Fresh(s, n) => Fresh(t, n)
  BY <1>4, <1>5, <1>6 DEF Fresh, Upto
<1>8. NoItems(s) => NoItems(t)
  BY <1>4 DEF NoItems, Aside
<1> QED BY <1>2, <1>5, <1>7, <1>8 DEF t

LEMMA SettledJoined ==
    ASSUME NEW A, NEW s \in Seq(Parts(A)), NEW call \in CallsOf(A), NEW result \in Results,
           NEW n \in Nat, NEW kind \in CharKinds, NEW apart, NEW toks \in Seq(TokensOf(A))
    PROVE  SettledParts(Joined(s, kind, apart, toks, n), call, result)
             = Joined(SettledParts(s, call, result), kind, apart, toks, n)
<1> DEFINE t == SettledParts(s, call, result)
<1>1. t \in Seq(Parts(A)) /\ (t # <<>> <=> s # <<>>)
      /\ (s # <<>> => /\ Last(t) = SettledPart(Last(s), call, result)
                      /\ Front(t) = SettledParts(Front(s), call, result))
  BY SettledPartsAre, SettledFresh
<1> HIDE DEF t
<1>2. /\ Joinable(t, kind, n) <=> Joinable(s, kind, n)
      /\ Joinable(s, kind, n) => Last(t) = Last(s)
  <2>1. CASE s = <<>>
    BY <1>1, <2>1 DEF Joinable
  <2>2. CASE s # <<>>
    <3>1. Last(s) \in Parts(A)
      BY <2>2, LastIs
    <3>2. Last(s).kind \in CharKinds \/ Last(t).kind \in CharKinds => Last(t) = Last(s)
      BY <1>1, <2>2, <3>1, SettledPartIs
    <3> QED BY <1>1, <2>2, <3>2 DEF Joinable
  <2> QED BY <2>1, <2>2
<1>3. ASSUME NEW b \in Seq(Parts(A)), NEW u \in Seq(TokensOf(A))
      PROVE  SettledParts(Append(b, Chars(kind, u, n)), call, result)
               = Append(SettledParts(b, call, result), Chars(kind, u, n))
  <2> DEFINE p == Chars(kind, u, n)
  <2>1. p \in Parts(A) /\ p.kind = kind
    BY CharsAre
  <2> HIDE DEF p
  <2>2. SettledPart(p, call, result) = p
    BY <2>1, SettledPartIs
  <2>3. SettledParts(Append(b, p), call, result) = Append(SettledParts(b, call, result), p)
    BY <2>1, <2>2, SettledAppend
  <2> QED BY <2>3 DEF p
<1>4. CASE Joinable(s, kind, n) /\ ~apart
  <2> DEFINE v == Last(s).toks \o toks
  <2>1. /\ v \in Seq(TokensOf(A)) /\ Front(s) \in Seq(Parts(A))
        /\ WithChars(s, toks) = Append(Front(s), Chars(kind, v, n))
    BY <1>4, WithCharsJoins
  <2>2. WithChars(t, toks) = Append(Front(t), Chars(kind, Last(t).toks \o toks, n))
    BY <1>1, <1>2, <1>4, WithCharsJoins
  <2>3. WithChars(t, toks) = Append(SettledParts(Front(s), call, result), Chars(kind, v, n))
    BY <1>1, <1>2, <1>4, <2>2 DEF Joinable
  <2> HIDE DEF v
  <2>4. SettledParts(WithChars(s, toks), call, result) = WithChars(t, toks)
    BY <1>3, <2>1, <2>3
  <2> QED BY <1>2, <1>4, <2>4 DEF Joined, t
<1>5. CASE ~(Joinable(s, kind, n) /\ ~apart)
  BY <1>2, <1>3, <1>5 DEF Joined, t
<1> QED BY <1>4, <1>5

(* The collector's operations, field by field.                             *)
LEMMA SameCollector ==
    ASSUME NEW A, NEW c \in Collectors(A), NEW d \in Collectors(A), c.parts = d.parts,
           c.textId = d.textId, c.reasoningId = d.reasoningId,
           c.reasoningIds = d.reasoningIds, c.settled = d.settled
    PROVE  c = d
  BY DEF Collectors

SameButParts(c, d) ==
    /\ d.textId = c.textId /\ d.reasoningId = c.reasoningId
    /\ d.reasoningIds = c.reasoningIds /\ d.settled = c.settled

(* The id of the part that characters have joined.                         *)
Adopted(parts, kind, open, id, n) ==
    IF Joinable(parts, kind, n) /\ ~IsNewPart(open, id) /\ id = None THEN open ELSE id

LEMMA ExtendsIs ==
    ASSUME NEW c, NEW kind, NEW open, NEW id, NEW n
    PROVE  ExtendsLast(c, kind, open, id, n) <=> Joinable(c.parts, kind, n) /\ ~IsNewPart(open, id)
  BY DEF ExtendsLast, Joinable

LEMMA TextFields ==
    ASSUME NEW A, NEW c \in Collectors(A), NEW toks \in Seq(TokensOf(A)), NEW id \in Ids,
           NEW n \in Nat
    PROVE  LET d == CollectText(c, toks, id, n) IN
           /\ d \in Collectors(A)
           /\ d.parts = Joined(c.parts, "text", IsNewPart(c.textId, id), toks, n)
           /\ d.textId = Adopted(c.parts, "text", c.textId, id, n)
           /\ d.reasoningId = c.reasoningId /\ d.reasoningIds = c.reasoningIds
           /\ d.settled = c.settled
<1> DEFINE d == CollectText(c, toks, id, n)
           parts == TextParts(c, toks, id, n)
           open == TextIdAfter(c, id, n)
<1>0. d = [c EXCEPT !.parts = parts, !.textId = open]
  BY DEF CollectText, TextParts, TextIdAfter
<1>1. d \in Collectors(A)
  BY CollectTextIs
<1>2. parts = Joined(c.parts, "text", IsNewPart(c.textId, id), toks, n)
  BY ExtendsIs DEF TextParts, Joined
<1>3. open = Adopted(c.parts, "text", c.textId, id, n)
  BY ExtendsIs DEF TextIdAfter, Adopted
<1> HIDE DEF d, parts, open
<1>4. /\ d.parts = parts /\ d.textId = open /\ d.reasoningId = c.reasoningId
      /\ d.reasoningIds = c.reasoningIds /\ d.settled = c.settled
  BY <1>0 DEF Collectors
<1> QED BY <1>1, <1>2, <1>3, <1>4 DEF d

LEMMA ReasoningFields ==
    ASSUME NEW A, NEW c \in Collectors(A), NEW toks \in Seq(TokensOf(A)), NEW id \in Ids,
           NEW n \in Nat
    PROVE  LET d == CollectReasoning(c, toks, id, n) IN
           /\ d \in Collectors(A)
           /\ d.parts = Joined(c.parts, "reasoning", IsNewPart(c.reasoningId, id), toks, n)
           /\ d.reasoningId = Adopted(c.parts, "reasoning", c.reasoningId, id, n)
           /\ d.reasoningIds = c.reasoningIds \cup Named(id)
           /\ d.textId = c.textId /\ d.settled = c.settled
<1> DEFINE d == CollectReasoning(c, toks, id, n)
           parts == ReasoningParts(c, toks, id, n)
           open == ReasoningIdAfter(c, id, n)
           ids == c.reasoningIds \cup Named(id)
<1>0. d = [c EXCEPT !.parts = parts, !.reasoningId = open, !.reasoningIds = ids]
  BY DEF CollectReasoning, ReasoningParts, ReasoningIdAfter
<1>1. d \in Collectors(A)
  BY CollectReasoningIs
<1>2. parts = Joined(c.parts, "reasoning", IsNewPart(c.reasoningId, id), toks, n)
  BY ExtendsIs DEF ReasoningParts, Joined
<1>3. open = Adopted(c.parts, "reasoning", c.reasoningId, id, n)
  BY ExtendsIs DEF ReasoningIdAfter, Adopted
<1> HIDE DEF d, parts, open, ids
<1>4. /\ d.parts = parts /\ d.reasoningId = open /\ d.textId = c.textId
      /\ d.reasoningIds = ids /\ d.settled = c.settled
  BY <1>0 DEF Collectors
<1> QED BY <1>1, <1>2, <1>3, <1>4 DEF d, ids

LEMMA WithheldFields ==
    ASSUME NEW A, NEW c \in Collectors(A), NEW id \in Ids, NEW n \in Nat,
           StartsReasoningPart(c, id)
    PROVE  LET d == CollectWithheld(c, id, n) IN
           /\ d \in Collectors(A)
           /\ d.parts = Append(c.parts, Chars("reasoning", <<>>, n))
           /\ d.reasoningId = id /\ d.reasoningIds = c.reasoningIds \cup {id}
           /\ d.textId = c.textId /\ d.settled = c.settled
<1> DEFINE d == CollectWithheld(c, id, n)
           parts == Append(c.parts, Chars("reasoning", <<>>, n))
           ids == c.reasoningIds \cup {id}
<1>1. d = [c EXCEPT !.parts = parts, !.reasoningId = id, !.reasoningIds = ids]
  BY DEF CollectWithheld
<1>2. d \in Collectors(A)
  BY CollectWithheldType
<1> HIDE DEF d, parts, ids
<1>3. /\ d.parts = parts /\ d.reasoningId = id /\ d.textId = c.textId
      /\ d.reasoningIds = ids /\ d.settled = c.settled
  BY <1>1 DEF Collectors
<1> QED BY <1>2, <1>3 DEF d, ids, parts

LEMMA AppendedFields ==
    ASSUME NEW A, NEW c \in Collectors(A), NEW p \in Parts(A), NEW d,
           d = [c EXCEPT !.parts = Append(c.parts, p)]
    PROVE  d \in Collectors(A) /\ d.parts = Append(c.parts, p) /\ SameButParts(c, d)
<1> DEFINE parts == Append(c.parts, p)
<1>1. c.parts \in Seq(Parts(A))
  BY DEF Collectors
<1>2. parts \in Seq(Parts(A))
  BY <1>1
<1> HIDE DEF parts
<1>3. d = [c EXCEPT !.parts = parts]
  BY DEF parts
<1>4. d \in Collectors(A) /\ d.parts = parts /\ SameButParts(c, d)
  BY <1>2, <1>3 DEF Collectors, SameButParts
<1> QED BY <1>4 DEF parts

Pending(call, n) == [kind |-> "pending-tool", call |-> call, step |-> n]

LEMMA ReserveFields ==
    ASSUME NEW A, NEW c \in Collectors(A), NEW call \in CallsOf(A), NEW n \in Nat
    PROVE  LET d == ReserveTool(c, call, n) IN
           /\ d \in Collectors(A) /\ d.parts = Append(c.parts, Pending(call, n))
           /\ SameButParts(c, d)
           /\ Pending(call, n) \in Parts(A) /\ Pending(call, n).kind = "pending-tool"
<1> DEFINE p == Pending(call, n)
<1>1. p \in Parts(A) /\ p.kind = "pending-tool"
  BY DEF Pending, Parts, PendingParts
<1>2. ReserveTool(c, call, n) = [c EXCEPT !.parts = Append(c.parts, p)]
  BY DEF ReserveTool, Pending
<1> HIDE DEF p
<1> QED BY <1>1, <1>2, AppendedFields DEF p

LEMMA SettleFields ==
    ASSUME NEW A, NEW c \in Collectors(A), NEW call \in CallsOf(A), NEW result \in Results,
           call \notin c.settled
    PROVE  LET d == SettleTool(c, call, result) IN
           /\ d \in Collectors(A)
           /\ d.parts = SettledParts(c.parts, call, result)
           /\ d.settled = c.settled \cup {call}
           /\ d.textId = c.textId /\ d.reasoningId = c.reasoningId
           /\ d.reasoningIds = c.reasoningIds
<1> DEFINE d == SettleTool(c, call, result)
           parts == SettledParts(c.parts, call, result)
           settled == c.settled \cup {call}
<1>1. d \in Collectors(A)
  BY SettleToolIs
<1>2. d = [c EXCEPT !.settled = settled, !.parts = parts]
  BY DEF SettleTool, SettledParts, SettledPart
<1> HIDE DEF d, parts, settled
<1>3. /\ d.parts = parts /\ d.settled = settled /\ d.textId = c.textId
      /\ d.reasoningId = c.reasoningId /\ d.reasoningIds = c.reasoningIds
  BY <1>2 DEF Collectors
<1> QED BY <1>1, <1>3 DEF d, parts, settled

-----------------------------------------------------------------------------
(* What the log rebuilds, x, and what the turn collects, c, at step n.      *)

Mirrors(x, c, n) ==
    /\ Without(x.parts, Aside) = Without(c.parts, Aside)
    /\ SameButParts(x, c)
    /\ Fresh(x.parts, n) /\ Fresh(c.parts, n)
    /\ NoItems(x.parts)

LEMMA MirrorsJoinable ==
    ASSUME NEW A, NEW x \in Collectors(A), NEW c \in Collectors(A), NEW n \in Nat,
           Mirrors(x, c, n), NEW kind \in CharKinds
    PROVE  Joinable(x.parts, kind, n) <=> Joinable(c.parts, kind, n)
<1>1. x.parts \in Seq(Parts(A)) /\ c.parts \in Seq(Parts(A))
  BY DEF Collectors
<1>2. Joinable(Without(x.parts, Aside), kind, n) <=> Joinable(x.parts, kind, n)
  BY <1>1, JoinableBared DEF Mirrors
<1>3. Joinable(Without(c.parts, Aside), kind, n) <=> Joinable(c.parts, kind, n)
  BY <1>1, JoinableBared DEF Mirrors
<1> QED BY <1>2, <1>3 DEF Mirrors

(* The same characters joined to both.                                     *)
LEMMA MirrorsJoined ==
    ASSUME NEW A, NEW x \in Collectors(A), NEW c \in Collectors(A), NEW n \in Nat,
           Mirrors(x, c, n), NEW kind \in CharKinds, NEW apart, NEW toks \in Seq(TokensOf(A)),
           NEW y, NEW d, SameButParts(y, d),
           y.parts = Joined(x.parts, kind, apart, toks, n),
           d.parts = Joined(c.parts, kind, apart, toks, n)
    PROVE  Mirrors(y, d, n)
<1>1. /\ x.parts \in Seq(Parts(A)) /\ c.parts \in Seq(Parts(A))
      /\ Fresh(x.parts, n) /\ Fresh(c.parts, n)
      /\ Upto(x.parts, n) /\ Upto(c.parts, n) /\ NoItems(x.parts)
      /\ Without(x.parts, Aside) = Without(c.parts, Aside)
  BY DEF Collectors, Mirrors, Fresh
<1>2. Fresh(y.parts, n) /\ NoItems(y.parts) /\ Fresh(d.parts, n)
  BY <1>1, JoinedFresh
<1>3. Without(y.parts, Aside) = Joined(Without(x.parts, Aside), kind, apart, toks, n)
  BY <1>1, JoinedBared
<1>4. Without(d.parts, Aside) = Joined(Without(c.parts, Aside), kind, apart, toks, n)
  BY <1>1, JoinedBared
<1> QED BY <1>1, <1>2, <1>3, <1>4 DEF Mirrors

LEMMA MirrorsText ==
    ASSUME NEW A, NEW x \in Collectors(A), NEW c \in Collectors(A), NEW n \in Nat,
           Mirrors(x, c, n), NEW toks \in Seq(TokensOf(A)), NEW id \in Ids
    PROVE  Mirrors(CollectText(x, toks, id, n), CollectText(c, toks, id, n), n)
<1> DEFINE y == CollectText(x, toks, id, n)
           d == CollectText(c, toks, id, n)
           apart == IsNewPart(c.textId, id)
<1>0. "text" \in CharKinds
  BY DEF CharKinds
<1>1. SameButParts(x, c)
  BY DEF Mirrors
<1>2. /\ y.parts = Joined(x.parts, "text", IsNewPart(x.textId, id), toks, n)
      /\ y.textId = Adopted(x.parts, "text", x.textId, id, n)
      /\ y.reasoningId = x.reasoningId /\ y.reasoningIds = x.reasoningIds
      /\ y.settled = x.settled
  BY TextFields
<1>3. /\ d.parts = Joined(c.parts, "text", apart, toks, n)
      /\ d.textId = Adopted(c.parts, "text", c.textId, id, n)
      /\ d.reasoningId = c.reasoningId /\ d.reasoningIds = c.reasoningIds
      /\ d.settled = c.settled
  BY TextFields
<1>4. Joinable(x.parts, "text", n) <=> Joinable(c.parts, "text", n)
  BY <1>0, MirrorsJoinable
<1> HIDE DEF y, d, apart
<1>5. SameButParts(y, d) /\ y.parts = Joined(x.parts, "text", apart, toks, n)
  BY <1>1, <1>2, <1>3, <1>4 DEF SameButParts, Adopted, apart
<1>6. Mirrors(y, d, n)
  BY <1>0, <1>3, <1>5, MirrorsJoined
<1> QED BY <1>6 DEF y, d

LEMMA MirrorsReasoning ==
    ASSUME NEW A, NEW x \in Collectors(A), NEW c \in Collectors(A), NEW n \in Nat,
           Mirrors(x, c, n), NEW toks \in Seq(TokensOf(A)), NEW id \in Ids
    PROVE  Mirrors(CollectReasoning(x, toks, id, n), CollectReasoning(c, toks, id, n), n)
<1> DEFINE y == CollectReasoning(x, toks, id, n)
           d == CollectReasoning(c, toks, id, n)
           apart == IsNewPart(c.reasoningId, id)
<1>0. "reasoning" \in CharKinds
  BY DEF CharKinds
<1>1. SameButParts(x, c)
  BY DEF Mirrors
<1>2. /\ y.parts = Joined(x.parts, "reasoning", IsNewPart(x.reasoningId, id), toks, n)
      /\ y.reasoningId = Adopted(x.parts, "reasoning", x.reasoningId, id, n)
      /\ y.textId = x.textId /\ y.reasoningIds = x.reasoningIds \cup Named(id)
      /\ y.settled = x.settled
  BY ReasoningFields
<1>3. /\ d.parts = Joined(c.parts, "reasoning", apart, toks, n)
      /\ d.reasoningId = Adopted(c.parts, "reasoning", c.reasoningId, id, n)
      /\ d.textId = c.textId /\ d.reasoningIds = c.reasoningIds \cup Named(id)
      /\ d.settled = c.settled
  BY ReasoningFields
<1>4. Joinable(x.parts, "reasoning", n) <=> Joinable(c.parts, "reasoning", n)
  BY <1>0, MirrorsJoinable
<1> HIDE DEF y, d, apart
<1>5. SameButParts(y, d) /\ y.parts = Joined(x.parts, "reasoning", apart, toks, n)
  BY <1>1, <1>2, <1>3, <1>4 DEF SameButParts, Adopted, apart
<1>6. Mirrors(y, d, n)
  BY <1>0, <1>3, <1>5, MirrorsJoined
<1> QED BY <1>6 DEF y, d

(* The same part, no item or notice, appended to both.                     *)
LEMMA MirrorsAppended ==
    ASSUME NEW A, NEW x \in Collectors(A), NEW c \in Collectors(A), NEW n \in Nat,
           Mirrors(x, c, n), NEW p \in Parts(A), p.kind \notin Aside,
           p.kind \in CharKinds => p.step <= n,
           NEW y, NEW d, SameButParts(y, d),
           y.parts = Append(x.parts, p), d.parts = Append(c.parts, p)
    PROVE  Mirrors(y, d, n)
<1>1. /\ x.parts \in Seq(Parts(A)) /\ c.parts \in Seq(Parts(A))
      /\ Upto(x.parts, n) /\ Upto(c.parts, n) /\ NoItems(x.parts)
      /\ Without(x.parts, Aside) = Without(c.parts, Aside)
  BY DEF Collectors, Mirrors, Fresh
<1>2. Fresh(y.parts, n) /\ Fresh(d.parts, n)
  BY <1>1, AppendFresh
<1>3. NoItems(y.parts)
  <2>1. p.kind # "item"
    BY DEF Aside
  <2> QED BY <1>1, <2>1, NoItemsAppend
<1>4. /\ Without(y.parts, Aside) = Keep(Without(x.parts, Aside), p, Aside)
      /\ Without(d.parts, Aside) = Keep(Without(c.parts, Aside), p, Aside)
  BY <1>1, WithoutAppend
<1> QED BY <1>1, <1>2, <1>3, <1>4 DEF Mirrors

LEMMA MirrorsWithheld ==
    ASSUME NEW A, NEW x \in Collectors(A), NEW c \in Collectors(A), NEW n \in Nat,
           Mirrors(x, c, n), NEW id \in Ids
    PROVE  Mirrors(CollectWithheld(x, id, n), CollectWithheld(c, id, n), n)
<1>1. SameButParts(x, c)
  BY DEF Mirrors
<1>2. StartsReasoningPart(x, id) <=> StartsReasoningPart(c, id)
  BY <1>1 DEF StartsReasoningPart, SameButParts
<1>3. CASE ~StartsReasoningPart(c, id)
  BY <1>2, <1>3 DEF CollectWithheld
<1>4. CASE StartsReasoningPart(c, id)
  <2> DEFINE y == CollectWithheld(x, id, n)
             d == CollectWithheld(c, id, n)
             p == Chars("reasoning", <<>>, n)
  <2>1. /\ y.parts = Append(x.parts, p) /\ y.reasoningId = id
        /\ y.reasoningIds = x.reasoningIds \cup {id}
        /\ y.textId = x.textId /\ y.settled = x.settled
    BY <1>2, <1>4, WithheldFields
  <2>2. /\ d.parts = Append(c.parts, p) /\ d.reasoningId = id
        /\ d.reasoningIds = c.reasoningIds \cup {id}
        /\ d.textId = c.textId /\ d.settled = c.settled
    BY <1>4, WithheldFields
  <2>3. p \in Parts(A) /\ p.kind = "reasoning" /\ p.step = n
    <3>0. <<>> \in Seq(TokensOf(A))
      OBVIOUS
    <3>1. PICK none \in Seq(TokensOf(A)) : none = <<>>
      BY <3>0, Zenon
    <3>2. Chars("reasoning", none, n) \in Parts(A)
      BY CharsAre DEF CharKinds
    <3> QED BY <3>1, <3>2 DEF Chars
  <2> HIDE DEF y, d, p
  <2>4. SameButParts(y, d) /\ p.kind \notin Aside /\ p.step <= n
    BY <1>1, <2>1, <2>2, <2>3 DEF SameButParts, Aside
  <2>5. Mirrors(y, d, n)
    BY <2>1, <2>2, <2>3, <2>4, MirrorsAppended
  <2> QED BY <2>5 DEF y, d
<1> QED BY <1>3, <1>4

LEMMA MirrorsReserve ==
    ASSUME NEW A, NEW x \in Collectors(A), NEW c \in Collectors(A), NEW n \in Nat,
           Mirrors(x, c, n), NEW call \in CallsOf(A)
    PROVE  Mirrors(ReserveTool(x, call, n), ReserveTool(c, call, n), n)
<1> DEFINE y == ReserveTool(x, call, n)
           d == ReserveTool(c, call, n)
           p == Pending(call, n)
<1>1. /\ y.parts = Append(x.parts, p) /\ SameButParts(x, y)
      /\ d.parts = Append(c.parts, p) /\ SameButParts(c, d)
      /\ p \in Parts(A) /\ p.kind = "pending-tool"
  BY ReserveFields
<1> HIDE DEF y, d, p
<1>2. SameButParts(y, d) /\ p.kind \notin Aside /\ p.kind \notin CharKinds
  BY <1>1 DEF SameButParts, Aside, CharKinds, Mirrors
<1>3. Mirrors(y, d, n)
  BY <1>1, <1>2, MirrorsAppended
<1> QED BY <1>3 DEF y, d

LEMMA MirrorsSettle ==
    ASSUME NEW A, NEW x \in Collectors(A), NEW c \in Collectors(A), NEW n \in Nat,
           Mirrors(x, c, n), NEW call \in CallsOf(A), NEW result \in Results
    PROVE  Mirrors(SettleTool(x, call, result), SettleTool(c, call, result), n)
<1>1. /\ SameButParts(x, c) /\ x.parts \in Seq(Parts(A)) /\ c.parts \in Seq(Parts(A))
      /\ Fresh(x.parts, n) /\ Fresh(c.parts, n) /\ NoItems(x.parts)
      /\ Without(x.parts, Aside) = Without(c.parts, Aside)
  BY DEF Mirrors, Collectors
<1>2. CASE call \in c.settled
  BY <1>1, <1>2 DEF SettleTool, SameButParts
<1>3. CASE call \notin c.settled
  <2> DEFINE y == SettleTool(x, call, result)
             d == SettleTool(c, call, result)
  <2>1. /\ y.parts = SettledParts(x.parts, call, result) /\ y.settled = x.settled \cup {call}
        /\ y.textId = x.textId /\ y.reasoningId = x.reasoningId
        /\ y.reasoningIds = x.reasoningIds
    <3>1. call \notin x.settled
      BY <1>1, <1>3 DEF SameButParts
    <3> QED BY <3>1, SettleFields
  <2>2. /\ d.parts = SettledParts(c.parts, call, result) /\ d.settled = c.settled \cup {call}
        /\ d.textId = c.textId /\ d.reasoningId = c.reasoningId
        /\ d.reasoningIds = c.reasoningIds
    BY <1>3, SettleFields
  <2> HIDE DEF y, d
  <2>3. SameButParts(y, d)
    BY <1>1, <2>1, <2>2 DEF SameButParts
  <2>4. Fresh(y.parts, n) /\ NoItems(y.parts) /\ Fresh(d.parts, n)
    BY <1>1, <2>1, <2>2, SettledFresh
  <2>5. Without(y.parts, Aside) = Without(d.parts, Aside)
    BY <1>1, <2>1, <2>2, SettledBared
  <2>6. Mirrors(y, d, n)
    BY <2>3, <2>4, <2>5 DEF Mirrors
  <2> QED BY <2>6 DEF y, d
<1> QED BY <1>2, <1>3

(* The next step: nothing of it is in either, and the notice of the cap    *)
(* and a staged item are set aside.                                        *)
LEMMA UptoNext ==
    ASSUME NEW A, NEW s \in Seq(Parts(A)), NEW n \in Nat, Upto(s, n)
    PROVE  /\ Fresh(s, n + 1)
           /\ \A p \in Parts(A) : p.kind \in Aside => Fresh(Append(s, p), n + 1)
<1>1. \A p \in Parts(A) : p.kind \in CharKinds => p.step \in Nat
  BY PartKinds DEF CharKinds, CharParts
<1>2. Range(s) \subseteq Parts(A)
  BY DEF Range
<1>3. \A p \in Range(s) : p.kind \in CharKinds => p.step <= n + 1 /\ p.step # n + 1
  BY <1>1, <1>2 DEF Upto
<1>4. ASSUME NEW p \in Parts(A), p.kind \in Aside PROVE Fresh(Append(s, p), n + 1)
  <2>1. Range(Append(s, p)) = Range(s) \cup {p} /\ p.kind \notin CharKinds
    BY <1>4, AppendedRange DEF Aside, CharKinds
  <2>2. \A q \in Range(Append(s, p)) : q.kind \in CharKinds => q.step <= n + 1 /\ q.step # n + 1
    BY <1>3, <2>1
  <2> QED BY <2>2 DEF Fresh, Upto
<1> QED BY <1>3, <1>4 DEF Fresh, Upto

(* The collector after a part that is set aside, or none.                  *)
Followed(c, p, d) == d.parts = Append(c.parts, p) /\ SameButParts(c, d)

LEMMA FollowedBared ==
    ASSUME NEW A, NEW c \in Collectors(A), NEW p \in Parts(A), p.kind \in Aside,
           NEW d \in Collectors(A), Followed(c, p, d), NEW n \in Nat, Fresh(c.parts, n)
    PROVE  /\ Without(d.parts, Aside) = Without(c.parts, Aside)
           /\ Fresh(d.parts, n + 1)
           /\ p.kind # "item" /\ NoItems(c.parts) => NoItems(d.parts)
<1>1. c.parts \in Seq(Parts(A)) /\ d.parts = Append(c.parts, p) /\ Upto(c.parts, n)
  BY DEF Collectors, Followed, Fresh
<1>2. Without(d.parts, Aside) = Without(c.parts, Aside)
  <2>1. Without(Append(c.parts, p), Aside) = Keep(Without(c.parts, Aside), p, Aside)
    BY <1>1, WithoutAppend
  <2> QED BY <1>1, <2>1 DEF Keep
<1>3. Fresh(d.parts, n + 1)
  BY <1>1, UptoNext
<1>4. p.kind # "item" /\ NoItems(c.parts) => NoItems(d.parts)
  BY <1>1, NoItemsAppend
<1> QED BY <1>2, <1>3, <1>4

LEMMA CollectPartFollows ==
    ASSUME NEW A, NEW c \in Collectors(A), NEW p \in NoticeParts \cup ItemParts
    PROVE  /\ CollectPart(c, p) \in Collectors(A) /\ Followed(c, p, CollectPart(c, p))
           /\ p \in Parts(A) /\ p.kind \in Aside
<1>1. p \in Parts(A) /\ p.kind \in Aside
  BY DEF Parts, NoticeParts, ItemParts, Aside
<1>2. CollectPart(c, p) = [c EXCEPT !.parts = Append(c.parts, p)]
  BY CollectPartType
<1> QED BY <1>1, <1>2, AppendedFields DEF Followed

LEMMA MirrorsStep ==
    ASSUME NEW A, NEW x \in Collectors(A), NEW c \in Collectors(A), NEW n \in Nat,
           Mirrors(x, c, n), NEW y \in Collectors(A), NEW d \in Collectors(A),
           y = x \/ \E p \in NoticeParts : Followed(x, p, y),
           d = c \/ \E p \in ItemParts : Followed(c, p, d)
    PROVE  Mirrors(y, d, n + 1)
<1>1. /\ x.parts \in Seq(Parts(A)) /\ c.parts \in Seq(Parts(A))
      /\ Fresh(x.parts, n) /\ Fresh(c.parts, n) /\ NoItems(x.parts)
      /\ Upto(x.parts, n) /\ Upto(c.parts, n) /\ SameButParts(x, c)
      /\ Without(x.parts, Aside) = Without(c.parts, Aside)
  BY DEF Collectors, Mirrors, Fresh
<1>2. /\ Without(y.parts, Aside) = Without(x.parts, Aside) /\ Fresh(y.parts, n + 1)
      /\ NoItems(y.parts) /\ SameButParts(x, y)
  <2>1. CASE y = x
    BY <1>1, <2>1, UptoNext DEF SameButParts
  <2>2. ASSUME NEW p \in NoticeParts, Followed(x, p, y) PROVE
        /\ Without(y.parts, Aside) = Without(x.parts, Aside) /\ Fresh(y.parts, n + 1)
        /\ NoItems(y.parts) /\ SameButParts(x, y)
    <3>1. p \in Parts(A) /\ p.kind \in Aside /\ p.kind # "item"
      BY DEF Parts, NoticeParts, Aside
    <3>2. SameButParts(x, y)
      BY <2>2 DEF Followed
    <3>3. /\ Without(y.parts, Aside) = Without(x.parts, Aside)
          /\ Fresh(y.parts, n + 1)
      BY <1>1, <2>2, <3>1, FollowedBared
    <3>4. NoItems(y.parts)
      BY <1>1, <2>2, <3>1, FollowedBared
    <3> QED BY <3>2, <3>3, <3>4
  <2> QED BY <2>1, <2>2
<1>3. /\ Without(d.parts, Aside) = Without(c.parts, Aside) /\ Fresh(d.parts, n + 1)
      /\ SameButParts(c, d)
  <2>1. CASE d = c
    BY <1>1, <2>1, UptoNext DEF SameButParts
  <2>2. ASSUME NEW p \in ItemParts, Followed(c, p, d) PROVE
        /\ Without(d.parts, Aside) = Without(c.parts, Aside) /\ Fresh(d.parts, n + 1)
        /\ SameButParts(c, d)
    <3>1. p \in Parts(A) /\ p.kind \in Aside
      BY DEF Parts, ItemParts, Aside
    <3>2. SameButParts(c, d)
      BY <2>2 DEF Followed
    <3>3. /\ Without(d.parts, Aside) = Without(c.parts, Aside)
          /\ Fresh(d.parts, n + 1)
      BY <1>1, <2>2, <3>1, FollowedBared
    <3> QED BY <3>2, <3>3
  <2> QED BY <2>1, <2>2
<1> QED BY <1>1, <1>2, <1>3 DEF Mirrors, SameButParts

-----------------------------------------------------------------------------
(* Deliveries that one event carries, and an outcome among them.           *)

LEMMA TextOf ==
    ASSUME NEW A, NEW c \in Collectors(A), NEW toks \in Texts(A), NEW id \in Ids, NEW n \in Nat
    PROVE  LET d == CollectText(c, toks, id, n) IN
           /\ d \in Collectors(A)
           /\ d.parts = Joined(c.parts, "text", IsNewPart(c.textId, id), toks, n)
           /\ d.textId = Adopted(c.parts, "text", c.textId, id, n)
           /\ d.reasoningId = c.reasoningId /\ d.reasoningIds = c.reasoningIds
           /\ d.settled = c.settled
  BY TextFields DEF Texts

LEMMA ReasoningOf ==
    ASSUME NEW A, NEW c \in Collectors(A), NEW toks \in Texts(A), NEW id \in Ids, NEW n \in Nat
    PROVE  LET d == CollectReasoning(c, toks, id, n) IN
           /\ d \in Collectors(A)
           /\ d.parts = Joined(c.parts, "reasoning", IsNewPart(c.reasoningId, id), toks, n)
           /\ d.reasoningId = Adopted(c.parts, "reasoning", c.reasoningId, id, n)
           /\ d.reasoningIds = c.reasoningIds \cup Named(id)
           /\ d.textId = c.textId /\ d.settled = c.settled
  BY ReasoningFields DEF Texts

LEMMA TextTwice ==
    ASSUME NEW A, NEW c \in Collectors(A), NEW toks \in Texts(A), NEW more \in Texts(A),
           NEW both \in Texts(A), Joins(toks, more, both), NEW id \in Ids, NEW n \in Nat
    PROVE  CollectText(CollectText(c, toks, id, n), more, id, n) = CollectText(c, both, id, n)
<1> DEFINE apart == IsNewPart(c.textId, id)
           d == CollectText(c, toks, id, n)
           e == CollectText(d, more, id, n)
           f == CollectText(c, both, id, n)
<1>0. "text" \in CharKinds /\ c.parts \in Seq(Parts(A))
  BY DEF CharKinds, Collectors
<1>1. /\ d \in Collectors(A) /\ d.parts = Joined(c.parts, "text", apart, toks, n)
      /\ d.textId = Adopted(c.parts, "text", c.textId, id, n)
      /\ d.reasoningId = c.reasoningId /\ d.reasoningIds = c.reasoningIds
      /\ d.settled = c.settled
  BY TextOf
<1>2. /\ f \in Collectors(A) /\ f.parts = Joined(c.parts, "text", apart, both, n)
      /\ f.textId = Adopted(c.parts, "text", c.textId, id, n)
      /\ f.reasoningId = c.reasoningId /\ f.reasoningIds = c.reasoningIds
      /\ f.settled = c.settled
  BY TextOf
<1> HIDE DEF d, f
<1>3. /\ e \in Collectors(A)
      /\ e.parts = Joined(d.parts, "text", IsNewPart(d.textId, id), more, n)
      /\ e.textId = Adopted(d.parts, "text", d.textId, id, n)
      /\ e.reasoningId = d.reasoningId /\ e.reasoningIds = d.reasoningIds
      /\ e.settled = d.settled
  BY <1>1, TextOf
<1> HIDE DEF e
<1>4. ~IsNewPart(d.textId, id) /\ IsNewPart(d.textId, id) = FALSE
  BY <1>1 DEF Adopted, IsNewPart, apart
<1> HIDE DEF apart
<1>5. /\ Joinable(d.parts, "text", n)
      /\ Joined(d.parts, "text", FALSE, more, n) = Joined(c.parts, "text", apart, both, n)
  <2>1. JoinsTwice(c.parts, "text", apart, toks, more, both, n)
    BY <1>0, JoinedTwice
  <2> QED BY <1>1, <2>1 DEF JoinsTwice
<1>6. e.textId = f.textId
  BY <1>1, <1>2, <1>3, <1>4, <1>5 DEF Adopted, IsNewPart, apart
<1>7. e.parts = f.parts
  BY <1>2, <1>3, <1>4, <1>5
<1>8. e = f
  BY <1>1, <1>2, <1>3, <1>6, <1>7, SameCollector
<1> QED BY <1>8 DEF d, e, f

LEMMA ReasoningTwice ==
    ASSUME NEW A, NEW c \in Collectors(A), NEW toks \in Texts(A), NEW more \in Texts(A),
           NEW both \in Texts(A), Joins(toks, more, both), NEW id \in Ids, NEW n \in Nat
    PROVE  CollectReasoning(CollectReasoning(c, toks, id, n), more, id, n) = CollectReasoning(c, both, id, n)
<1> DEFINE apart == IsNewPart(c.reasoningId, id)
           d == CollectReasoning(c, toks, id, n)
           e == CollectReasoning(d, more, id, n)
           f == CollectReasoning(c, both, id, n)
<1>0. "reasoning" \in CharKinds /\ c.parts \in Seq(Parts(A))
  BY DEF CharKinds, Collectors
<1>1. /\ d \in Collectors(A) /\ d.parts = Joined(c.parts, "reasoning", apart, toks, n)
      /\ d.reasoningId = Adopted(c.parts, "reasoning", c.reasoningId, id, n)
      /\ d.textId = c.textId /\ d.reasoningIds = c.reasoningIds \cup Named(id)
      /\ d.settled = c.settled
  BY ReasoningOf
<1>2. /\ f \in Collectors(A) /\ f.parts = Joined(c.parts, "reasoning", apart, both, n)
      /\ f.reasoningId = Adopted(c.parts, "reasoning", c.reasoningId, id, n)
      /\ f.textId = c.textId /\ f.reasoningIds = c.reasoningIds \cup Named(id)
      /\ f.settled = c.settled
  BY ReasoningOf
<1> HIDE DEF d, f
<1>3. /\ e \in Collectors(A)
      /\ e.parts = Joined(d.parts, "reasoning", IsNewPart(d.reasoningId, id), more, n)
      /\ e.reasoningId = Adopted(d.parts, "reasoning", d.reasoningId, id, n)
      /\ e.textId = d.textId /\ e.reasoningIds = d.reasoningIds \cup Named(id)
      /\ e.settled = d.settled
  BY <1>1, ReasoningOf
<1> HIDE DEF e
<1>4. ~IsNewPart(d.reasoningId, id) /\ IsNewPart(d.reasoningId, id) = FALSE
  BY <1>1 DEF Adopted, IsNewPart, apart
<1> HIDE DEF apart
<1>5. /\ Joinable(d.parts, "reasoning", n)
      /\ Joined(d.parts, "reasoning", FALSE, more, n) = Joined(c.parts, "reasoning", apart, both, n)
  <2>1. JoinsTwice(c.parts, "reasoning", apart, toks, more, both, n)
    BY <1>0, JoinedTwice
  <2> QED BY <1>1, <2>1 DEF JoinsTwice
<1>6. e.reasoningId = f.reasoningId /\ e.reasoningIds = f.reasoningIds
  BY <1>1, <1>2, <1>3, <1>4, <1>5 DEF Adopted, IsNewPart, apart
<1>7. e.parts = f.parts
  BY <1>2, <1>3, <1>4, <1>5
<1>8. e = f
  BY <1>1, <1>2, <1>3, <1>6, <1>7, SameCollector
<1> QED BY <1>8 DEF d, e, f

LEMMA JoinableSettled ==
    ASSUME NEW A, NEW s \in Seq(Parts(A)), NEW call \in CallsOf(A), NEW result \in Results,
           NEW n, NEW kind \in CharKinds
    PROVE  Joinable(SettledParts(s, call, result), kind, n) <=> Joinable(s, kind, n)
<1> DEFINE t == SettledParts(s, call, result)
<1>1. /\ t # <<>> <=> s # <<>>
      /\ s # <<>> => Last(t) = SettledPart(Last(s), call, result)
  BY SettledFresh
<1> HIDE DEF t
<1>2. CASE s = <<>>
  BY <1>1, <1>2 DEF Joinable, t
<1>3. CASE s # <<>>
  <2>1. Last(s) \in Parts(A)
    BY <1>3, LastIs
  <2>2. Last(s).kind \in CharKinds \/ Last(t).kind \in CharKinds => Last(t) = Last(s)
    BY <1>1, <1>3, <2>1, SettledPartIs
  <2> QED BY <1>1, <1>3, <2>2 DEF Joinable, t
<1> QED BY <1>2, <1>3

LEMMA TextSettled ==
    ASSUME NEW A, NEW c \in Collectors(A), NEW toks \in Seq(TokensOf(A)), NEW id \in Ids,
           NEW n \in Nat, NEW call \in CallsOf(A), NEW result \in Results
    PROVE  CollectText(SettleTool(c, call, result), toks, id, n)
             = SettleTool(CollectText(c, toks, id, n), call, result)
<1> DEFINE d == CollectText(c, toks, id, n)
           s == SettleTool(c, call, result)
           ds == SettleTool(d, call, result)
           sd == CollectText(s, toks, id, n)
<1>0. "text" \in CharKinds /\ c.parts \in Seq(Parts(A))
  BY DEF CharKinds, Collectors
<1>1. /\ d \in Collectors(A)
      /\ d.parts = Joined(c.parts, "text", IsNewPart(c.textId, id), toks, n)
      /\ d.textId = Adopted(c.parts, "text", c.textId, id, n)
      /\ d.reasoningId = c.reasoningId /\ d.reasoningIds = c.reasoningIds
      /\ d.settled = c.settled
  BY TextFields
<1> HIDE DEF d
<1>2. CASE call \in c.settled
  BY <1>1, <1>2 DEF SettleTool, d
<1>3. CASE call \notin c.settled
  <2>1. /\ s \in Collectors(A) /\ s.parts = SettledParts(c.parts, call, result)
        /\ s.settled = c.settled \cup {call} /\ s.textId = c.textId
        /\ s.reasoningId = c.reasoningId /\ s.reasoningIds = c.reasoningIds
    BY <1>3, SettleFields
  <2>2. /\ ds \in Collectors(A) /\ ds.parts = SettledParts(d.parts, call, result)
        /\ ds.settled = d.settled \cup {call} /\ ds.textId = d.textId
        /\ ds.reasoningId = d.reasoningId /\ ds.reasoningIds = d.reasoningIds
    BY <1>1, <1>3, SettleFields
  <2> HIDE DEF s, ds
  <2>3. /\ sd \in Collectors(A)
        /\ sd.parts = Joined(s.parts, "text", IsNewPart(s.textId, id), toks, n)
        /\ sd.textId = Adopted(s.parts, "text", s.textId, id, n)
        /\ sd.reasoningId = s.reasoningId /\ sd.reasoningIds = s.reasoningIds
        /\ sd.settled = s.settled
    BY <2>1, TextFields
  <2> HIDE DEF sd
  <2>4. SettledParts(Joined(c.parts, "text", IsNewPart(c.textId, id), toks, n), call, result)
          = Joined(SettledParts(c.parts, call, result), "text", IsNewPart(c.textId, id), toks, n)
    BY <1>0, SettledJoined
  <2>5. Joinable(s.parts, "text", n) <=> Joinable(c.parts, "text", n)
    BY <1>0, <2>1, JoinableSettled
  <2>6. sd.parts = ds.parts
    BY <1>1, <2>1, <2>2, <2>3, <2>4
  <2>7. sd.textId = ds.textId
    BY <1>1, <2>1, <2>2, <2>3, <2>5 DEF Adopted
  <2>8. sd = ds
    BY <1>1, <2>1, <2>2, <2>3, <2>6, <2>7, SameCollector
  <2> QED BY <2>8 DEF sd, ds, d, s
<1> QED BY <1>2, <1>3

LEMMA ReasoningSettled ==
    ASSUME NEW A, NEW c \in Collectors(A), NEW toks \in Seq(TokensOf(A)), NEW id \in Ids,
           NEW n \in Nat, NEW call \in CallsOf(A), NEW result \in Results
    PROVE  CollectReasoning(SettleTool(c, call, result), toks, id, n)
             = SettleTool(CollectReasoning(c, toks, id, n), call, result)
<1> DEFINE d == CollectReasoning(c, toks, id, n)
           s == SettleTool(c, call, result)
           ds == SettleTool(d, call, result)
           sd == CollectReasoning(s, toks, id, n)
<1>0. "reasoning" \in CharKinds /\ c.parts \in Seq(Parts(A))
  BY DEF CharKinds, Collectors
<1>1. /\ d \in Collectors(A)
      /\ d.parts = Joined(c.parts, "reasoning", IsNewPart(c.reasoningId, id), toks, n)
      /\ d.reasoningId = Adopted(c.parts, "reasoning", c.reasoningId, id, n)
      /\ d.textId = c.textId /\ d.reasoningIds = c.reasoningIds \cup Named(id)
      /\ d.settled = c.settled
  BY ReasoningFields
<1> HIDE DEF d
<1>2. CASE call \in c.settled
  BY <1>1, <1>2 DEF SettleTool, d
<1>3. CASE call \notin c.settled
  <2>1. /\ s \in Collectors(A) /\ s.parts = SettledParts(c.parts, call, result)
        /\ s.settled = c.settled \cup {call} /\ s.textId = c.textId
        /\ s.reasoningId = c.reasoningId /\ s.reasoningIds = c.reasoningIds
    BY <1>3, SettleFields
  <2>2. /\ ds \in Collectors(A) /\ ds.parts = SettledParts(d.parts, call, result)
        /\ ds.settled = d.settled \cup {call} /\ ds.textId = d.textId
        /\ ds.reasoningId = d.reasoningId /\ ds.reasoningIds = d.reasoningIds
    BY <1>1, <1>3, SettleFields
  <2> HIDE DEF s, ds
  <2>3. /\ sd \in Collectors(A)
        /\ sd.parts = Joined(s.parts, "reasoning", IsNewPart(s.reasoningId, id), toks, n)
        /\ sd.reasoningId = Adopted(s.parts, "reasoning", s.reasoningId, id, n)
        /\ sd.textId = s.textId /\ sd.reasoningIds = s.reasoningIds \cup Named(id)
        /\ sd.settled = s.settled
    BY <2>1, ReasoningFields
  <2> HIDE DEF sd
  <2>4. SettledParts(Joined(c.parts, "reasoning", IsNewPart(c.reasoningId, id), toks, n), call, result)
          = Joined(SettledParts(c.parts, call, result), "reasoning",
                   IsNewPart(c.reasoningId, id), toks, n)
    BY <1>0, SettledJoined
  <2>5. Joinable(s.parts, "reasoning", n) <=> Joinable(c.parts, "reasoning", n)
    BY <1>0, <2>1, JoinableSettled
  <2>6. sd.parts = ds.parts
    BY <1>1, <2>1, <2>2, <2>3, <2>4
  <2>7. sd.reasoningId = ds.reasoningId
    BY <1>1, <2>1, <2>2, <2>3, <2>5 DEF Adopted
  <2>8. sd = ds
    BY <1>1, <2>1, <2>2, <2>3, <2>6, <2>7, SameCollector
  <2> QED BY <2>8 DEF sd, ds, d, s
<1> QED BY <1>2, <1>3


-----------------------------------------------------------------------------
(* What is shown of two lists that are the same but for what is set aside. *)

LEMMA WithoutTwice ==
    ASSUME NEW T, NEW J, NEW K
    PROVE  \A s \in Seq(T) : Without(Without(s, J), K) = Without(s, J \cup K)
<1> DEFINE L == J \cup K
           G == {s \in Seq(T) : Without(Without(s, J), K) = Without(s, L)}
<1>1. <<>> \in G
  <2>1. <<>> \in Seq(T)
    OBVIOUS
  <2> QED BY <2>1, WithoutNone
<1>2. ASSUME NEW s \in Seq(T), NEW p \in T, s \in G PROVE Append(s, p) \in G
  <2> DEFINE t == Without(s, J)
  <2>1. Append(s, p) \in Seq(T) /\ t \in Seq(T)
    BY WithoutKeeps
  <2>2. Without(t, K) = Without(s, L)
    BY <1>2
  <2>3. /\ Without(Append(s, p), J) = Keep(t, p, J)
        /\ Without(Append(s, p), L) = Keep(Without(s, L), p, L)
    BY WithoutAppend
  <2> HIDE DEF t
  <2>4. Without(Append(t, p), K) = Keep(Without(t, K), p, K)
    BY <2>1, WithoutAppend
  <2>5. p.kind \in L <=> p.kind \in J \/ p.kind \in K
    OBVIOUS
  <2> HIDE DEF L
  <2>6. CASE p.kind \in J
    BY <2>1, <2>2, <2>3, <2>5, <2>6 DEF Keep
  <2>7. CASE p.kind \notin J
    BY <2>1, <2>2, <2>3, <2>4, <2>5, <2>7 DEF Keep
  <2> QED BY <2>6, <2>7
<1>3. \A s \in Seq(T) : s \in G
  <2> HIDE DEF G
  <2> QED BY <1>1, <1>2, EverySequence
<1> QED BY <1>3

LEMMA WithoutNothing ==
    ASSUME NEW A
    PROVE  \A s \in Seq(Parts(A)) : NoItems(s) => Without(s, {"item"}) = s
<1> DEFINE K == {"item"}
           G == {s \in Seq(Parts(A)) : NoItems(s) => Without(s, K) = s}
<1>1. <<>> \in G
  <2>1. <<>> \in Seq(Parts(A))
    OBVIOUS
  <2> QED BY <2>1, WithoutNone
<1>2. ASSUME NEW s \in Seq(Parts(A)), NEW p \in Parts(A), s \in G PROVE Append(s, p) \in G
  <2>1. Append(s, p) \in Seq(Parts(A))
    OBVIOUS
  <2>2. Range(Append(s, p)) = Range(s) \cup {p}
    BY AppendedRange
  <2>3. Without(Append(s, p), K) = Keep(Without(s, K), p, K)
    BY WithoutAppend
  <2>4. ASSUME NoItems(Append(s, p)) PROVE Without(Append(s, p), K) = Append(s, p)
    <3>1. NoItems(s) /\ p.kind \notin K
      BY <2>2, <2>4 DEF NoItems
    <3> QED BY <1>2, <2>3, <3>1 DEF Keep
  <2> QED BY <2>1, <2>4
<1>3. \A s \in Seq(Parts(A)) : s \in G
  <2> HIDE DEF G
  <2> QED BY <1>1, <1>2, EverySequence
<1> QED BY <1>3

LEMMA MirrorsShown ==
    ASSUME NEW A, NEW x \in Collectors(A), NEW c \in Collectors(A), NEW n, Mirrors(x, c, n)
    PROVE  Without(PartsOf(x), {"notice"}) = Without(PartsOf(c), {"notice", "item"})
<1> DEFINE P == {"pending-tool"}
           shown == P \cup {"notice"}
           hidden == P \cup Aside
<1>1. /\ x.parts \in Seq(Parts(A)) /\ c.parts \in Seq(Parts(A))
      /\ Without(x.parts, Aside) = Without(c.parts, Aside) /\ NoItems(x.parts)
  BY DEF Collectors, Mirrors
<1>2. hidden = Aside \cup P /\ hidden = {"item"} \cup shown /\ Aside = {"notice", "item"}
  BY DEF Aside
<1>3. Without(PartsOf(x), {"notice"}) = Without(x.parts, shown)
  BY <1>1, WithoutTwice DEF PartsOf
<1>4. Without(PartsOf(c), Aside) = Without(c.parts, hidden)
  BY <1>1, WithoutTwice DEF PartsOf
<1> HIDE DEF shown, hidden
<1>5. Without(c.parts, hidden) = Without(x.parts, hidden)
  <2>1. /\ Without(Without(c.parts, Aside), P) = Without(c.parts, hidden)
        /\ Without(Without(x.parts, Aside), P) = Without(x.parts, hidden)
    BY <1>1, <1>2, WithoutTwice
  <2> QED BY <1>1, <2>1
<1>6. Without(x.parts, hidden) = Without(x.parts, shown)
  <2>1. Without(Without(x.parts, {"item"}), shown) = Without(x.parts, hidden)
    BY <1>1, <1>2, WithoutTwice
  <2>2. Without(x.parts, {"item"}) = x.parts
    BY <1>1, WithoutNothing
  <2> QED BY <2>1, <2>2
<1> QED BY <1>2, <1>3, <1>4, <1>5, <1>6


-----------------------------------------------------------------------------
(* Each event of the stream applied to what is rebuilt, field by field.    *)

SameCalls(r, q) == q.open = r.open /\ q.seen = r.seen

LEMMA CollApplied ==
    ASSUME NEW A, NEW r \in Rebuilders(A), NEW x, NEW q, q = [r EXCEPT !.coll = x]
    PROVE  q.coll = x /\ SameCalls(r, q)
  BY DEF Rebuilders, SameCalls

LEMMA DeltaIs ==
    ASSUME NEW type, NEW toks, NEW id, NEW n
    PROVE  LET e == Delta(type, toks, id, n) IN
           e.type = type /\ e.toks = toks /\ e.id = id /\ e.step = n
  BY DEF Delta, Event

LEMMA TextApplied ==
    ASSUME NEW A, NEW r \in Rebuilders(A), NEW toks, NEW id, NEW n
    PROVE  LET q == ApplyEvent(r, Delta("model.delta", toks, id, n)) IN
           q.coll = CollectText(r.coll, toks, id, n) /\ SameCalls(r, q)
<1> DEFINE e == Delta("model.delta", toks, id, n)
           q == ApplyEvent(r, e)
           x == CollectText(r.coll, toks, id, n)
<1>1. e.type = "model.delta" /\ e.toks = toks /\ e.id = id /\ e.step = n
  BY DeltaIs
<1> HIDE DEF e
<1>2. q = [r EXCEPT !.coll = x]
  BY <1>1 DEF ApplyEvent
<1> HIDE DEF q, x
<1>3. q.coll = x /\ SameCalls(r, q)
  BY <1>2, CollApplied
<1> QED BY <1>3 DEF q, x, e

LEMMA ReasoningApplied ==
    ASSUME NEW A, NEW r \in Rebuilders(A), NEW toks, NEW id, NEW n
    PROVE  LET q == ApplyEvent(r, Delta("reasoning.delta", toks, id, n)) IN
           /\ toks # <<>> => q.coll = CollectReasoning(r.coll, toks, id, n)
           /\ toks = <<>> => q.coll = CollectWithheld(r.coll, id, n)
           /\ SameCalls(r, q)
<1> DEFINE e == Delta("reasoning.delta", toks, id, n)
           q == ApplyEvent(r, e)
           x == IF toks = <<>> THEN CollectWithheld(r.coll, id, n)
                ELSE CollectReasoning(r.coll, toks, id, n)
<1>1. e.type = "reasoning.delta" /\ e.toks = toks /\ e.id = id /\ e.step = n
  BY DeltaIs
<1> HIDE DEF e
<1>2. q = [r EXCEPT !.coll = x]
  <2>1. CASE toks = <<>>
    BY <1>1, <2>1 DEF ApplyEvent
  <2>2. CASE toks # <<>>
    BY <1>1, <2>2 DEF ApplyEvent
  <2> QED BY <2>1, <2>2
<1>3. /\ toks # <<>> => x = CollectReasoning(r.coll, toks, id, n)
      /\ toks = <<>> => x = CollectWithheld(r.coll, id, n)
  OBVIOUS
<1> HIDE DEF q, x
<1>4. q.coll = x /\ SameCalls(r, q)
  BY <1>2, CollApplied
<1> QED BY <1>3, <1>4 DEF q, e

LEMMA CapApplied ==
    ASSUME NEW A, NEW r \in Rebuilders(A)
    PROVE  LET q == ApplyEvent(r, Event("run.step_cap_reached")) IN
           q.coll = CollectPart(r.coll, CapNotice) /\ SameCalls(r, q)
<1> DEFINE e == Event("run.step_cap_reached")
           q == ApplyEvent(r, e)
           x == CollectPart(r.coll, CapNotice)
<1>1. e.type = "run.step_cap_reached"
  BY DEF Event
<1> HIDE DEF e
<1>2. q = [r EXCEPT !.coll = x]
  BY <1>1 DEF ApplyEvent
<1> HIDE DEF q, x
<1>3. q.coll = x /\ SameCalls(r, q)
  BY <1>2, CollApplied
<1> QED BY <1>3 DEF q, x, e

LEMMA RequestApplied ==
    ASSUME NEW A, NEW r \in Rebuilders(A), NEW a, NEW c, NEW n, <<a, c>> \notin r.seen
    PROVE  LET q == ApplyEvent(r, RequestEvent(a, c, n)) IN
           /\ q.coll = ReserveTool(r.coll, <<a, c>>, n)
           /\ q.open = r.open \cup {<<a, c>>} /\ q.seen = r.seen \cup {<<a, c>>}
<1> DEFINE e == RequestEvent(a, c, n)
           q == ApplyEvent(r, e)
           call == <<a, c>>
           x == ReserveTool(r.coll, call, n)
           open == r.open \cup {call}
           seen == r.seen \cup {call}
<1>1. e.type = "tool.requested" /\ e.call = call /\ e.step = n /\ call \notin r.seen
  BY RequestEventIs
<1> HIDE DEF e, call
<1>2. q = [r EXCEPT !.coll = x, !.open = open, !.seen = seen]
  BY <1>1 DEF ApplyEvent
<1> HIDE DEF q, x, open, seen
<1>3. q.coll = x /\ q.open = open /\ q.seen = seen
  BY <1>2 DEF Rebuilders
<1> QED BY <1>3 DEF q, x, e, open, seen, call

LEMMA CompletedApplied ==
    ASSUME NEW A, NEW r \in Rebuilders(A), NEW call, NEW result, call \in r.open
    PROVE  LET q == ApplyEvent(r, Completed(call, result)) IN
           /\ q.coll = SettleTool(r.coll, call, result)
           /\ q.open = r.open \ {call} /\ q.seen = r.seen
<1> DEFINE e == Completed(call, result)
           q == ApplyEvent(r, e)
           x == SettleTool(r.coll, call, result)
           open == r.open \ {call}
<1>1. e.type = "tool.completed" /\ e.call = call /\ e.result = result
  BY DEF Completed, ToolEvent, Event
<1> HIDE DEF e
<1>2. q = [r EXCEPT !.coll = x, !.open = open]
  BY <1>1 DEF ApplyEvent
<1> HIDE DEF q, x, open
<1>3. q.coll = x /\ q.open = open /\ q.seen = r.seen
  BY <1>2 DEF Rebuilders
<1> QED BY <1>3 DEF q, x, e, open

LEMMA StartApplied ==
    ASSUME NEW r, NEW call
    PROVE  ApplyEvent(r, ToolEvent("tool.started", call)) = r
<1> DEFINE e == ToolEvent("tool.started", call)
<1>1. e.type = "tool.started"
  BY DEF ToolEvent, Event
<1> HIDE DEF e
<1>2. ApplyEvent(r, e) = r
  BY <1>1 DEF ApplyEvent
<1> QED BY <1>2 DEF e


-----------------------------------------------------------------------------
(* What the events of a window and those queued behind them rebuild, and   *)
(* what the buffers would add to it.                                       *)

Windows(a) == Seq(Events({a}))
Behind(s, l) == Rebuild(s \o l.chain)

CaughtReasoning(x, l) ==
    IF l.reasoningBuf = <<>> THEN x
    ELSE CollectReasoning(x, l.reasoningBuf, l.reasoningId, l.step)
CaughtText(x, l) ==
    IF l.textBuf = <<>> THEN x ELSE CollectText(x, l.textBuf, l.textId, l.step)
Caught(x, l) == CaughtText(CaughtReasoning(x, l), l)
OneBuffer(l) == l.textBuf = <<>> \/ l.reasoningBuf = <<>>

LEMMA BehindType ==
    ASSUME NEW a, NEW s \in Windows(a), NEW l \in Locals(a)
    PROVE  Behind(s, l) \in Rebuilders({a}) /\ Behind(s, l).coll \in Collectors({a})
<1>1. l.chain \in Seq(StreamEvents({a}))
  BY LocalFields
<1> DEFINE T == Events({a}) \cup Completions
<1>2. s \in Seq(T) /\ l.chain \in Seq(T)
  <2>1. Events({a}) \subseteq T /\ StreamEvents({a}) \subseteq T
    BY DEF Events
  <2>2. Seq(Events({a})) \subseteq Seq(T) /\ Seq(StreamEvents({a})) \subseteq Seq(T)
    BY <2>1, SeqMonotone
  <2> QED BY <1>1, <2>2 DEF Windows
<1> HIDE DEF T
<1>3. s \o l.chain \in Seq(T)
  BY <1>2
<1>4. Rebuild(s \o l.chain) \in Rebuilders({a})
  BY <1>3, RebuildType DEF T
<1> QED BY <1>4 DEF Behind, Rebuilders

LEMMA BehindEnqueued ==
    ASSUME NEW a, NEW s \in Windows(a), NEW l \in Locals(a), NEW e \in StreamEvents({a}),
           NEW k, k.chain = Append(l.chain, e)
    PROVE  Behind(s, k) = ApplyEvent(Behind(s, l), e)
<1> DEFINE T == Events({a})
           chain == l.chain
           t == s \o chain
<1>1. chain \in Seq(T) /\ e \in T /\ s \in Seq(T)
  <2>1. StreamEvents({a}) \subseteq T /\ chain \in Seq(StreamEvents({a}))
    BY LocalFields DEF Events
  <2>2. Seq(StreamEvents({a})) \subseteq Seq(T)
    BY <2>1, SeqMonotone
  <2> QED BY <2>1, <2>2 DEF Windows
<1> HIDE DEF T, chain
<1>2. t \in Seq(T)
  BY <1>1
<1>3. s \o Append(chain, e) = Append(t, e)
  BY <1>1
<1> HIDE DEF t
<1>4. Rebuild(Append(t, e)) = ApplyEvent(Rebuild(t), e)
  BY <1>1, <1>2, RebuildAppend
<1> QED BY <1>3, <1>4 DEF Behind, t, chain

LEMMA BuffersAre ==
    ASSUME NEW a, NEW l \in Locals(a)
    PROVE  /\ l.textBuf \in Texts({a}) /\ l.textId \in Ids
           /\ l.reasoningBuf \in Texts({a}) /\ l.reasoningId \in Ids
           /\ l.step \in Nat /\ l.coll \in Collectors({a})
  BY LocalFields DEF Texts

LEMMA CaughtType ==
    ASSUME NEW a, NEW l \in Locals(a), NEW x \in Collectors({a})
    PROVE  /\ CaughtReasoning(x, l) \in Collectors({a})
           /\ CaughtText(x, l) \in Collectors({a}) /\ Caught(x, l) \in Collectors({a})
<1>1. /\ l.textBuf \in Texts({a}) /\ l.textId \in Ids
      /\ l.reasoningBuf \in Texts({a}) /\ l.reasoningId \in Ids /\ l.step \in Nat
  BY BuffersAre
<1>2. ASSUME NEW y \in Collectors({a})
      PROVE  CaughtReasoning(y, l) \in Collectors({a}) /\ CaughtText(y, l) \in Collectors({a})
  <2>1. CollectReasoning(y, l.reasoningBuf, l.reasoningId, l.step) \in Collectors({a})
    BY <1>1, ReasoningOf
  <2>2. CollectText(y, l.textBuf, l.textId, l.step) \in Collectors({a})
    BY <1>1, TextOf
  <2> QED BY <2>1, <2>2 DEF CaughtReasoning, CaughtText
<1>3. CaughtText(CaughtReasoning(x, l), l) \in Collectors({a})
  BY <1>2
<1> QED BY <1>2, <1>3 DEF Caught

(* The turn has collected c, and the log follows it.                       *)
Follows(s, l, c) ==
    OneBuffer(l) /\ Mirrors(Caught(Behind(s, l).coll, l), c, l.step)

(* Fields that decide what is rebuilt.                                     *)
SameQueue(l, k) ==
    /\ k.chain = l.chain /\ k.textBuf = l.textBuf /\ k.textId = l.textId
    /\ k.reasoningBuf = l.reasoningBuf /\ k.reasoningId = l.reasoningId /\ k.step = l.step

LEMMA FollowsSame ==
    ASSUME NEW s, NEW l, NEW k, NEW c, SameQueue(l, k), Follows(s, l, c)
    PROVE  Follows(s, k, c) /\ Behind(s, k) = Behind(s, l)
  BY DEF SameQueue, Follows, OneBuffer, Caught, CaughtText, CaughtReasoning, Behind

(* A drained buffer.                                                       *)
LEMMA FlushTextFollows ==
    ASSUME NEW a, NEW s \in Windows(a), NEW l \in Locals(a), NEW c, Follows(s, l, c)
    PROVE  /\ Follows(s, FlushText(l), c)
           /\ SameCalls(Behind(s, l), Behind(s, FlushText(l)))
<1>1. CASE l.textBuf = <<>>
  <2>1. FlushText(l) = l
    BY <1>1 DEF FlushText
  <2> QED BY <2>1 DEF SameCalls
<1>2. CASE l.textBuf # <<>>
  <2> DEFINE k == FlushText(l)
             r == Behind(s, l)
             q == Behind(s, k)
             e == Delta("model.delta", l.textBuf, l.textId, l.step)
  <2>1. l.reasoningBuf = <<>>
    BY <1>2 DEF Follows, OneBuffer
  <2>2. k.chain = Append(l.chain, e) /\ k.textBuf = <<>>
    BY <1>2, FlushTextIs DEF FlushText, Enqueue, Locals
  <2>3. k.reasoningBuf = l.reasoningBuf /\ k.step = l.step
    BY FlushIs DEF SameButBuffers
  <2>4. e \in StreamEvents({a})
    BY LocalFields, StreamEventsAre
  <2>5. r \in Rebuilders({a})
    BY BehindType
  <2> HIDE DEF k, r
  <2>6. q = ApplyEvent(r, e)
    BY <2>2, <2>4, BehindEnqueued DEF r
  <2>7. q.coll = CollectText(r.coll, l.textBuf, l.textId, l.step) /\ SameCalls(r, q)
    BY <2>5, <2>6, TextApplied
  <2> HIDE DEF q
  <2>8. Caught(q.coll, k) = q.coll
    BY <2>1, <2>2, <2>3 DEF Caught, CaughtText, CaughtReasoning
  <2>9. Caught(r.coll, l) = q.coll
    BY <1>2, <2>1, <2>7 DEF Caught, CaughtText, CaughtReasoning
  <2>10. Mirrors(q.coll, c, l.step)
    BY <2>9 DEF Follows, r
  <2>11. Follows(s, k, c)
    BY <2>2, <2>3, <2>8, <2>10 DEF Follows, OneBuffer, q
  <2> QED BY <2>7, <2>11 DEF q, r, k
<1> QED BY <1>1, <1>2

LEMMA FlushReasoningFollows ==
    ASSUME NEW a, NEW s \in Windows(a), NEW l \in Locals(a), NEW c, Follows(s, l, c)
    PROVE  /\ Follows(s, FlushReasoning(l), c)
           /\ SameCalls(Behind(s, l), Behind(s, FlushReasoning(l)))
<1>1. CASE l.reasoningBuf = <<>>
  <2>1. FlushReasoning(l) = l
    BY <1>1 DEF FlushReasoning
  <2> QED BY <2>1 DEF SameCalls
<1>2. CASE l.reasoningBuf # <<>>
  <2> DEFINE k == FlushReasoning(l)
             r == Behind(s, l)
             q == Behind(s, k)
             e == Delta("reasoning.delta", l.reasoningBuf, l.reasoningId, l.step)
  <2>1. l.textBuf = <<>>
    BY <1>2 DEF Follows, OneBuffer
  <2>2. k.chain = Append(l.chain, e) /\ k.reasoningBuf = <<>>
    BY <1>2, FlushReasoningIs DEF FlushReasoning, Enqueue, Locals
  <2>3. k.textBuf = l.textBuf /\ k.step = l.step
    BY FlushIs DEF SameButBuffers
  <2>4. e \in StreamEvents({a})
    BY LocalFields, StreamEventsAre
  <2>5. r \in Rebuilders({a})
    BY BehindType
  <2> HIDE DEF k, r
  <2>6. q = ApplyEvent(r, e)
    BY <2>2, <2>4, BehindEnqueued DEF r
  <2>7. q.coll = CollectReasoning(r.coll, l.reasoningBuf, l.reasoningId, l.step) /\ SameCalls(r, q)
    BY <1>2, <2>5, <2>6, ReasoningApplied
  <2> HIDE DEF q
  <2>8. Caught(q.coll, k) = q.coll
    BY <2>1, <2>2, <2>3 DEF Caught, CaughtText, CaughtReasoning
  <2>9. Caught(r.coll, l) = q.coll
    BY <1>2, <2>1, <2>7 DEF Caught, CaughtText, CaughtReasoning
  <2>10. Mirrors(q.coll, c, l.step)
    BY <2>9 DEF Follows, r
  <2>11. Follows(s, k, c)
    BY <2>2, <2>3, <2>8, <2>10 DEF Follows, OneBuffer, q
  <2> QED BY <2>7, <2>11 DEF q, r, k
<1> QED BY <1>1, <1>2


LEMMA FlushFollows ==
    ASSUME NEW a, NEW s \in Windows(a), NEW l \in Locals(a), NEW c, Follows(s, l, c)
    PROVE  /\ Follows(s, Flush(l), c)
           /\ SameCalls(Behind(s, l), Behind(s, Flush(l)))
<1> DEFINE m == FlushReasoning(l)
<1>1. m \in Locals(a)
  BY FlushReasoningIs
<1>2. Follows(s, m, c) /\ SameCalls(Behind(s, l), Behind(s, m))
  BY FlushReasoningFollows
<1> HIDE DEF m
<1>3. Follows(s, FlushText(m), c) /\ SameCalls(Behind(s, m), Behind(s, FlushText(m)))
  BY <1>1, <1>2, FlushTextFollows
<1> QED BY <1>2, <1>3 DEF Flush, m, SameCalls

(* A delivery drained, and an id adopted, ahead of what it adds.           *)
Moves(a, s, l, k, c) ==
    /\ k \in Locals(a) /\ Follows(s, k, c) /\ SameCalls(Behind(s, l), Behind(s, k))
    /\ k.coll = l.coll /\ k.calls = l.calls /\ k.step = l.step /\ k.tokens = l.tokens

LEMMA MovesTwice ==
    ASSUME NEW a, NEW s, NEW l, NEW m, NEW k, NEW c, Moves(a, s, l, m, c), Moves(a, s, m, k, c)
    PROVE  Moves(a, s, l, k, c)
  BY DEF Moves, SameCalls

LEMMA FlushMoves ==
    ASSUME NEW a, NEW s \in Windows(a), NEW l \in Locals(a), NEW c, Follows(s, l, c)
    PROVE  /\ Moves(a, s, l, FlushText(l), c) /\ Moves(a, s, l, FlushReasoning(l), c)
           /\ Moves(a, s, l, Flush(l), c)
<1>1. FlushText(l) \in Locals(a) /\ FlushReasoning(l) \in Locals(a) /\ Flush(l) \in Locals(a)
  BY FlushIs, FlushTextIs
<1>2. SameButBuffers(l, FlushText(l)) /\ SameButBuffers(l, FlushReasoning(l))
      /\ SameButBuffers(l, Flush(l))
  BY FlushIs
<1>3. /\ Follows(s, FlushText(l), c) /\ SameCalls(Behind(s, l), Behind(s, FlushText(l)))
      /\ Follows(s, FlushReasoning(l), c) /\ SameCalls(Behind(s, l), Behind(s, FlushReasoning(l)))
      /\ Follows(s, Flush(l), c) /\ SameCalls(Behind(s, l), Behind(s, Flush(l)))
  BY FlushTextFollows, FlushReasoningFollows, FlushFollows
<1> QED BY <1>1, <1>2, <1>3 DEF Moves, SameButBuffers

(* The id of an empty buffer is free.                                      *)
LEMMA TextIdMoves ==
    ASSUME NEW a, NEW s \in Windows(a), NEW l \in Locals(a), NEW c, Follows(s, l, c),
           NEW id \in Ids, l.textBuf = <<>>, NEW k, k = [l EXCEPT !.textId = id]
    PROVE  /\ Moves(a, s, l, k, c) /\ k.textId = id /\ k.textBuf = <<>>
           /\ k.reasoningBuf = l.reasoningBuf /\ k.reasoningId = l.reasoningId
<1>1. k \in Locals(a)
  BY LocalUpdates
<1>2. /\ k.chain = l.chain /\ k.textBuf = l.textBuf /\ k.reasoningBuf = l.reasoningBuf
      /\ k.reasoningId = l.reasoningId /\ k.step = l.step /\ k.coll = l.coll
      /\ k.calls = l.calls /\ k.textId = id /\ k.tokens = l.tokens
  BY DEF Locals
<1>3. Follows(s, k, c) /\ Behind(s, k) = Behind(s, l)
  BY ONLY <1>2, Follows(s, l, c), l.textBuf = <<>>
  DEF Follows, OneBuffer, Caught, CaughtText, CaughtReasoning, Behind
<1> QED BY ONLY <1>1, <1>2, <1>3, l.textBuf = <<>> DEF Moves, SameCalls

LEMMA ReasoningIdMoves ==
    ASSUME NEW a, NEW s \in Windows(a), NEW l \in Locals(a), NEW c, Follows(s, l, c),
           NEW id \in Ids, l.reasoningBuf = <<>>, NEW k, k = [l EXCEPT !.reasoningId = id]
    PROVE  /\ Moves(a, s, l, k, c) /\ k.reasoningId = id /\ k.reasoningBuf = <<>>
           /\ k.textBuf = l.textBuf /\ k.textId = l.textId
<1>1. k \in Locals(a)
  BY LocalUpdates
<1>2. /\ k.chain = l.chain /\ k.textBuf = l.textBuf /\ k.reasoningBuf = l.reasoningBuf
      /\ k.textId = l.textId /\ k.step = l.step /\ k.coll = l.coll
      /\ k.calls = l.calls /\ k.reasoningId = id /\ k.tokens = l.tokens
  BY DEF Locals
<1>3. Follows(s, k, c) /\ Behind(s, k) = Behind(s, l)
  BY ONLY <1>2, Follows(s, l, c), l.reasoningBuf = <<>>
  DEF Follows, OneBuffer, Caught, CaughtText, CaughtReasoning, Behind
<1> QED BY ONLY <1>1, <1>2, <1>3, l.reasoningBuf = <<>> DEF Moves, SameCalls

LEMMA AdoptTextMoves ==
    ASSUME NEW a, NEW s \in Windows(a), NEW l \in Locals(a), NEW c, Follows(s, l, c), NEW id \in Ids
    PROVE  /\ Moves(a, s, l, AdoptTextId(l, id), c) /\ AdoptTextId(l, id).textId = id
           /\ AdoptTextId(l, id).reasoningBuf = l.reasoningBuf
<1>1. CASE id = l.textId
  <2>1. AdoptTextId(l, id) = l
    BY <1>1 DEF AdoptTextId
  <2>2. Moves(a, s, l, l, c)
    BY DEF Moves, SameCalls
  <2> QED BY <1>1, <2>1, <2>2
<1>2. CASE id # l.textId
  <2> DEFINE m == FlushText(l)
             k == [m EXCEPT !.textId = id]
  <2>1. Moves(a, s, l, m, c) /\ m.textBuf = <<>> /\ m.reasoningBuf = l.reasoningBuf
    BY FlushMoves, FlushTextIs, FlushIs
  <2>2. AdoptTextId(l, id) = k
    BY <1>2 DEF AdoptTextId
  <2> HIDE DEF m
  <2>3. m \in Locals(a) /\ Follows(s, m, c)
    BY <2>1 DEF Moves
  <2>4. k = [m EXCEPT !.textId = id]
    OBVIOUS
  <2> HIDE DEF k
  <2>5. Moves(a, s, m, k, c) /\ k.textId = id /\ k.reasoningBuf = m.reasoningBuf
    BY <2>1, <2>3, <2>4, TextIdMoves
  <2>6. Moves(a, s, l, k, c)
    BY <2>1, <2>5, MovesTwice
  <2> QED BY <2>1, <2>2, <2>5, <2>6
<1> QED BY <1>1, <1>2

LEMMA AdoptReasoningMoves ==
    ASSUME NEW a, NEW s \in Windows(a), NEW l \in Locals(a), NEW c, Follows(s, l, c), NEW id \in Ids
    PROVE  /\ Moves(a, s, l, AdoptReasoningId(l, id), c)
           /\ AdoptReasoningId(l, id).reasoningId = id
<1>1. CASE id = l.reasoningId
  <2>1. AdoptReasoningId(l, id) = l
    BY <1>1 DEF AdoptReasoningId
  <2>2. Moves(a, s, l, l, c)
    BY DEF Moves, SameCalls
  <2> QED BY <1>1, <2>1, <2>2
<1>2. CASE id # l.reasoningId
  <2> DEFINE m == FlushReasoning(l)
             k == [m EXCEPT !.reasoningId = id]
  <2>1. Moves(a, s, l, m, c) /\ m.reasoningBuf = <<>>
    BY FlushMoves, FlushReasoningIs
  <2>2. AdoptReasoningId(l, id) = k
    BY <1>2 DEF AdoptReasoningId
  <2> HIDE DEF m
  <2>3. m \in Locals(a) /\ Follows(s, m, c)
    BY <2>1 DEF Moves
  <2>4. k = [m EXCEPT !.reasoningId = id]
    OBVIOUS
  <2> HIDE DEF k
  <2>5. Moves(a, s, m, k, c) /\ k.reasoningId = id
    BY <2>1, <2>3, <2>4, ReasoningIdMoves
  <2>6. Moves(a, s, l, k, c)
    BY <2>1, <2>5, MovesTwice
  <2> QED BY <2>2, <2>5, <2>6
<1> QED BY <1>1, <1>2


(* A delivered token goes into the buffer of its kind.                     *)
LEMMA OneMore ==
    ASSUME NEW T, NEW s \in Seq(T), NEW x \in T
    PROVE  /\ <<x>> \in Seq(T) /\ Append(s, x) \in Seq(T) /\ Append(s, x) # <<>>
           /\ Append(s, x) = s \o <<x>> /\ Append(<<>>, x) = <<x>>
<1>1. Append(s, x) \in Seq(T) /\ Append(s, x) # <<>>
  BY AppendedEnds
<1>4. <<x>> \in Seq(T)
  OBVIOUS
<1>2. Append(s, x) = s \o <<x>>
  OBVIOUS
<1>3. Append(<<>>, x) = <<x>>
  OBVIOUS
<1> QED BY <1>1, <1>2, <1>3, <1>4

LEMMA OneMoreToken ==
    ASSUME NEW A, NEW s \in Texts(A), NEW tok \in TokensOf(A)
    PROVE  /\ <<tok>> \in Texts(A) /\ Append(s, tok) \in Texts(A) /\ Append(s, tok) # <<>>
           /\ Joins(s, <<tok>>, Append(s, tok)) /\ Append(<<>>, tok) = <<tok>>
<1>1. s \in Seq(TokensOf(A))
  BY Zenon DEF Texts
<1>2. /\ <<tok>> \in Seq(TokensOf(A)) /\ Append(s, tok) \in Seq(TokensOf(A))
      /\ Append(s, tok) # <<>>
      /\ Append(s, tok) = s \o <<tok>> /\ Append(<<>>, tok) = <<tok>>
  BY <1>1, OneMore, Zenon
<1> QED BY <1>2, Zenon DEF Texts, Joins

LEMMA TextBuffered ==
    ASSUME NEW a, NEW m \in Locals(a), NEW b \in Locals(a), NEW x \in Collectors({a}),
           NEW tok \in TokensOf({a}), b.textBuf = Append(m.textBuf, tok),
           b.textId = m.textId, b.step = m.step
    PROVE  CaughtText(x, b) = CollectText(CaughtText(x, m), <<tok>>, m.textId, m.step)
<1> DEFINE one == <<tok>>
           buf == m.textBuf
           both == Append(buf, tok)
<1>1. buf \in Texts({a}) /\ m.textId \in Ids /\ m.step \in Nat
  BY BuffersAre
<1>2. one \in Texts({a}) /\ both \in Texts({a}) /\ both # <<>> /\ Joins(buf, one, both)
  BY <1>1, OneMoreToken
<1>3. buf = <<>> => both = one
  BY OneMoreToken, <1>1
<1>4. CaughtText(x, b) = CollectText(x, both, m.textId, m.step)
  BY <1>2 DEF CaughtText
<1>5. CASE buf = <<>>
  BY <1>3, <1>4, <1>5 DEF CaughtText
<1>6. CASE buf # <<>>
  <2>1. CaughtText(x, m) = CollectText(x, buf, m.textId, m.step)
    BY <1>6 DEF CaughtText
  <2> HIDE DEF one, buf, both
  <2>2. CollectText(CollectText(x, buf, m.textId, m.step), one, m.textId, m.step)
          = CollectText(x, both, m.textId, m.step)
    BY <1>1, <1>2, TextTwice
  <2> QED BY <1>4, <2>1, <2>2 DEF one
<1> QED BY <1>5, <1>6

LEMMA PushTextFollows ==
    ASSUME NEW a, NEW s \in Windows(a), NEW m \in Locals(a), NEW c \in Collectors({a}),
           Follows(s, m, c), m.reasoningBuf = <<>>, NEW tok \in TokensOf({a}), m.tokens < MaxTokens,
           m.coll = CollectText(c, <<tok>>, m.textId, m.step), NEW k \in PushText(m, tok)
    PROVE  /\ k \in Locals(a) /\ Follows(s, k, k.coll) /\ k.calls = m.calls
           /\ SameCalls(Behind(s, m), Behind(s, k))
<1> DEFINE b == [m EXCEPT !.textBuf = Append(@, tok), !.tokens = @ + 1]
           x == Behind(s, m).coll
           y == CaughtText(x, m)
           one == <<tok>>
<1>1. b \in Locals(a) /\ k \in Locals(a) /\ k.calls = m.calls
  <2>1. b \in PushText(m, tok)
    BY DEF PushText
  <2> HIDE DEF b
  <2>2. Delivers(a, m, b) /\ Delivers(a, m, k)
    BY <2>1, PushDelivers
  <2> QED BY <2>2 DEF Delivers
<1>2. /\ b.chain = m.chain /\ b.textBuf = Append(m.textBuf, tok) /\ b.reasoningBuf = m.reasoningBuf
      /\ b.textId = m.textId /\ b.step = m.step /\ b.coll = m.coll
  BY DEF Locals
<1>3. k = b \/ k = FlushText(b)
  BY DEF PushText
<1>4. x \in Collectors({a}) /\ y \in Collectors({a})
  BY BehindType, CaughtType
<1>5. m.step \in Nat /\ m.textId \in Ids /\ one \in Seq(TokensOf({a}))
  <2>1. m.step \in Nat /\ m.textId \in Ids /\ m.textBuf \in Texts({a})
        /\ m.reasoningId \in Ids
    BY BuffersAre
  <2>2. one \in Texts({a})
    BY <2>1, OneMoreToken
  <2> QED BY <2>1, <2>2, Zenon DEF Texts
<1> HIDE DEF b, x
<1>6. CaughtText(x, b) = CollectText(y, one, m.textId, m.step)
  BY <1>1, <1>2, <1>4, TextBuffered
<1>7. Caught(x, m) = y
  BY DEF Caught, CaughtText, CaughtReasoning
<1>8. Caught(x, b) = CaughtText(x, b)
  BY <1>2 DEF Caught, CaughtText, CaughtReasoning
<1>9. Mirrors(y, c, m.step)
  BY <1>7 DEF Follows, x
<1> HIDE DEF y, one
<1>10. Mirrors(CollectText(y, one, m.textId, m.step), CollectText(c, one, m.textId, m.step), m.step)
  BY <1>4, <1>5, <1>9, MirrorsText
<1>11. Behind(s, b) = Behind(s, m)
  BY <1>2 DEF Behind
<1>12. Follows(s, b, b.coll)
  <2>1. Mirrors(Caught(x, b), b.coll, b.step)
    BY <1>2, <1>6, <1>8, <1>10 DEF one
  <2>2. OneBuffer(b)
    BY <1>2 DEF OneBuffer
  <2> QED BY <2>1, <2>2, <1>11 DEF Follows, x
<1>13. CASE k = b
  BY <1>1, <1>11, <1>12, <1>13 DEF SameCalls
<1>14. CASE k = FlushText(b)
  <2>1. Follows(s, k, b.coll) /\ SameCalls(Behind(s, b), Behind(s, k))
    BY <1>1, <1>12, <1>14, FlushTextFollows
  <2>2. k.coll = b.coll
    BY <1>1, <1>14, FlushIs DEF SameButBuffers
  <2> QED BY <1>1, <1>11, <2>1, <2>2
<1> QED BY <1>3, <1>13, <1>14

LEMMA ReasoningBuffered ==
    ASSUME NEW a, NEW m \in Locals(a), NEW b \in Locals(a), NEW x \in Collectors({a}),
           NEW tok \in TokensOf({a}), b.reasoningBuf = Append(m.reasoningBuf, tok),
           b.reasoningId = m.reasoningId, b.step = m.step
    PROVE  CaughtReasoning(x, b) = CollectReasoning(CaughtReasoning(x, m), <<tok>>, m.reasoningId, m.step)
<1> DEFINE one == <<tok>>
           buf == m.reasoningBuf
           both == Append(buf, tok)
<1>1. buf \in Texts({a}) /\ m.reasoningId \in Ids /\ m.step \in Nat
  BY BuffersAre
<1>2. one \in Texts({a}) /\ both \in Texts({a}) /\ both # <<>> /\ Joins(buf, one, both)
  BY <1>1, OneMoreToken
<1>3. buf = <<>> => both = one
  BY OneMoreToken, <1>1
<1>4. CaughtReasoning(x, b) = CollectReasoning(x, both, m.reasoningId, m.step)
  BY <1>2 DEF CaughtReasoning
<1>5. CASE buf = <<>>
  BY <1>3, <1>4, <1>5 DEF CaughtReasoning
<1>6. CASE buf # <<>>
  <2>1. CaughtReasoning(x, m) = CollectReasoning(x, buf, m.reasoningId, m.step)
    BY <1>6 DEF CaughtReasoning
  <2> HIDE DEF one, buf, both
  <2>2. CollectReasoning(CollectReasoning(x, buf, m.reasoningId, m.step), one, m.reasoningId, m.step)
          = CollectReasoning(x, both, m.reasoningId, m.step)
    BY <1>1, <1>2, ReasoningTwice
  <2> QED BY <1>4, <2>1, <2>2 DEF one
<1> QED BY <1>5, <1>6

LEMMA PushReasoningFollows ==
    ASSUME NEW a, NEW s \in Windows(a), NEW m \in Locals(a), NEW c \in Collectors({a}),
           Follows(s, m, c), m.textBuf = <<>>, NEW tok \in TokensOf({a}), m.tokens < MaxTokens,
           m.coll = CollectReasoning(c, <<tok>>, m.reasoningId, m.step), NEW k \in PushReasoning(m, tok)
    PROVE  /\ k \in Locals(a) /\ Follows(s, k, k.coll) /\ k.calls = m.calls
           /\ SameCalls(Behind(s, m), Behind(s, k))
<1> DEFINE b == [m EXCEPT !.reasoningBuf = Append(@, tok), !.tokens = @ + 1]
           x == Behind(s, m).coll
           y == CaughtReasoning(x, m)
           one == <<tok>>
<1>1. b \in Locals(a) /\ k \in Locals(a) /\ k.calls = m.calls
  <2>1. b \in PushReasoning(m, tok)
    BY DEF PushReasoning
  <2> HIDE DEF b
  <2>2. Delivers(a, m, b) /\ Delivers(a, m, k)
    BY <2>1, PushDelivers
  <2> QED BY <2>2 DEF Delivers
<1>2. /\ b.chain = m.chain /\ b.reasoningBuf = Append(m.reasoningBuf, tok) /\ b.textBuf = m.textBuf
      /\ b.reasoningId = m.reasoningId /\ b.step = m.step /\ b.coll = m.coll
  BY DEF Locals
<1>3. k = b \/ k = FlushReasoning(b)
  BY DEF PushReasoning
<1>4. x \in Collectors({a}) /\ y \in Collectors({a})
  BY BehindType, CaughtType
<1>5. m.step \in Nat /\ m.reasoningId \in Ids /\ one \in Seq(TokensOf({a}))
  <2>1. m.step \in Nat /\ m.textId \in Ids /\ m.textBuf \in Texts({a})
        /\ m.reasoningId \in Ids
    BY BuffersAre
  <2>2. one \in Texts({a})
    BY <2>1, OneMoreToken
  <2> QED BY <2>1, <2>2, Zenon DEF Texts
<1> HIDE DEF b, x
<1>6. CaughtReasoning(x, b) = CollectReasoning(y, one, m.reasoningId, m.step)
  BY <1>1, <1>2, <1>4, ReasoningBuffered
<1>7. Caught(x, m) = y
  BY DEF Caught, CaughtText, CaughtReasoning
<1>8. Caught(x, b) = CaughtReasoning(x, b)
  BY <1>2 DEF Caught, CaughtText, CaughtReasoning
<1>9. Mirrors(y, c, m.step)
  BY <1>7 DEF Follows, x
<1> HIDE DEF y, one
<1>10. Mirrors(CollectReasoning(y, one, m.reasoningId, m.step), CollectReasoning(c, one, m.reasoningId, m.step), m.step)
  BY <1>4, <1>5, <1>9, MirrorsReasoning
<1>11. Behind(s, b) = Behind(s, m)
  BY <1>2 DEF Behind
<1>12. Follows(s, b, b.coll)
  <2>1. Mirrors(Caught(x, b), b.coll, b.step)
    BY <1>2, <1>6, <1>8, <1>10 DEF one
  <2>2. OneBuffer(b)
    BY <1>2 DEF OneBuffer
  <2> QED BY <2>1, <2>2, <1>11 DEF Follows, x
<1>13. CASE k = b
  BY <1>1, <1>11, <1>12, <1>13 DEF SameCalls
<1>14. CASE k = FlushReasoning(b)
  <2>1. Follows(s, k, b.coll) /\ SameCalls(Behind(s, b), Behind(s, k))
    BY <1>1, <1>12, <1>14, FlushReasoningFollows
  <2>2. k.coll = b.coll
    BY <1>1, <1>14, FlushIs DEF SameButBuffers
  <2> QED BY <1>1, <1>11, <2>1, <2>2
<1> QED BY <1>3, <1>13, <1>14


(* Every open call is open in what the log and the chain rebuild.          *)
Holding(a, s, l) ==
    \A c \in Calls : /\ l.calls[c] # "resolving"
                     /\ l.calls[c] \in OpenStates => <<a, c>> \in Behind(s, l).open
Tracks(a, s, l) == Follows(s, l, l.coll) /\ Holding(a, s, l)

LEMMA HoldingSame ==
    ASSUME NEW a, NEW s, NEW l, NEW k, Holding(a, s, l), k.calls = l.calls,
           SameCalls(Behind(s, l), Behind(s, k))
    PROVE  Holding(a, s, k)
  BY DEF Holding, SameCalls

(* A delivery of text, and one of reasoning.                               *)
LEMMA TextTracks ==
    ASSUME NEW a, NEW s \in Windows(a), NEW l \in Locals(a), Tracks(a, s, l),
           NEW tok \in TokensOf({a}), NEW id \in Ids, l.tokens < MaxTokens,
           NEW m, m = [l EXCEPT !.coll = CollectText(l.coll, <<tok>>, id, l.step)],
           NEW q, q = [FlushReasoning(m) EXCEPT !.reasoningId = None],
           NEW k \in PushText(AdoptTextId(q, id), tok)
    PROVE  Tracks(a, s, k)
<1> DEFINE c == l.coll
           d == CollectText(c, <<tok>>, id, l.step)
           r == FlushReasoning(m)
           p == AdoptTextId(q, id)
<1>1. c \in Collectors({a}) /\ l.step \in Nat /\ l.textBuf \in Texts({a}) /\ None \in Ids
  BY BuffersAre DEF Ids
<1>2. d \in Collectors({a})
  <2>1. <<tok>> \in Texts({a})
    BY <1>1, OneMoreToken
  <2> QED BY <1>1, <2>1, TextOf
<1>3. m \in Locals(a)
  BY <1>2, LocalUpdates
<1>4. SameQueue(l, m) /\ m.coll = d /\ m.calls = l.calls /\ m.step = l.step /\ m.tokens = l.tokens
  BY DEF SameQueue, Locals
<1> HIDE DEF c, d
<1>5. Follows(s, m, c) /\ Behind(s, m) = Behind(s, l)
  <2>1. Follows(s, l, c)
    BY DEF Tracks, c
  <2> QED BY <1>4, <2>1, FollowsSame
<1>6. Moves(a, s, m, r, c) /\ r.reasoningBuf = <<>>
  BY <1>3, <1>5, FlushMoves, FlushReasoningIs
<1>7. r \in Locals(a) /\ Follows(s, r, c)
  BY <1>6 DEF Moves
<1>8. Moves(a, s, r, q, c) /\ q.reasoningBuf = <<>>
  BY <1>1, <1>6, <1>7, ReasoningIdMoves
<1>9. q \in Locals(a) /\ Follows(s, q, c)
  BY <1>8 DEF Moves
<1>10. Moves(a, s, q, p, c) /\ p.textId = id /\ p.reasoningBuf = <<>>
  BY ONLY <1>8, <1>9, AdoptTextMoves, id \in Ids
<1> HIDE DEF r, p
<1>11. Moves(a, s, m, p, c)
  BY <1>6, <1>8, <1>10, MovesTwice
<1>12. /\ p \in Locals(a) /\ Follows(s, p, c) /\ p.coll = d /\ p.step = l.step
       /\ p.tokens = l.tokens /\ p.calls = l.calls
       /\ SameCalls(Behind(s, l), Behind(s, p))
  BY <1>4, <1>5, <1>11 DEF Moves
<1>13. p.coll = CollectText(c, <<tok>>, p.textId, p.step)
  BY <1>10, <1>12 DEF d
<1>14. k \in PushText(p, tok)
  BY DEF p
<1>15. Follows(s, k, k.coll) /\ k.calls = p.calls /\ SameCalls(Behind(s, p), Behind(s, k))
  BY <1>1, <1>10, <1>12, <1>13, <1>14, PushTextFollows
<1>16. Holding(a, s, l)
  BY DEF Tracks
<1>17. Holding(a, s, p)
  BY <1>12, <1>16, HoldingSame
<1>18. Holding(a, s, k)
  BY <1>15, <1>17, HoldingSame
<1> QED BY <1>15, <1>18 DEF Tracks

LEMMA ReasoningTracks ==
    ASSUME NEW a, NEW s \in Windows(a), NEW l \in Locals(a), Tracks(a, s, l),
           NEW tok \in TokensOf({a}), NEW id \in Ids, l.tokens < MaxTokens,
           NEW m, m = [AdoptReasoningId(l, id) EXCEPT
                         !.coll = CollectReasoning(@, <<tok>>, id, l.step)],
           NEW k \in PushReasoning(CrossReasoning(m), tok)
    PROVE  Tracks(a, s, k)
<1> DEFINE c == l.coll
           d == CollectReasoning(c, <<tok>>, id, l.step)
           q == AdoptReasoningId(l, id)
           r == FlushText(m)
           p == [r EXCEPT !.textId = None]
<1>1. c \in Collectors({a}) /\ l.step \in Nat /\ l.textBuf \in Texts({a}) /\ None \in Ids
  BY BuffersAre DEF Ids
<1>2. d \in Collectors({a})
  <2>1. <<tok>> \in Texts({a})
    BY <1>1, OneMoreToken
  <2> QED BY <1>1, <2>1, ReasoningOf
<1>3. Moves(a, s, l, q, c) /\ q.reasoningId = id
  <2>1. Follows(s, l, c)
    BY DEF Tracks, c
  <2> QED BY <2>1, AdoptReasoningMoves
<1>4. /\ q \in Locals(a) /\ Follows(s, q, c) /\ q.coll = c /\ q.step = l.step
      /\ q.tokens = l.tokens /\ q.calls = l.calls /\ SameCalls(Behind(s, l), Behind(s, q))
  BY <1>3 DEF Moves
<1>5. m = [q EXCEPT !.coll = d]
  BY <1>4
<1> HIDE DEF c, d, q
<1>6. m \in Locals(a)
  <2>1. \A v \in Collectors({a}) : [q EXCEPT !.coll = v] \in Locals(a)
    BY ONLY <1>4, LocalUpdates
  <2> QED BY ONLY <1>2, <1>5, <2>1, Zenon
<1>7. /\ SameQueue(q, m) /\ m.coll = d /\ m.calls = q.calls /\ m.step = q.step
      /\ m.tokens = q.tokens /\ m.reasoningId = id
  BY <1>3, <1>4, <1>5 DEF SameQueue, Locals
<1>8. Follows(s, m, c) /\ Behind(s, m) = Behind(s, q)
  BY <1>4, <1>7, FollowsSame
<1>9. Moves(a, s, m, r, c) /\ r.textBuf = <<>> /\ r.reasoningId = id
  <2>1. SameButBuffers(m, r)
    BY <1>6, FlushIs
  <2> QED BY <1>6, <1>7, <1>8, <2>1, FlushMoves, FlushTextIs DEF SameButBuffers
<1>10. r \in Locals(a) /\ Follows(s, r, c)
  BY <1>9 DEF Moves
<1> HIDE DEF r
<1>11. p = [r EXCEPT !.textId = None] /\ p = CrossReasoning(m)
  BY DEF CrossReasoning, r
<1> HIDE DEF p
<1>12. Moves(a, s, r, p, c) /\ p.textBuf = <<>> /\ p.reasoningId = id
  BY <1>1, <1>9, <1>10, <1>11, TextIdMoves
<1>13. Moves(a, s, m, p, c)
  BY <1>9, <1>12, MovesTwice
<1>14. /\ p \in Locals(a) /\ Follows(s, p, c) /\ p.coll = d /\ p.step = l.step
       /\ p.tokens = l.tokens /\ p.calls = l.calls
       /\ SameCalls(Behind(s, l), Behind(s, p))
  BY ONLY <1>4, <1>7, <1>8, <1>13 DEF Moves, SameCalls
<1>15. p.coll = CollectReasoning(c, <<tok>>, p.reasoningId, p.step)
  BY <1>12, <1>14 DEF d
<1>16. k \in PushReasoning(p, tok)
  BY <1>11
<1>17. Follows(s, k, k.coll) /\ k.calls = p.calls /\ SameCalls(Behind(s, p), Behind(s, k))
  BY <1>1, <1>12, <1>14, <1>15, <1>16, PushReasoningFollows
<1>18. Holding(a, s, l)
  BY DEF Tracks
<1>19. Holding(a, s, p)
  BY <1>14, <1>18, HoldingSame
<1>20. Holding(a, s, k)
  BY <1>17, <1>19, HoldingSame
<1> QED BY <1>17, <1>20 DEF Tracks


LEMMA FlushTracks ==
    ASSUME NEW a, NEW s \in Windows(a), NEW l \in Locals(a), Tracks(a, s, l)
    PROVE  /\ Tracks(a, s, Flush(l)) /\ Tracks(a, s, FlushText(l))
           /\ Tracks(a, s, FlushReasoning(l))
<1>1. Follows(s, l, l.coll) /\ Holding(a, s, l)
  BY DEF Tracks
<1>2. ASSUME NEW k, Moves(a, s, l, k, l.coll)
      PROVE  Tracks(a, s, k)
  <2>1. Follows(s, k, k.coll) /\ k.calls = l.calls /\ SameCalls(Behind(s, l), Behind(s, k))
    BY <1>2 DEF Moves
  <2>2. Holding(a, s, k)
    BY <1>1, <2>1, HoldingSame
  <2> QED BY <2>1, <2>2 DEF Tracks
<1>3. /\ Moves(a, s, l, Flush(l), l.coll) /\ Moves(a, s, l, FlushText(l), l.coll)
      /\ Moves(a, s, l, FlushReasoning(l), l.coll)
  BY <1>1, FlushMoves
<1> QED BY <1>2, <1>3

(* With both buffers drained the log has caught up.                        *)
LEMMA CaughtUp ==
    ASSUME NEW l, l.textBuf = <<>>, l.reasoningBuf = <<>>, NEW x
    PROVE  Caught(x, l) = x
  BY DEF Caught, CaughtText, CaughtReasoning

(* A metadata delivery of a reasoning part.                                *)
LEMMA WithheldTracks ==
    ASSUME NEW a, NEW s \in Windows(a), NEW l \in Locals(a), Tracks(a, s, l), NEW id \in Ids,
           NEW m, m = BeforeWithheld(l, id),
           NEW k, k = [Enqueue(m, Delta("reasoning.delta", <<>>, id, m.step)) EXCEPT
                         !.coll = CollectWithheld(@, id, m.step), !.tokens = @ + 1]
    PROVE  Tracks(a, s, k)
<1> DEFINE e == Delta("reasoning.delta", <<>>, id, m.step)
           x == Behind(s, m).coll
           starts == StartsReasoningPart(l.coll, id)
<1>1. m = IF starts THEN FlushReasoning(FlushText(l)) ELSE FlushReasoning(l)
  BY DEF BeforeWithheld
<1>2. /\ m \in Locals(a) /\ Tracks(a, s, m) /\ m.coll = l.coll /\ m.calls = l.calls
      /\ m.reasoningBuf = <<>> /\ (starts => m.textBuf = <<>>)
  <2>1. CASE ~starts
    <3>1. m = FlushReasoning(l)
      BY <1>1, <2>1
    <3> QED BY ONLY l \in Locals(a), s \in Windows(a), Tracks(a, s, l), <2>1, <3>1, FlushTracks,
                    FlushIs, FlushReasoningIs DEF SameButBuffers
  <2>2. CASE starts
    <3> DEFINE t == FlushText(l)
    <3>1. t \in Locals(a) /\ Tracks(a, s, t) /\ t.coll = l.coll /\ t.calls = l.calls
          /\ t.textBuf = <<>>
      BY FlushTextIs, FlushTracks, FlushIs DEF SameButBuffers
    <3> HIDE DEF t
    <3>2. m = FlushReasoning(t)
      BY <1>1, <2>2 DEF t
    <3>3. FlushReasoning(t) \in Locals(a) /\ Tracks(a, s, FlushReasoning(t))
          /\ SameButBuffers(t, FlushReasoning(t)) /\ FlushReasoning(t).reasoningBuf = <<>>
          /\ FlushReasoning(t).textBuf = <<>>
      BY ONLY s \in Windows(a), <3>1, FlushTracks, FlushIs, FlushReasoningIs
    <3> QED BY ONLY <3>1, <3>2, <3>3 DEF SameButBuffers
  <2> QED BY <2>1, <2>2
<1>3. m.step \in Nat /\ m.coll \in Collectors({a})
  BY <1>2, BuffersAre
<1>4. e \in StreamEvents({a})
  <2>1. <<>> \in Seq(TokensOf({a}))
    OBVIOUS
  <2> QED BY <1>3, <2>1, StreamEventsAre
<1>5. /\ k.chain = Append(m.chain, e) /\ k.coll = CollectWithheld(m.coll, id, m.step)
      /\ k.calls = m.calls /\ k.textBuf = m.textBuf /\ k.textId = m.textId
      /\ k.reasoningBuf = m.reasoningBuf /\ k.step = m.step
  BY <1>2 DEF Enqueue, Locals
<1> HIDE DEF starts
<1>6. x \in Collectors({a}) /\ Behind(s, m) \in Rebuilders({a})
  BY <1>2, BehindType
<1>7. Behind(s, k) = ApplyEvent(Behind(s, m), e)
  BY ONLY s \in Windows(a), <1>2, <1>4, <1>5, BehindEnqueued
<1>8. Behind(s, k).coll = CollectWithheld(x, id, m.step) /\ SameCalls(Behind(s, m), Behind(s, k))
  BY <1>6, <1>7, ReasoningApplied
<1>9. Holding(a, s, k)
  <2>1. Holding(a, s, m)
    BY <1>2 DEF Tracks
  <2> QED BY ONLY <1>5, <1>8, <2>1, HoldingSame
<1>10. Mirrors(Caught(x, m), m.coll, m.step)
  BY <1>2 DEF Tracks, Follows
<1>11. OneBuffer(k)
  BY <1>2, <1>5 DEF OneBuffer
<1>12. CASE starts
  <2>1. Caught(x, m) = x
    BY <1>2, <1>12, CaughtUp
  <2>2. Mirrors(CollectWithheld(x, id, m.step), CollectWithheld(m.coll, id, m.step), m.step)
    BY <1>3, <1>6, <1>10, <2>1, MirrorsWithheld
  <2>3. Caught(Behind(s, k).coll, k) = Behind(s, k).coll
    BY ONLY <1>2, <1>5, <1>12, CaughtUp
  <2>4. Follows(s, k, k.coll)
    BY <1>5, <1>8, <1>11, <2>2, <2>3 DEF Follows
  <2> QED BY <1>9, <2>4 DEF Tracks
<1>13. CASE ~starts
  <2> DEFINE y == CaughtText(x, m)
  <2>1. Caught(x, m) = y
    BY <1>2 DEF Caught, CaughtReasoning
  <2>2. y.reasoningIds = x.reasoningIds
    <3>1. m.textBuf \in Texts({a}) /\ m.textId \in Ids
      BY ONLY <1>2, BuffersAre
    <3>2. CollectText(x, m.textBuf, m.textId, m.step).reasoningIds = x.reasoningIds
      BY ONLY <1>3, <1>6, <3>1, TextOf
    <3> QED BY ONLY <3>2 DEF CaughtText
  <2>3. x.reasoningIds = m.coll.reasoningIds
    BY <1>10, <2>1, <2>2 DEF Mirrors, SameButParts
  <2>4. CollectWithheld(x, id, m.step) = x /\ CollectWithheld(m.coll, id, m.step) = m.coll
    BY <1>2, <1>13, <2>3 DEF CollectWithheld, StartsReasoningPart, starts
  <2>5. Caught(x, k) = Caught(x, m)
    BY <1>2, <1>5 DEF Caught, CaughtText, CaughtReasoning
  <2>6. Mirrors(Caught(x, k), m.coll, m.step)
    BY <1>10, <2>5
  <2>7. Follows(s, k, k.coll)
    BY <1>5, <1>8, <1>11, <2>4, <2>6 DEF Follows
  <2> QED BY <1>9, <2>7 DEF Tracks
<1> QED BY <1>12, <1>13


(* A step starts, with the notice of the cap or a staged item.             *)
LEMMA StepTracks ==
    ASSUME NEW a, NEW s \in Windows(a), NEW l \in Locals(a), Tracks(a, s, l), l.step < MaxSteps,
           NEW k, SameQueue(NewStep(l), k), k.calls = NewStep(l).calls,
           k.coll \in Collectors({a}),
           k.coll = NewStep(l).coll \/ \E p \in ItemParts : Followed(NewStep(l).coll, p, k.coll)
    PROVE  Tracks(a, s, k)
<1> DEFINE m == Flush(l)
           q == NewStep(l)
           x == Behind(s, m).coll
           y == Behind(s, q).coll
           cap == Event("run.step_cap_reached")
<1>1. /\ m \in Locals(a) /\ Tracks(a, s, m) /\ m.textBuf = <<>> /\ m.reasoningBuf = <<>>
  BY FlushTracks, FlushIs
<1>2. q \in Locals(a) /\ StepStarted(a, l, q)
  BY NewStepIs
<1> HIDE DEF m, q, cap
<1>3. /\ q.coll = m.coll /\ q.step = m.step + 1 /\ q.textBuf = <<>> /\ q.reasoningBuf = <<>>
      /\ q.calls = m.calls
      /\ q.chain = Append(m.chain, cap) \/ q.chain = m.chain
  BY ONLY <1>1, <1>2 DEF StepStarted, m, cap
<1>4. x \in Collectors({a}) /\ Behind(s, m) \in Rebuilders({a}) /\ y \in Collectors({a})
      /\ m.step \in Nat /\ m.coll \in Collectors({a})
  BY ONLY s \in Windows(a), <1>1, <1>2, BehindType, BuffersAre
<1>5. /\ SameCalls(Behind(s, m), Behind(s, q))
      /\ y = x \/ y = CollectPart(x, CapNotice)
  <2>1. CASE q.chain = m.chain
    BY ONLY <2>1 DEF Behind, SameCalls
  <2>2. CASE q.chain = Append(m.chain, cap)
    <3>1. cap \in StreamEvents({a})
      BY StreamEventsAre DEF cap
    <3>2. Behind(s, q) = ApplyEvent(Behind(s, m), cap)
      BY ONLY s \in Windows(a), <1>1, <2>2, <3>1, BehindEnqueued
    <3>3. /\ ApplyEvent(Behind(s, m), cap).coll = CollectPart(x, CapNotice)
          /\ SameCalls(Behind(s, m), ApplyEvent(Behind(s, m), cap))
      BY ONLY <1>4, CapApplied DEF cap
    <3> QED BY ONLY <3>2, <3>3
  <2> QED BY <1>3, <2>1, <2>2
<1>6. Mirrors(x, m.coll, m.step)
  <2>1. Mirrors(Caught(x, m), m.coll, m.step)
    BY <1>1 DEF Tracks, Follows
  <2> QED BY ONLY <1>1, <2>1, CaughtUp
<1>7. y = x \/ \E p \in NoticeParts : Followed(x, p, y)
  <2>1. CapNotice \in NoticeParts
    BY DEF CapNotice, NoticeParts
  <2>2. Followed(x, CapNotice, CollectPart(x, CapNotice))
    BY ONLY <1>4, <2>1, CollectPartFollows
  <2> QED BY ONLY <1>5, <2>1, <2>2
<1>8. k.coll = m.coll \/ \E p \in ItemParts : Followed(m.coll, p, k.coll)
  BY ONLY <1>3, k.coll = NewStep(l).coll \/ \E p \in ItemParts : Followed(NewStep(l).coll, p, k.coll)
  DEF q
<1> HIDE DEF x, y
<1>9. Mirrors(y, k.coll, m.step + 1)
  BY ONLY <1>4, <1>6, <1>7, <1>8, k.coll \in Collectors({a}), MirrorsStep
<1>10. /\ k.chain = q.chain /\ k.textBuf = <<>> /\ k.reasoningBuf = <<>> /\ k.step = m.step + 1
       /\ k.calls = m.calls
  BY <1>3 DEF SameQueue, q
<1>11. Behind(s, k) = Behind(s, q)
  BY ONLY <1>10 DEF Behind
<1>12. Follows(s, k, k.coll)
  <2>1. Caught(y, k) = y
    BY ONLY <1>10, CaughtUp
  <2> QED BY ONLY <1>9, <1>10, <1>11, <2>1 DEF Follows, OneBuffer, y
<1>13. Holding(a, s, k)
  <2>1. Holding(a, s, m)
    BY <1>1 DEF Tracks
  <2>2. SameCalls(Behind(s, m), Behind(s, k))
    BY <1>5, <1>11
  <2> QED BY ONLY <1>10, <2>1, <2>2, HoldingSame
<1> QED BY <1>12, <1>13 DEF Tracks


(* An outcome reaches the parts at once and the log through the chain.     *)
LEMMA CaughtSettled ==
    ASSUME NEW a, NEW l \in Locals(a), NEW k, k.textBuf = l.textBuf, k.textId = l.textId,
           k.reasoningBuf = l.reasoningBuf, k.reasoningId = l.reasoningId, k.step = l.step,
           NEW x \in Collectors({a}), NEW call \in CallsOf({a}), NEW result \in Results
    PROVE  Caught(SettleTool(x, call, result), k) = SettleTool(Caught(x, l), call, result)
<1> DEFINE y == CaughtReasoning(x, l)
<1>1. y \in Collectors({a})
  BY CaughtType
<1>2. /\ l.textBuf \in Texts({a}) /\ l.textId \in Ids /\ l.reasoningBuf \in Texts({a})
      /\ l.reasoningId \in Ids /\ l.step \in Nat
  BY BuffersAre
<1>3. l.textBuf \in Seq(TokensOf({a})) /\ l.reasoningBuf \in Seq(TokensOf({a}))
  BY <1>2, Zenon DEF Texts
<1>4. CaughtReasoning(SettleTool(x, call, result), k) = SettleTool(y, call, result)
  <2>1. CollectReasoning(SettleTool(x, call, result), l.reasoningBuf, l.reasoningId, l.step)
          = SettleTool(CollectReasoning(x, l.reasoningBuf, l.reasoningId, l.step), call, result)
    BY <1>2, <1>3, ReasoningSettled
  <2> QED BY <2>1 DEF CaughtReasoning
<1> HIDE DEF y
<1>5. CaughtText(SettleTool(y, call, result), k) = SettleTool(CaughtText(y, l), call, result)
  <2>1. CollectText(SettleTool(y, call, result), l.textBuf, l.textId, l.step)
          = SettleTool(CollectText(y, l.textBuf, l.textId, l.step), call, result)
    BY <1>1, <1>2, <1>3, TextSettled
  <2> QED BY <2>1 DEF CaughtText
<1> QED BY <1>4, <1>5 DEF Caught, y

LEMMA RecordedFollows ==
    ASSUME NEW a, NEW s \in Windows(a), NEW l \in Locals(a), Follows(s, l, l.coll), NEW c \in Calls,
           NEW result \in Results, <<a, c>> \in Behind(s, l).open,
           NEW k, Recorded(a, l, c, result, k)
    PROVE  Follows(s, k, k.coll) /\ Behind(s, k).open = Behind(s, l).open \ {<<a, c>>}
<1> DEFINE call == <<a, c>>
           e == Completed(call, result)
           x == Behind(s, l).coll
<1>1. /\ k.chain = Append(l.chain, e) /\ k.coll = SettleTool(l.coll, call, result)
      /\ k.textBuf = l.textBuf /\ k.textId = l.textId /\ k.reasoningBuf = l.reasoningBuf
      /\ k.reasoningId = l.reasoningId /\ k.step = l.step
  BY DEF Recorded, SameButWork
<1>2. call \in CallsOf({a}) /\ call \in Behind(s, l).open
  BY DEF CallsOf
<1> HIDE DEF call
<1>3. e \in StreamEvents({a})
  BY <1>2, StreamEventsAre
<1>4. /\ Behind(s, l) \in Rebuilders({a}) /\ x \in Collectors({a})
      /\ l.coll \in Collectors({a}) /\ l.step \in Nat
  BY BehindType, BuffersAre
<1>5. Behind(s, k) = ApplyEvent(Behind(s, l), e)
  BY ONLY s \in Windows(a), l \in Locals(a), <1>1, <1>3, BehindEnqueued
<1>6. /\ Behind(s, k).coll = SettleTool(x, call, result)
      /\ Behind(s, k).open = Behind(s, l).open \ {call}
  BY ONLY <1>2, <1>4, <1>5, CompletedApplied
<1> HIDE DEF x
<1>7. Caught(SettleTool(x, call, result), k) = SettleTool(Caught(x, l), call, result)
  BY ONLY <1>1, <1>2, <1>4, l \in Locals(a), result \in Results, CaughtSettled
<1>8. Caught(x, l) \in Collectors({a})
  BY <1>4, CaughtType
<1>9. Mirrors(Caught(x, l), l.coll, l.step) /\ OneBuffer(l)
  BY DEF Follows, x
<1>10. Mirrors(SettleTool(Caught(x, l), call, result), k.coll, k.step)
  <2>1. Mirrors(SettleTool(Caught(x, l), call, result), SettleTool(l.coll, call, result), l.step)
    BY ONLY <1>2, <1>4, <1>8, <1>9, result \in Results, MirrorsSettle
  <2> QED BY ONLY <1>1, <2>1
<1>11. OneBuffer(k)
  BY <1>1, <1>9 DEF OneBuffer
<1> QED BY <1>6, <1>7, <1>10, <1>11 DEF Follows, call

(* A requested call: its place in the parts, and the request in the chain. *)
LEMMA RequestedFollows ==
    ASSUME NEW a, NEW s \in Windows(a), NEW l \in Locals(a), Follows(s, l, l.coll), NEW c \in Calls,
           <<a, c>> \notin Behind(s, l).seen, NEW r, ReservedFrom(a, l, c, r),
           NEW q, SameButWork(r, q), q.coll = r.coll,
           q.chain = Append(r.chain, RequestEvent(a, c, r.step))
    PROVE  Follows(s, q, q.coll) /\ Behind(s, q).open = Behind(s, l).open \cup {<<a, c>>}
<1> DEFINE call == <<a, c>>
           m == Flush(l)
           x == Behind(s, m).coll
           n == l.step
           e == RequestEvent(a, c, n)
<1>1. /\ m \in Locals(a) /\ m.textBuf = <<>> /\ m.reasoningBuf = <<>> /\ m.coll = l.coll
      /\ m.step = n
  BY FlushIs DEF SameButBuffers
<1>2. Follows(s, m, l.coll) /\ SameCalls(Behind(s, l), Behind(s, m))
  BY FlushMoves DEF Moves
<1>3. /\ q.chain = Append(m.chain, e) /\ q.coll = ReserveTool(l.coll, call, n)
      /\ q.textBuf = <<>> /\ q.reasoningBuf = <<>> /\ q.step = n
  <2>1. r.step = n /\ r.chain = m.chain /\ r.textBuf = m.textBuf /\ r.reasoningBuf = m.reasoningBuf
        /\ r.coll = ReserveTool(m.coll, call, n)
    BY DEF ReservedFrom
  <2>2. q.step = r.step /\ q.textBuf = r.textBuf /\ q.reasoningBuf = r.reasoningBuf
    BY DEF SameButWork
  <2> HIDE DEF m, e, n, call
  <2> QED BY <1>1, <2>1, <2>2 DEF e
<1>4. call \in CallsOf({a})
  BY DEF CallsOf
<1>5. e \in StreamEvents({a})
  BY RequestedIs
<1> HIDE DEF m, n
<1>6. /\ Behind(s, m) \in Rebuilders({a}) /\ x \in Collectors({a})
      /\ l.coll \in Collectors({a}) /\ n \in Nat
  BY <1>1, BehindType, BuffersAre DEF n
<1>7. Behind(s, q) = ApplyEvent(Behind(s, m), e)
  BY ONLY s \in Windows(a), <1>1, <1>3, <1>5, BehindEnqueued
<1>8. <<a, c>> \notin Behind(s, m).seen
  BY <1>2 DEF SameCalls
<1>9. /\ Behind(s, q).coll = ReserveTool(x, <<a, c>>, n)
      /\ Behind(s, q).open = Behind(s, m).open \cup {<<a, c>>}
  BY ONLY <1>6, <1>7, <1>8, RequestApplied
<1>10. Mirrors(x, l.coll, n)
  <2>1. Mirrors(Caught(x, m), l.coll, m.step)
    BY <1>2 DEF Follows
  <2> QED BY ONLY <1>1, <2>1, CaughtUp
<1> HIDE DEF x, call
<1>11. Mirrors(ReserveTool(x, call, n), ReserveTool(l.coll, call, n), n)
  BY ONLY <1>4, <1>6, <1>10, MirrorsReserve
<1>12. Caught(ReserveTool(x, call, n), q) = ReserveTool(x, call, n)
  BY ONLY <1>3, CaughtUp
<1>13. Follows(s, q, q.coll)
  BY ONLY <1>3, <1>9, <1>11, <1>12 DEF Follows, OneBuffer, call
<1> QED BY <1>2, <1>9, <1>13 DEF SameCalls


LEMMA HoldingAfter ==
    ASSUME NEW a, NEW s, NEW l, Holding(a, s, l), NEW c \in Calls, NEW k, NEW state,
           \A d \in Calls : k.calls[d] = IF d = c THEN state ELSE l.calls[d],
           state # "resolving",
           \A d \in Calls \ {c} : <<a, d>> \in Behind(s, l).open => <<a, d>> \in Behind(s, k).open,
           state \in OpenStates => <<a, c>> \in Behind(s, k).open
    PROVE  Holding(a, s, k)
<1> SUFFICES ASSUME NEW d \in Calls
             PROVE  /\ k.calls[d] # "resolving"
                    /\ k.calls[d] \in OpenStates => <<a, d>> \in Behind(s, k).open
  BY DEF Holding
<1>1. /\ l.calls[d] # "resolving"
      /\ l.calls[d] \in OpenStates => <<a, d>> \in Behind(s, l).open
  BY DEF Holding
<1> HIDE DEF OpenStates
<1>2. CASE d = c
  BY <1>2
<1>3. CASE d # c
  BY <1>1, <1>3
<1> QED BY <1>2, <1>3

(* The log follows the step that is taken.                                 *)
TracksNext(a, s) == \E k : Set(a, k) /\ Tracks(a, s, k)

(* The result of a call that runs, or its denial.                          *)
LEMMA CompleteTracks ==
    ASSUME NEW a, att[a] \in Locals(a), NEW s \in Windows(a), Tracks(a, s, att[a]),
           NEW c \in Calls, CompleteTool(a, c)
    PROVE  TracksNext(a, s)
<1> DEFINE l == att[a]
           result == IF l.calls[c] = "running" THEN "ok" ELSE "denied"
           k == RecordCompleted(a, l, c, result)
<1>1. l.calls[c] \in OpenStates /\ result \in Results /\ Set(a, k)
  BY DEF CompleteTool, OpenStates, Results
<1>2. Follows(s, l, l.coll) /\ Holding(a, s, l) /\ l \in Locals(a)
  BY DEF Tracks
<1>3. <<a, c>> \in Behind(s, l).open
  BY <1>1, <1>2 DEF Holding
<1> HIDE DEF l, result
<1>4. Recorded(a, l, c, result, k)
  BY ONLY <1>1, <1>2, c \in Calls, RecordCompletedIs
<1> HIDE DEF k
<1>5. Follows(s, k, k.coll) /\ Behind(s, k).open = Behind(s, l).open \ {<<a, c>>}
  BY ONLY <1>1, <1>2, <1>3, <1>4, s \in Windows(a), c \in Calls, RecordedFollows
<1>6. \A d \in Calls : k.calls[d] = IF d = c THEN "settled" ELSE l.calls[d]
  BY <1>4 DEF Recorded
<1>7. \A d \in Calls \ {c} : <<a, d>> \in Behind(s, l).open => <<a, d>> \in Behind(s, k).open
  BY <1>5
<1>8. Holding(a, s, k)
  <2>1. "settled" # "resolving" /\ "settled" \notin OpenStates
    BY DEF OpenStates
  <2> QED BY ONLY <1>2, <1>6, <1>7, <2>1, c \in Calls, HoldingAfter
<1> QED BY <1>1, <1>5, <1>8 DEF TracksNext, Tracks

(* A call that is allowed, denied, or has no tool to run it.               *)
LEMMA CallTracks ==
    ASSUME NEW a, att[a] \in Locals(a), NEW s \in Windows(a), Tracks(a, s, att[a]),
           NEW c \in Calls, NEW kind \in {"allow", "deny", "unavailable"}, CallTool(a, c, kind),
           <<a, c>> \notin Behind(s, att[a]).seen
    PROVE  TracksNext(a, s)
<1> DEFINE l == att[a]
           r == Reserve(a, c)
           q == Requested(a, r, c)
           e == RequestEvent(a, c, r.step)
           start == ToolEvent("tool.started", <<a, c>>)
<1>1. Follows(s, l, l.coll) /\ Holding(a, s, l) /\ l \in Locals(a)
      /\ <<a, c>> \notin Behind(s, l).seen
  BY DEF Tracks
<1>2. r \in Locals(a) /\ ReservedFrom(a, l, c, r)
  BY ReserveIs
<1>3. /\ kind = "allow" => Set(a, Admit(a, r, c, TRUE))
      /\ kind = "deny" => Set(a, Admit(a, r, c, FALSE))
      /\ kind = "unavailable" => Set(a, RecordCompleted(a, q, c, "unavailable"))
  BY DEF CallTool
<1> HIDE DEF l, r
<1>4. r.calls = l.calls
  BY ONLY <1>2 DEF ReservedFrom
<1>5. q \in Locals(a) /\ q = [r EXCEPT !.chain = Append(r.chain, e)]
  BY ONLY <1>2, c \in Calls, RequestedIs
<1>14. q \in Locals(a)
  BY <1>5
<1>6. /\ SameButWork(r, q) /\ q.coll = r.coll /\ q.chain = Append(r.chain, e)
      /\ q.calls = r.calls
  BY ONLY <1>2, <1>5 DEF SameButWork, Locals
<1> HIDE DEF q
<1>7. Follows(s, q, q.coll) /\ Behind(s, q).open = Behind(s, l).open \cup {<<a, c>>}
  <2>1. q.chain = Append(r.chain, RequestEvent(a, c, r.step))
    BY <1>6
  <2> QED BY ONLY <1>1, <1>2, <1>6, <2>1, s \in Windows(a), c \in Calls, RequestedFollows
<1>8. \A d \in Calls : q.calls[d] = l.calls[d]
  BY <1>4, <1>6
<1>9. \A d \in Calls \ {c} : <<a, d>> \in Behind(s, l).open => <<a, d>> \in Behind(s, q).open
  BY <1>7
<1>10. <<a, c>> \in Behind(s, q).open
  BY <1>7
<1>15. Follows(s, q, q.coll)
  BY <1>7
<1>11. CASE kind = "allow"
  <2> DEFINE k == Admit(a, r, c, TRUE)
  <2>1. Admitted(a, r, c, TRUE, k) /\ start \in StreamEvents({a})
    BY ONLY <1>2, c \in Calls, AdmitIs
  <2> HIDE DEF k, e
  <2>2. /\ k.chain = Append(q.chain, start) /\ k.coll = q.coll /\ k.textBuf = q.textBuf
        /\ k.textId = q.textId /\ k.reasoningBuf = q.reasoningBuf
        /\ k.reasoningId = q.reasoningId /\ k.step = q.step
    BY ONLY <1>6, <2>1 DEF Admitted, SameButWork, e, start
  <2>3. \A d \in Calls : k.calls[d] = IF d = c THEN "admitted" ELSE l.calls[d]
    BY ONLY <1>4, <2>1 DEF Admitted
  <2> HIDE DEF start
  <2>4. Behind(s, k) = ApplyEvent(Behind(s, q), start)
    BY ONLY <1>14, <2>1, <2>2, s \in Windows(a), BehindEnqueued
  <2>5. Behind(s, k) = Behind(s, q)
    BY ONLY <2>4, StartApplied DEF start
  <2>6. Follows(s, k, k.coll)
    BY ONLY <1>7, <2>2, <2>5 DEF Follows, OneBuffer, Caught, CaughtText, CaughtReasoning
  <2>7. Holding(a, s, k)
    <3>1. "admitted" # "resolving"
      OBVIOUS
    <3> QED BY ONLY <1>1, <1>9, <1>10, <2>3, <2>5, <3>1, c \in Calls, HoldingAfter
  <2> QED BY <1>3, <1>11, <2>6, <2>7 DEF TracksNext, Tracks, k
<1>12. CASE kind = "deny"
  <2> DEFINE k == Admit(a, r, c, FALSE)
  <2>1. Admitted(a, r, c, FALSE, k)
    BY ONLY <1>2, c \in Calls, AdmitIs
  <2> HIDE DEF k, e
  <2>2. SameQueue(q, k) /\ k.coll = q.coll
    BY ONLY <1>6, <2>1 DEF Admitted, SameButWork, SameQueue, e
  <2>3. \A d \in Calls : k.calls[d] = IF d = c THEN "denied" ELSE l.calls[d]
    BY ONLY <1>4, <2>1 DEF Admitted
  <2>4. Follows(s, k, k.coll) /\ Behind(s, k) = Behind(s, q)
    BY ONLY <1>7, <2>2, FollowsSame
  <2>5. Holding(a, s, k)
    <3>1. "denied" # "resolving"
      OBVIOUS
    <3> QED BY ONLY <1>1, <1>9, <1>10, <2>3, <2>4, <3>1, c \in Calls, HoldingAfter
  <2> QED BY <1>3, <1>12, <2>4, <2>5 DEF TracksNext, Tracks, k
<1>13. CASE kind = "unavailable"
  <2> DEFINE result == "unavailable"
             k == RecordCompleted(a, q, c, result)
  <2>1. result \in Results
    BY DEF Results
  <2> HIDE DEF result, e, start
  <2>2. Recorded(a, q, c, result, k)
    BY ONLY <1>14, <2>1, c \in Calls, RecordCompletedIs
  <2> HIDE DEF k
  <2>3. Follows(s, k, k.coll) /\ Behind(s, k).open = Behind(s, q).open \ {<<a, c>>}
    BY ONLY <1>14, <1>15, <1>10, <2>1, <2>2, s \in Windows(a), c \in Calls, RecordedFollows
  <2>4. \A d \in Calls : k.calls[d] = IF d = c THEN "settled" ELSE l.calls[d]
    BY ONLY <1>8, <2>2 DEF Recorded
  <2>5. \A d \in Calls \ {c} : <<a, d>> \in Behind(s, l).open => <<a, d>> \in Behind(s, k).open
    BY ONLY <1>9, <2>3
  <2>6. Holding(a, s, k)
    <3>1. "settled" # "resolving" /\ "settled" \notin OpenStates
      BY DEF OpenStates
    <3> QED BY ONLY <1>1, <2>4, <2>5, <3>1, c \in Calls, HoldingAfter
  <2> QED BY <1>3, <1>13, <2>3, <2>6 DEF TracksNext, Tracks, k, result
<1> QED BY <1>11, <1>12, <1>13


-----------------------------------------------------------------------------
(* The log follows every step of the turn.                                 *)

LEMMA RequestedConcat ==
    ASSUME NEW T, NEW s \in Seq(T), NEW t \in Seq(T)
    PROVE  RequestedIn(s \o t) \subseteq RequestedIn(s) \cup RequestedIn(t)
<1> SUFFICES ASSUME NEW call \in RequestedIn(s \o t)
             PROVE  call \in RequestedIn(s) \cup RequestedIn(t)
  OBVIOUS
<1>1. PICK i \in DOMAIN (s \o t) : (s \o t)[i].type = "tool.requested" /\ (s \o t)[i].call = call
  BY DEF RequestedIn, Range
<1>2. i \in 1..(Len(s) + Len(t)) /\ (s \o t)[i] = IF i <= Len(s) THEN s[i] ELSE t[i - Len(s)]
  BY <1>1, ConcatIs
<1>3. CASE i <= Len(s)
  <2>1. i \in DOMAIN s /\ s[i] \in Range(s) /\ s[i].type = "tool.requested" /\ s[i].call = call
    BY <1>1, <1>2, <1>3 DEF Range
  <2> QED BY <2>1 DEF RequestedIn
<1>4. CASE ~(i <= Len(s))
  <2> DEFINE j == i - Len(s)
  <2>1. j \in DOMAIN t /\ t[j] \in Range(t) /\ t[j].type = "tool.requested" /\ t[j].call = call
    BY <1>1, <1>2, <1>4 DEF Range
  <2> QED BY <2>1 DEF RequestedIn
<1> QED BY <1>3, <1>4

(* A call the process has not seen is not seen in what it has recorded.    *)
LEMMA UnseenCall ==
    ASSUME NEW a, NEW s \in Windows(a), NEW l \in Locals(a), Booked(a, l), NEW c \in Calls,
           l.calls[c] = "none", <<a, c>> \notin RequestedIn(s)
    PROVE  <<a, c>> \notin Behind(s, l).seen
<1> DEFINE E == Events({a}) \cup Completions
<1>1. s \in Seq(E) /\ l.chain \in Seq(E)
  <2>1. l.chain \in Seq(StreamEvents({a}))
    BY LocalFields
  <2>2. StreamEvents({a}) \subseteq E /\ Events({a}) \subseteq E
    BY DEF Events
  <2>3. Seq(StreamEvents({a})) \subseteq Seq(E) /\ Seq(Events({a})) \subseteq Seq(E)
    BY ONLY <2>2, SeqMonotone
  <2> QED BY <2>1, <2>3 DEF Windows
<1> HIDE DEF E
<1>2. s \o l.chain \in Seq(E)
  BY <1>1, ConcatIs
<1>3. Behind(s, l).seen = RequestedIn(s \o l.chain)
  BY <1>2, RebuildConsistent DEF Behind, E
<1>4. <<a, c>> \notin RequestedIn(l.chain)
  BY DEF Booked, BookedAt
<1>5. RequestedIn(s \o l.chain) \subseteq RequestedIn(s) \cup RequestedIn(l.chain)
  BY <1>1, RequestedConcat
<1> QED BY <1>3, <1>4, <1>5

(* No call is refused before it is requested, and none may yet be.         *)
AnsweredKinds == {"allow", "deny", "unavailable"}

LEMMA StepsTrack ==
    ASSUME NEW a, att[a] \in Locals(a), NEW s \in Windows(a), Tracks(a, s, att[a]),
           OnStepStart(a) \/ StageItem(a) \/ OnTextMetadata(a)
    PROVE  TracksNext(a, s)
<1> DEFINE l == att[a]
           q == NewStep(l)
<1>1. l \in Locals(a) /\ (OnStepStart(a) \/ StageItem(a) => l.step < MaxSteps)
  BY DEF OnStepStart, StageItem
<1>2. OnStepStart(a) \/ StageItem(a) => q \in Locals(a)
  BY <1>1, NewStepIs
<1>3. CASE OnStepStart(a)
  <2>1. Set(a, q)
    BY <1>3 DEF OnStepStart
  <2>2. q.coll \in Collectors({a})
    BY <1>2, <1>3, LocalFields
  <2> HIDE DEF l, q
  <2>3. SameQueue(NewStep(l), q) /\ q.calls = NewStep(l).calls /\ q.coll = NewStep(l).coll
    BY DEF SameQueue, q
  <2>4. Tracks(a, s, l)
    BY DEF l
  <2>5. Tracks(a, s, q)
    BY ONLY <1>1, <1>3, <2>2, <2>3, <2>4, s \in Windows(a), StepTracks
  <2> QED BY <2>1, <2>5 DEF TracksNext
<1>4. CASE StageItem(a)
  <2> DEFINE p == Item(q.step)
             d == CollectPart(q.coll, p)
             k == [q EXCEPT !.coll = d]
  <2>1. Set(a, k)
    BY <1>4 DEF StageItem
  <2>2. q.coll \in Collectors({a}) /\ q.step \in Nat
    BY <1>2, <1>4, LocalFields
  <2>3. Tracks(a, s, l)
    OBVIOUS
  <2> HIDE DEF q
  <2>4. p \in ItemParts
    BY <2>2 DEF Item, ItemParts
  <2> HIDE DEF p, l
  <2>5. d \in Collectors({a}) /\ Followed(q.coll, p, d)
    BY ONLY <2>2, <2>4, CollectPartFollows
  <2> HIDE DEF d
  <2>6. SameQueue(q, k) /\ k.calls = q.calls /\ k.coll = d
    BY <1>2, <1>4 DEF SameQueue, Locals
  <2> HIDE DEF k
  <2>7. /\ SameQueue(NewStep(l), k) /\ k.calls = NewStep(l).calls
        /\ k.coll \in Collectors({a})
        /\ \E i \in ItemParts : Followed(NewStep(l).coll, i, k.coll)
    BY ONLY <2>4, <2>5, <2>6 DEF q
  <2>8. Tracks(a, s, k)
    BY ONLY <1>1, <1>4, <2>3, <2>7, s \in Windows(a), StepTracks
  <2> QED BY <2>1, <2>8 DEF TracksNext
<1>5. CASE OnTextMetadata(a)
  <2>1. Set(a, Flush(l)) /\ Tracks(a, s, Flush(l))
    BY <1>5, FlushTracks DEF OnTextMetadata
  <2> QED BY <2>1 DEF TracksNext
<1> QED BY <1>3, <1>4, <1>5

LEMMA DeliveriesTrack ==
    ASSUME NEW a, att[a] \in Locals(a), NEW s \in Windows(a), Tracks(a, s, att[a]),
           NEW id \in PartIds,
           OnTextDelta(a, id) \/ OnReasoningDelta(a, id) \/ OnReasoningMetadata(a, id)
    PROVE  TracksNext(a, s)
<1> DEFINE l == att[a]
           tok == Token(a)
<1>1. tok \in TokensOf({a}) /\ id \in Ids /\ l \in Locals(a) /\ Tracks(a, s, l)
  BY TokenIs DEF Ids
<1>2. CASE OnTextDelta(a, id)
  <2> DEFINE m == [l EXCEPT !.coll = CollectText(l.coll, <<tok>>, id, l.step)]
             q == [FlushReasoning(m) EXCEPT !.reasoningId = None]
  <2>1. l.tokens < MaxTokens
    BY <1>2 DEF OnTextDelta
  <2>2. PICK k \in PushText(AdoptTextId(q, id), tok) : Set(a, k)
    BY <1>2 DEF OnTextDelta
  <2> HIDE DEF l, tok
  <2>3. m = [l EXCEPT !.coll = CollectText(l.coll, <<tok>>, id, l.step)]
    OBVIOUS
  <2> HIDE DEF m
  <2>4. q = [FlushReasoning(m) EXCEPT !.reasoningId = None]
    OBVIOUS
  <2> HIDE DEF q
  <2>5. Tracks(a, s, k)
    BY ONLY <1>1, <2>1, <2>2, <2>3, <2>4, s \in Windows(a), TextTracks
  <2> QED BY <2>2, <2>5 DEF TracksNext
<1>3. CASE OnReasoningDelta(a, id)
  <2> DEFINE m == [AdoptReasoningId(l, id) EXCEPT
                     !.coll = CollectReasoning(@, <<tok>>, id, l.step)]
  <2>1. l.tokens < MaxTokens
    BY <1>3 DEF OnReasoningDelta
  <2>2. PICK k \in PushReasoning(CrossReasoning(m), tok) : Set(a, k)
    BY <1>3 DEF OnReasoningDelta
  <2> HIDE DEF l, tok
  <2>3. m = [AdoptReasoningId(l, id) EXCEPT
               !.coll = CollectReasoning(@, <<tok>>, id, l.step)]
    OBVIOUS
  <2> HIDE DEF m
  <2>4. Tracks(a, s, k)
    BY ONLY <1>1, <2>1, <2>2, <2>3, s \in Windows(a), ReasoningTracks
  <2> QED BY <2>2, <2>4 DEF TracksNext
<1>4. CASE OnReasoningMetadata(a, id)
  <2> DEFINE m == BeforeWithheld(l, id)
             k == [Enqueue(m, Delta("reasoning.delta", <<>>, id, m.step)) EXCEPT
                     !.coll = CollectWithheld(@, id, m.step), !.tokens = @ + 1]
  <2>1. Set(a, k)
    BY <1>4 DEF OnReasoningMetadata
  <2> HIDE DEF l
  <2>2. m = BeforeWithheld(l, id)
    OBVIOUS
  <2> HIDE DEF m
  <2>3. k = [Enqueue(m, Delta("reasoning.delta", <<>>, id, m.step)) EXCEPT
               !.coll = CollectWithheld(@, id, m.step), !.tokens = @ + 1]
    OBVIOUS
  <2> HIDE DEF k
  <2>4. Tracks(a, s, k)
    BY ONLY <1>1, <2>2, <2>3, s \in Windows(a), WithheldTracks
  <2> QED BY <2>1, <2>4 DEF TracksNext
<1> QED BY <1>2, <1>3, <1>4


(* A turn that streams, whose writes have not failed, is followed.         *)
Mirrored(a) ==
    Streaming(a) /\ ~att[a].failed => Tracks(a, AttemptWindow(log, a), att[a])

LEMMA StreamTracks ==
    ASSUME WellTyped, Undisturbed, Accounted, CallKinds \subseteq AnsweredKinds,
           NEW a \in Attempts, Streaming(a), ~att[a].failed, Mirrored(a), Stream(a)
    PROVE  TracksNext(a, AttemptWindow(log, a))
<1> DEFINE s == AttemptWindow(log, a)
<1>1. att[a] \in Locals(a) /\ Booked(a, att[a]) /\ run.status = "live"
  BY DEF WellTyped, Undisturbed, Calm, Gone, Streaming
<1>2. s \in Windows(a)
  BY <1>1 DEF Undisturbed, Windowed, Windows
<1>3. Tracks(a, s, att[a])
  BY DEF Mirrored
<1>4. Known(a)
  BY <1>1 DEF Accounted
<1>5. \A c \in Calls : att[a].calls[c] = "none" => <<a, c>> \notin RequestedIn(s)
  BY <1>4 DEF Known, Streaming, Working
<1> HIDE DEF s
<1>6. ASSUME NEW id \in PartIds,
             OnTextDelta(a, id) \/ OnReasoningDelta(a, id) \/ OnReasoningMetadata(a, id)
      PROVE  TracksNext(a, s)
  BY <1>1, <1>2, <1>3, <1>6, DeliveriesTrack
<1>7. ASSUME OnStepStart(a) \/ StageItem(a) \/ OnTextMetadata(a)
      PROVE  TracksNext(a, s)
  BY <1>1, <1>2, <1>3, <1>7, StepsTrack
<1>8. ASSUME NEW c \in Calls, NEW kind \in CallKinds, CallTool(a, c, kind)
      PROVE  TracksNext(a, s)
  <2>1. att[a].calls[c] = "none"
    BY <1>8 DEF CallTool
  <2>2. <<a, c>> \notin RequestedIn(s)
    BY <1>5, <2>1
  <2>3. <<a, c>> \notin Behind(s, att[a]).seen
    BY ONLY <1>1, <1>2, <2>1, <2>2, c \in Calls, UnseenCall
  <2>4. kind \in {"allow", "deny", "unavailable"}
    BY DEF AnsweredKinds
  <2> QED BY ONLY <1>1, <1>2, <1>3, <1>8, <2>3, <2>4, c \in Calls, CallTracks
<1>9. ASSUME NEW c \in Calls
      PROVE  ~ResolveCall(a, c)
  <2>1. att[a].calls[c] # "resolving"
    BY <1>3 DEF Tracks, Holding
  <2> QED BY <2>1 DEF ResolveCall
<1>10. ASSUME NEW c \in Calls, CompleteTool(a, c)
       PROVE  TracksNext(a, s)
  BY ONLY <1>1, <1>2, <1>3, <1>10, c \in Calls, CompleteTracks
<1>11. TracksNext(a, s)
  BY <1>6, <1>7, <1>8, <1>9, <1>10 DEF Stream
<1> QED BY <1>11 DEF s

(* The write of an event moves it from the chain into the window.          *)
LEMMA PersistTracks ==
    ASSUME NEW a, NEW s \in Windows(a), NEW l \in Locals(a), Tracks(a, s, l), l.chain # <<>>,
           NEW k, WrittenOff(a, l, l.failed, k), \A c \in Calls : k.calls[c] # "resolving"
    PROVE  Tracks(a, Append(s, Head(l.chain)), k)
<1> DEFINE e == Head(l.chain)
           t == Append(s, e)
<1>1. /\ k.chain = Tail(l.chain) /\ k.coll = l.coll /\ k.textBuf = l.textBuf
      /\ k.reasoningBuf = l.reasoningBuf /\ k.step = l.step
      /\ k.textId = l.textId /\ k.reasoningId = l.reasoningId
      /\ \A c \in Calls : /\ l.calls[c] \in {"none", "settled"} => k.calls[c] = l.calls[c]
                          /\ l.calls[c] \in OpenStates => k.calls[c] \in OpenStates
  BY DEF WrittenOff
<1>2. t \o Tail(l.chain) = s \o l.chain
  <2>1. s \in Seq(Events({a})) /\ l.chain \in Seq(Events({a}))
    <3>1. l.chain \in Seq(StreamEvents({a}))
      BY LocalFields
    <3>2. Seq(StreamEvents({a})) \subseteq Seq(Events({a}))
      <4>1. StreamEvents({a}) \subseteq Events({a})
        BY DEF Events
      <4> QED BY ONLY <4>1, SeqMonotone
    <3> QED BY <3>1, <3>2 DEF Windows
  <2>2. ASSUME NEW T, NEW u \in Seq(T), NEW v \in Seq(T), v # <<>>
        PROVE  Append(u, Head(v)) \o Tail(v) = u \o v
    BY ONLY <2>2
  <2> QED BY ONLY <2>1, <2>2, l.chain # <<>>
<1>3. Behind(t, k) = Behind(s, l)
  BY <1>1, <1>2 DEF Behind
<1>4. Follows(t, k, k.coll)
  BY ONLY <1>1, <1>3, Tracks(a, s, l)
  DEF Tracks, Follows, OneBuffer, Caught, CaughtText, CaughtReasoning
<1>5. Holding(a, t, k)
  <2> SUFFICES ASSUME NEW c \in Calls, k.calls[c] \in OpenStates
               PROVE  <<a, c>> \in Behind(s, l).open
    BY <1>3 DEF Holding
  <2>1. l.calls[c] \in CallState
    BY LocalFields
  <2>2. l.calls[c] \in OpenStates
    BY <1>1, <2>1 DEF CallState, OpenStates
  <2> QED BY <2>2 DEF Tracks, Holding
<1> QED BY <1>4, <1>5 DEF Tracks

(* A dispatch starts with an empty turn and an empty window.               *)
LEMMA DispatchTracks ==
    ASSUME NEW a \in Attempts, NEW e \in Marks, NEW k, k = [FreshAttempt EXCEPT !.phase = "streaming"]
    PROVE  Tracks(a, <<e>>, k)
<1>1. /\ k.chain = <<>> /\ k.textBuf = <<>> /\ k.reasoningBuf = <<>> /\ k.step = 0
      /\ k.coll = EmptyCollector /\ k.calls = [c \in Calls |-> "none"]
  BY DEF FreshAttempt
<1>2. Behind(<<e>>, k) = NothingRebuilt
  <2>1. <<e>> \o k.chain = Append(<<>>, e)
    <3>1. <<e>> \in Seq(Marks) /\ Append(<<>>, e) = <<e>>
      BY OneMore
    <3>2. ASSUME NEW T, NEW u \in Seq(T) PROVE u \o <<>> = u
      OBVIOUS
    <3>3. <<e>> \o <<>> = <<e>>
      BY ONLY <3>1, <3>2
    <3>4. k.chain = <<>>
      BY <1>1
    <3> QED BY ONLY <3>1, <3>3, <3>4
  <2>2. Rebuild(Append(<<>>, e)) = ApplyEvent(Rebuild(<<>>), e)
    <3>1. <<>> \in Seq(Marks)
      OBVIOUS
    <3> QED BY ONLY <3>1, e \in Marks, RebuildAppend
  <2>3. e.type \in {"tool.started", "run.started", "run.terminal", "model.requested"}
    BY DEF Marks
  <2>4. ApplyEvent(NothingRebuilt, e) = NothingRebuilt
    BY ONLY <2>3, ApplyEventIs
  <2> QED BY <2>1, <2>2, <2>4, RebuildNone DEF Behind
<1>3. Mirrors(EmptyCollector, EmptyCollector, 0)
  BY DEF Mirrors, EmptyCollector, SameButParts, Fresh, Upto, NoItems, Range
<1>4. Caught(EmptyCollector, k) = EmptyCollector
  <2>1. k.textBuf = <<>> /\ k.reasoningBuf = <<>>
    BY <1>1
  <2> QED BY ONLY <2>1, CaughtUp
<1>5. Follows(<<e>>, k, k.coll)
  BY ONLY <1>1, <1>2, <1>3, <1>4 DEF Follows, OneBuffer, NothingRebuilt
<1>6. Holding(a, <<e>>, k)
  BY <1>1 DEF Holding, OpenStates
<1> QED BY <1>5, <1>6 DEF Tracks


Mirror == \A a \in Attempts : Mirrored(a)

LEMMA OneMirrored ==
    ASSUME WellTyped, NEW a \in Attempts, \A b \in Attempts \ {a} : Gone(b), NEW k, Set(a, k),
           k.phase = "streaming" /\ ~k.failed => Tracks(a, AttemptWindow(log', a), k)
    PROVE  Mirror'
<1>1. att'[a] = k /\ \A b \in Attempts \ {a} : att'[b] = att[b]
  BY SetIs DEF WellTyped
<1>2. Mirrored(a)'
  BY <1>1 DEF Mirrored, Streaming
<1>3. ASSUME NEW b \in Attempts \ {a}
      PROVE  Mirrored(b)'
  <2>1. att'[b].phase \in {"new", "ended", "dead"}
    BY <1>1 DEF Gone
  <2> QED BY <2>1 DEF Mirrored, Streaming
<1> QED BY <1>2, <1>3 DEF Mirror

(* No other attempt is at work when this one is.                           *)
LEMMA OthersGone ==
    ASSUME WellTyped, Undisturbed, NEW a \in Attempts, ~Gone(a)
    PROVE  \A b \in Attempts \ {a} : Gone(b)
  BY OneAtWork

LEMMA EndLeaves ==
    ASSUME WellTyped, NEW a \in Attempts, End(a), ~Finish(a)
    PROVE  ~Gone(a) /\ \E k : Set(a, k) /\ k.phase # "streaming"
<1> DEFINE l == att[a]
<1>1. l \in Locals(a)
  BY DEF WellTyped
<1>2. ASSUME NEW k \in Locals(a)
      PROVE  /\ [k EXCEPT !.phase = "settling"].phase = "settling"
             /\ \A end : /\ [k EXCEPT !.phase = "aborting", !.end = end].phase = "aborting"
                         /\ [k EXCEPT !.phase = "draining", !.end = end].phase = "draining"
                         /\ [k EXCEPT !.phase = "draining", !.end = end,
                                      !.capped = FALSE].phase = "draining"
  BY DEF Locals
<1>3. CASE \E end \in Ends : OnFinish(a, end)
  <2>1. PICK end \in Ends : OnFinish(a, end)
    BY <1>3
  <2>2. Flush(l) \in Locals(a)
    BY <1>1, FlushIs
  <2> QED BY <1>2, <2>1, <2>2 DEF OnFinish, Streaming, Gone
<1>4. CASE \E end \in {"failed", "cancelled"} : OnError(a, end)
  <2>1. PICK end \in {"failed", "cancelled"} : OnError(a, end)
    BY <1>4
  <2>2. Flush(l) \in Locals(a)
    BY <1>1, FlushIs
  <2> QED BY <1>2, <2>1, <2>2 DEF OnError, Streaming, Gone
<1>5. CASE Drain(a)
  <2> DEFINE m == IF l.failed THEN l ELSE AfterDrain(a, l)
  <2>1. m \in Locals(a)
    BY <1>1, AfterDrainCarries DEF Carries
  <2>2. Set(a, [m EXCEPT !.phase = "settling"]) /\ l.phase = "draining"
    BY <1>5 DEF Drain
  <2> HIDE DEF m
  <2> QED BY <1>2, <2>1, <2>2 DEF Gone
<1>6. CASE Abort(a)
  <2> DEFINE m == SettleOpen(a, l, Calls \ Bash)
  <2>1. m \in Locals(a)
    BY <1>1, SettleOpenCarries DEF Carries
  <2>2. Set(a, [m EXCEPT !.phase = "aborting", !.end = "cancelled"]) /\ l.phase = "streaming"
    BY <1>6 DEF Abort, Streaming
  <2> HIDE DEF m
  <2> QED BY <1>2, <2>1, <2>2 DEF Gone
<1>7. CASE GraceEnds(a)
  <2> DEFINE m == SettleOpen(a, l, Calls)
  <2>1. m \in Locals(a)
    BY <1>1, SettleOpenCarries DEF Carries
  <2>2. Set(a, [m EXCEPT !.phase = "settling"]) /\ l.phase = "aborting"
    BY <1>7 DEF GraceEnds
  <2> HIDE DEF m
  <2> QED BY <1>2, <2>1, <2>2 DEF Gone
<1> QED BY <1>3, <1>4, <1>5, <1>6, <1>7 DEF End, Ends

LEMMA StreamMirrored ==
    ASSUME WellTyped, Undisturbed, Accounted, Mirror, CallKinds \subseteq AnsweredKinds,
           NEW a \in Attempts, Stream(a)
    PROVE  Mirror'
<1>1. att[a] \in Locals(a) /\ Mirrored(a)
  BY DEF WellTyped, Mirror
<1>2. /\ att[a].phase \in {"streaming", "aborting"} /\ log' = log
      /\ \E k : Streams(a, att[a], k) /\ Set(a, k)
  BY <1>1, StreamIs
<1>3. \A b \in Attempts \ {a} : Gone(b)
  BY <1>2, OthersGone DEF Gone
<1>4. CASE Streaming(a) /\ ~att[a].failed
  <2>1. TracksNext(a, AttemptWindow(log, a))
    BY <1>1, <1>4, StreamTracks
  <2>2. PICK k : Set(a, k) /\ Tracks(a, AttemptWindow(log, a), k)
    BY <2>1 DEF TracksNext
  <2>3. Tracks(a, AttemptWindow(log', a), k)
    BY <1>2, <2>2
  <2> QED BY ONLY WellTyped, a \in Attempts, <1>3, <2>2, <2>3, OneMirrored
<1>5. CASE ~(Streaming(a) /\ ~att[a].failed)
  <2>1. PICK k : Streams(a, att[a], k) /\ Set(a, k)
    BY <1>2
  <2>2. ~(k.phase = "streaming" /\ ~k.failed)
    BY <1>5, <2>1 DEF Streams, Streaming
  <2> QED BY ONLY WellTyped, a \in Attempts, <1>3, <2>1, <2>2, OneMirrored
<1> QED BY <1>4, <1>5

LEMMA PersistMirrored ==
    ASSUME WellTyped, Undisturbed, Accounted, Mirror, NEW a \in Attempts,
           Persist(a) \/ PersistFails(a)
    PROVE  Mirror'
<1> DEFINE l == att[a]
           e == Head(l.chain)
           s == AttemptWindow(log, a)
<1>1. l \in Locals(a) /\ l.chain # <<>> /\ Mirrored(a)
  BY DEF WellTyped, Persist, PersistFails, Mirror
<1>2. ~Gone(a) /\ run.status = "live"
  BY <1>1 DEF Undisturbed, Calm
<1>3. \A b \in Attempts \ {a} : Gone(b)
  BY <1>2, OthersGone
<1>4. CASE PersistFails(a)
  <2> DEFINE k == Written(a, [l EXCEPT !.chain = Tail(@), !.failed = TRUE])
  <2>1. Set(a, k)
    BY <1>4 DEF PersistFails
  <2>2. WrittenOff(a, l, TRUE, k)
    BY <1>1, WrittenIs
  <2>3. k.failed = TRUE
    BY <2>2 DEF WrittenOff
  <2> HIDE DEF k
  <2> QED BY <1>3, <2>1, <2>3, OneMirrored
<1>5. CASE Persist(a)
  <2> DEFINE k == Written(a, [l EXCEPT !.chain = Tail(@)])
  <2>1. Set(a, k) /\ log' = Append(log, e)
    BY <1>5 DEF Persist
  <2>2. WrittenOff(a, l, l.failed, k)
    BY <1>1, WrittenIs
  <2>3. \A c \in Calls : k.calls[c] = l.calls[c] \/ k.calls[c] = Resume(l.calls[c], l.failed)
    BY <1>1 DEF Written, Locals
  <2> HIDE DEF k
  <2>4. k.phase = l.phase /\ k.failed = l.failed
    BY <2>2 DEF WrittenOff
  <2>5. ASSUME k.phase = "streaming", ~k.failed
        PROVE  Tracks(a, AttemptWindow(log', a), k)
    <3>1. Tracks(a, s, l)
      BY <1>1, <2>4, <2>5 DEF Mirrored, Streaming
    <3>2. /\ s \in Windows(a) /\ Open(log, a) /\ Agrees(log, a)
          /\ s \in Seq(Events({a}))
      BY <1>2, <2>4, <2>5 DEF Undisturbed, Windowed, Windows, Working, Accounted
    <3>3. log \in Seq(Events(Attempts)) /\ e \in StreamEvents({a})
      <4>1. l.chain \in Seq(StreamEvents({a})) /\ l.chain # <<>>
        BY <1>1, LocalFields
      <4>2. ASSUME NEW T, NEW u \in Seq(T), u # <<>>
            PROVE  Head(u) \in T
        BY <4>2
      <4> QED BY <4>1, <4>2 DEF WellTyped
    <3> HIDE DEF e, s
    <3>4. AttemptWindow(Append(log, e), a) = Append(s, e)
      BY <3>2, <3>3, StreamedAgrees DEF s
    <3>5. \A c \in Calls : k.calls[c] # "resolving"
      <4> SUFFICES ASSUME NEW c \in Calls PROVE k.calls[c] # "resolving"
        OBVIOUS
      <4>1. l.calls[c] # "resolving"
        BY <3>1 DEF Tracks, Holding
      <4>2. Resume(l.calls[c], l.failed) # "resolving"
        BY <4>1 DEF Resume
      <4> QED BY <2>3, <4>1, <4>2
    <3>6. Tracks(a, Append(s, Head(l.chain)), k)
      BY ONLY <1>1, <2>2, <3>1, <3>2, <3>5, PersistTracks
    <3> QED BY <2>1, <3>4, <3>6 DEF e
  <2> QED BY ONLY WellTyped, a \in Attempts, <1>3, <2>1, <2>5, OneMirrored
<1> QED BY <1>4, <1>5

LEMMA DispatchMirrored ==
    ASSUME WellTyped, Undisturbed, NEW a \in Attempts, Dispatch(a)
    PROVE  Mirror'
<1>1. att[a].phase = "claimed" /\ ~Gone(a) /\ att[a] \in Locals(a)
  BY DEF Dispatch, Gone, WellTyped
<1>2. \A b \in Attempts \ {a} : Gone(b)
  BY <1>1, OthersGone
<1>3. run.status = "live" /\ att[a] = [FreshAttempt EXCEPT !.phase = "claimed"]
  BY <1>1 DEF Undisturbed, Calm
<1>4. CASE Set(a, [att[a] EXCEPT !.phase = "ended"])
  <2> DEFINE k == [att[a] EXCEPT !.phase = "ended"]
  <2>1. k.phase # "streaming"
    BY <1>1 DEF Locals
  <2>2. Set(a, k)
    BY <1>4
  <2> HIDE DEF k
  <2> QED BY <1>2, <2>1, <2>2, OneMirrored
<1>5. CASE ~Set(a, [att[a] EXCEPT !.phase = "ended"])
  <2> DEFINE e == [Event("model.requested") EXCEPT !.attempt = a]
             k == [FreshAttempt EXCEPT !.phase = "streaming"]
  <2>1. log' = Append(log, e) /\ Set(a, [att[a] EXCEPT !.phase = "streaming"])
    BY <1>5 DEF Dispatch
  <2>2. [att[a] EXCEPT !.phase = "streaming"] = k
    BY <1>3 DEF FreshAttempt
  <2>3. Set(a, k)
    BY <2>1, <2>2
  <2>4. AttemptWindow(log', a) = <<e>>
    <3>1. log \in Seq(Events(Attempts)) /\ Unrequested(log, a)
      BY <1>1, <1>3 DEF WellTyped, Undisturbed, Windowed
    <3> QED BY <2>1, <3>1, RequestedWindow
  <2>5. e \in Marks
    BY MarksAre, AttemptsAre
  <2> HIDE DEF e
  <2>6. k = [FreshAttempt EXCEPT !.phase = "streaming"]
    OBVIOUS
  <2> HIDE DEF k
  <2>7. Tracks(a, <<e>>, k)
    BY ONLY a \in Attempts, <2>5, <2>6, DispatchTracks
  <2>8. Tracks(a, AttemptWindow(log', a), k)
    BY <2>4, <2>7
  <2> QED BY ONLY WellTyped, a \in Attempts, <1>2, <2>3, <2>8, OneMirrored
<1> QED BY <1>4, <1>5
LEMMA MirrorStep ==
    ASSUME WellTyped, Undisturbed, Accounted, Mirror, ~MayOverlap,
           CallKinds \subseteq AnsweredKinds, [Next]_vars
    PROVE  Mirror'
<1>1. ASSUME NEW a \in Attempts, Claim(a)
      PROVE  Mirror'
  <2> DEFINE k == [att[a] EXCEPT !.phase = "claimed"]
  <2>1. \A b \in Attempts : Gone(b)
    BY <1>1 DEF Claim, Quiet
  <2>2. Set(a, k) /\ att[a] \in Locals(a)
    BY <1>1 DEF Claim, WellTyped
  <2>3. k.phase # "streaming"
    BY <2>2 DEF Locals
  <2> HIDE DEF k
  <2> QED BY <2>1, <2>2, <2>3, OneMirrored
<1>2. ASSUME NEW a \in Attempts, End(a), ~Finish(a)
      PROVE  Mirror'
  <2>1. ~Gone(a) /\ \E k : Set(a, k) /\ k.phase # "streaming"
    BY <1>2, EndLeaves
  <2>2. \A b \in Attempts \ {a} : Gone(b)
    BY <2>1, OthersGone
  <2> QED BY <2>1, <2>2, OneMirrored
<1>3. ASSUME NEW a \in Attempts, Finish(a)
      PROVE  Mirror'
  <2> DEFINE k == [att[a] EXCEPT !.phase = "ended"]
  <2>1. Set(a, k) /\ att[a] \in Locals(a) /\ ~Gone(a)
    BY <1>3 DEF Finish, WellTyped, Gone
  <2>2. k.phase # "streaming"
    BY <2>1 DEF Locals
  <2>3. \A b \in Attempts \ {a} : Gone(b)
    BY <2>1, OthersGone
  <2> HIDE DEF k
  <2> QED BY <2>1, <2>2, <2>3, OneMirrored
<1>4. ASSUME NEW a \in Attempts, Crash(a)
      PROVE  Mirror'
  <2> DEFINE k == [FreshAttempt EXCEPT !.phase = "dead"]
  <2>1. Set(a, k) /\ ~Gone(a)
    BY <1>4 DEF Crash
  <2>2. k.phase # "streaming"
    BY DEF FreshAttempt
  <2>3. \A b \in Attempts \ {a} : Gone(b)
    BY <2>1, OthersGone
  <2> HIDE DEF k
  <2> QED BY <2>1, <2>2, <2>3, OneMirrored
<1>5. ASSUME NEW end \in {"failed", "expired"}, SettleOutside(end)
      PROVE  Mirror'
  <2>1. \A a \in Attempts : att'[a] = att[a] /\ att[a].phase # "streaming"
    BY <1>5 DEF SettleOutside, Quiet, Gone
  <2> QED BY <2>1 DEF Mirror, Mirrored, Streaming
<1>6. CASE UNCHANGED vars
  BY <1>6 DEF vars, Mirror, Mirrored, Streaming
<1>7. ASSUME NEW a \in Attempts, Dispatch(a) \/ Stream(a) \/ Persist(a) \/ PersistFails(a)
      PROVE  Mirror'
  BY <1>7, DispatchMirrored, StreamMirrored, PersistMirrored
<1> QED BY <1>1, <1>2, <1>3, <1>4, <1>5, <1>6, <1>7 DEF Next

LEMMA MirrorInit == Init => Mirror
  BY DEF Init, Mirror, Mirrored, Streaming, FreshAttempt

LEMMA MirrorReplays ==
    ASSUME WellTyped, Undisturbed, Mirror
    PROVE  ReplayMatchesLive
<1> SUFFICES ASSUME NEW a \in Attempts, Streaming(a), ~att[a].failed
             PROVE  Without(RebuiltParts(AttemptWindow(log, a) \o Flush(att[a]).chain), {"notice"})
                      = Without(PartsOf(att[a].coll), {"notice", "item"})
  BY DEF ReplayMatchesLive
<1> DEFINE l == att[a]
           k == Flush(l)
           s == AttemptWindow(log, a)
           x == Behind(s, k).coll
<1>1. l \in Locals(a) /\ run.status = "live"
  BY DEF WellTyped, Undisturbed, Calm, Gone, Streaming
<1>2. s \in Windows(a)
  BY <1>1 DEF Undisturbed, Windowed, Windows
<1>3. Tracks(a, s, l)
  BY DEF Mirror, Mirrored
<1> HIDE DEF l, s
<1>4. k \in Locals(a) /\ k.textBuf = <<>> /\ k.reasoningBuf = <<>> /\ k.coll = l.coll
  BY <1>1, FlushIs DEF SameButBuffers
<1>5. Tracks(a, s, k)
  BY <1>1, <1>2, <1>3, FlushTracks
<1> HIDE DEF k
<1>6. Mirrors(x, k.coll, k.step)
  <2>1. Mirrors(Caught(x, k), k.coll, k.step)
    BY <1>5 DEF Tracks, Follows
  <2> QED BY ONLY <1>4, <2>1, CaughtUp
<1>7. x \in Collectors({a}) /\ k.coll \in Collectors({a})
  BY ONLY <1>2, <1>4, BehindType, BuffersAre
<1>8. Without(PartsOf(x), {"notice"}) = Without(PartsOf(k.coll), {"notice", "item"})
  BY ONLY <1>6, <1>7, MirrorsShown
<1>9. RebuiltParts(s \o k.chain) = PartsOf(x)
  BY DEF RebuiltParts, Behind
<1> QED BY <1>4, <1>8, <1>9 DEF k, l, s

(* Where attempts do not overlap and every call is answered through its    *)
(* request, the log replays what the turn has collected: at every moment   *)
(* of the stream the events written, queued and still buffered rebuild the *)
(* parts the collector holds, whatever was delivered in whatever order.    *)
THEOREM ReplayFollowsTurn ==
    ASSUME ~MayOverlap, CallKinds \subseteq AnsweredKinds
    PROVE  Spec => []ReplayMatchesLive
<1> DEFINE Inv == WellTyped /\ Undisturbed /\ Accounted /\ EveryCallHasOutcome /\ Mirror
<1>1. Init => Inv
  <2>1. Init => EveryCallHasOutcome
    BY DEF Init, EveryCallHasOutcome, Settled
  <2> QED BY <2>1, WellTypedInit, UndisturbedInit, AccountedInit, MirrorInit
<1>2. Inv /\ [Next]_vars => Inv'
  BY WellTypedStep, UndisturbedStep, AccountedStep, MirrorStep
<1>3. Inv => ReplayMatchesLive
  BY MirrorReplays
<1> HIDE DEF Inv
<1> QED BY <1>1, <1>2, <1>3, PTL DEF Spec
=============================================================================
