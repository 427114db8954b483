----------------------------- MODULE ItemProofs -----------------------------
(***************************************************************************)
(* The in-Run items keep their places in every reply, whether the turn     *)
(* stored what it collected or the reply was rebuilt from the log around   *)
(* the items stored on it, for every value of the constants.               *)
(*                                                                         *)
(* The invariant is Seating: steps never fall along the written and the    *)
(* queued events of an attempt, each item a running reply shows cuts the   *)
(* attempt's requests where it cuts its calls, and in what is shown and    *)
(* what is collected the items are Seated.                                 *)
(***************************************************************************)
EXTENDS ReplayProofs

-----------------------------------------------------------------------------
(* Items among the parts of a reply, and the steps of those.               *)

CallParts == {"tool", "pending-tool"}

(* Items sit where ItemsKeepTheirPlace wants them, among open calls too.   *)
Seated(parts) ==
    \A i, j \in DOMAIN parts :
        parts[i].kind = "item" /\ parts[j].kind \notin Aside =>
            /\ parts[j].kind \in CallParts /\ parts[j].step < parts[i].item => j < i
            /\ parts[j].step >= parts[i].item => i < j

(* A part that may come after those.                                       *)
Seats(parts, x) ==
    /\ x.kind = "item" => \A p \in Range(parts) : p.kind \notin Aside => p.step < x.item
    /\ x.kind \in CallParts => \A p \in Range(parts) : p.kind = "item" => p.item <= x.step

(* No part is of a later step.                                             *)
Within(parts, n) ==
    \A p \in Range(parts) : /\ p.kind \notin Aside => p.step <= n
                            /\ p.kind = "item" => p.item <= n

LEMMA PartSteps ==
    ASSUME NEW A, NEW p \in Parts(A)
    PROVE  /\ p.kind \notin Aside => p.step \in Nat
           /\ p.kind = "item" => p.item \in Nat
           /\ p.kind \in CharKinds \cup CallParts \cup Aside
           /\ p.kind \notin Aside <=> p.kind \in CharKinds \cup CallParts
           /\ p.kind \in CallParts => p.call \in CallsOf(A)
  BY DEF Parts, CharParts, PendingParts, ToolParts, NoticeParts, ItemParts, Aside, CharKinds,
         CallParts

LEMMA SeatedAppend ==
    ASSUME NEW A, NEW s \in Seq(Parts(A)), NEW x \in Parts(A)
    PROVE  Seated(Append(s, x)) <=> Seated(s) /\ Seats(s, x)
<1> DEFINE t == Append(s, x)
           n == Len(s)
<1>1. /\ n \in Nat /\ DOMAIN s = 1..n /\ DOMAIN t = 1..(n + 1)
      /\ t[n + 1] = x /\ \A i \in 1..n : t[i] = s[i] /\ s[i] \in Parts(A)
  OBVIOUS
<1>2. \A p : p \in Range(s) <=> \E i \in 1..n : p = s[i]
  BY <1>1 DEF Range
<1>3. \A i \in 1..n : /\ s[i].kind \notin Aside => s[i].step \in Nat
                      /\ s[i].kind = "item" => s[i].item \in Nat
  BY <1>1, PartSteps
<1>4. /\ x.kind \notin Aside => x.step \in Nat
      /\ x.kind = "item" => x.item \in Nat
      /\ x.kind \in CallParts => x.kind \notin Aside
      /\ x.kind = "item" => x.kind \in Aside
  BY PartSteps DEF CallParts, Aside
<1> HIDE DEF t, n
<1>5. ASSUME Seated(t)
      PROVE  Seated(s) /\ Seats(s, x)
  <2>1. Seated(s)
    BY <1>1, <1>5 DEF Seated
  <2>2. ASSUME x.kind = "item", NEW p \in Range(s), p.kind \notin Aside
        PROVE  p.step < x.item
    <3>1. PICK i \in 1..n : p = s[i]
      BY <1>2, <2>2
    <3>2. i \in DOMAIN t /\ n + 1 \in DOMAIN t /\ t[i] = p /\ t[n + 1] = x /\ ~(n + 1 < i)
      BY <1>1, <3>1
    <3>3. ~(p.step >= x.item)
      BY <1>5, <2>2, <3>2 DEF Seated
    <3>4. p.step \in Nat /\ x.item \in Nat
      BY <1>3, <1>4, <2>2, <3>1
    <3> QED BY <3>3, <3>4
  <2>3. ASSUME x.kind \in CallParts, NEW p \in Range(s), p.kind = "item"
        PROVE  p.item <= x.step
    <3>1. PICK i \in 1..n : p = s[i]
      BY <1>2, <2>3
    <3>2. i \in DOMAIN t /\ n + 1 \in DOMAIN t /\ t[i] = p /\ t[n + 1] = x /\ ~(n + 1 < i)
      BY <1>1, <3>1
    <3>3. ~(x.step < p.item)
      BY <1>4, <1>5, <2>3, <3>2 DEF Seated
    <3>4. x.step \in Nat /\ p.item \in Nat
      BY <1>3, <1>4, <2>3, <3>1
    <3> QED BY <3>3, <3>4
  <2> QED BY <2>1, <2>2, <2>3 DEF Seats
<1>6. ASSUME Seated(s), Seats(s, x)
      PROVE  Seated(t)
  <2> SUFFICES ASSUME NEW i \in 1..(n + 1), NEW j \in 1..(n + 1),
                      t[i].kind = "item", t[j].kind \notin Aside
               PROVE  /\ t[j].kind \in CallParts /\ t[j].step < t[i].item => j < i
                      /\ t[j].step >= t[i].item => i < j
    BY <1>1 DEF Seated
  <2>1. CASE i \in 1..n /\ j \in 1..n
    BY <1>1, <1>6, <2>1 DEF Seated
  <2>2. CASE i = n + 1
    <3>1. j \in 1..n
      BY <1>1, <2>2 DEF Aside
    <3>2. t[j] = s[j] /\ t[j] \in Range(s)
      BY <1>1, <1>2, <3>1
    <3>3. t[j].step < x.item
      BY <1>1, <1>6, <2>2, <3>2 DEF Seats
    <3>4. t[j].step \in Nat /\ x.item \in Nat /\ t[i] = x
      BY <1>1, <1>3, <1>4, <2>2, <3>1, <3>2
    <3> QED BY <1>1, <2>2, <3>1, <3>3, <3>4
  <2>3. CASE j = n + 1
    <3>1. i \in 1..n
      BY <1>1, <2>3 DEF Aside
    <3>2. t[i] = s[i] /\ t[i] \in Range(s)
      BY <1>1, <1>2, <3>1
    <3>3. t[j] = x /\ x.step \in Nat /\ t[i].item \in Nat
      BY <1>1, <1>3, <1>4, <2>3, <3>1, <3>2
    <3>4. x.kind \in CallParts => t[i].item <= x.step
      BY <1>6, <3>2 DEF Seats
    <3> QED BY <1>1, <2>3, <3>1, <3>3, <3>4
  <2> QED BY <1>1, <2>1, <2>2, <2>3
<1> QED BY <1>5, <1>6 DEF t

LEMMA SeatedNone == Seated(<<>>)
  BY DEF Seated

(* Parts left out.                                                         *)
LEMMA WithoutSeated ==
    ASSUME NEW A, NEW kinds
    PROVE  \A s \in Seq(Parts(A)) : Seated(s) => Seated(Without(s, kinds))
<1> DEFINE P == Parts(A)
           G == {s \in Seq(P) : Seated(s) => Seated(Without(s, kinds))}
<1>1. <<>> \in G
  BY WithoutNone, SeatedNone
<1>2. ASSUME NEW s \in Seq(P), NEW x \in P, s \in G
      PROVE  Append(s, x) \in G
  <2> DEFINE w == Without(s, kinds)
  <2>1. Append(s, x) \in Seq(P)
    OBVIOUS
  <2>2. w \in Seq(P) /\ Range(w) \subseteq Range(s)
    BY WithoutKeeps
  <2>3. Without(Append(s, x), kinds) = Keep(w, x, kinds)
    BY WithoutAppend
  <2> SUFFICES ASSUME Seated(Append(s, x)) PROVE Seated(Keep(w, x, kinds))
    BY <2>1, <2>3
  <2>4. Seated(s) /\ Seats(s, x)
    BY SeatedAppend
  <2>5. Seated(w)
    BY <1>2, <2>4
  <2> HIDE DEF w
  <2>6. Seats(w, x)
    BY <2>2, <2>4 DEF Seats
  <2>7. Seated(Append(w, x))
    BY <2>2, <2>5, <2>6, SeatedAppend
  <2> QED BY <2>5, <2>7 DEF Keep
<1> HIDE DEF G, P
<1>3. \A s \in Seq(P) : s \in G
  BY ONLY <1>1, <1>2, EverySequence
<1> QED BY <1>3 DEF G, P

(* One part more, of the current step, a notice, or an item of the next.   *)
LEMMA WithinAppend ==
    ASSUME NEW A, NEW s \in Seq(Parts(A)), NEW n, Within(s, n), NEW x \in Parts(A),
           x.kind \notin Aside => x.step <= n, x.kind = "item" => x.item <= n
    PROVE  Within(Append(s, x), n)
<1>1. Range(Append(s, x)) = Range(s) \cup {x}
  BY AppendedRange
<1> QED BY <1>1 DEF Within

LEMMA PartSeated ==
    ASSUME NEW A, NEW s \in Seq(Parts(A)), NEW n \in Nat, Seated(s), Within(s, n), NEW x \in Parts(A)
    PROVE  /\ x.kind \notin Aside /\ x.step = n => /\ Seated(Append(s, x))
                                                  /\ Within(Append(s, x), n)
           /\ x.kind = "notice" => Seated(Append(s, x)) /\ Within(Append(s, x), n)
<1>1. ASSUME x.kind \notin Aside, x.step = n
      PROVE  Seats(s, x)
    BY <1>1 DEF Seats, Within, Aside
<1>2. ASSUME x.kind = "notice"
      PROVE  Seats(s, x)
    BY <1>2 DEF Seats, CallParts
<1>3. "item" \in Aside /\ "notice" \in Aside /\ "notice" # "item" /\ n <= n
  BY DEF Aside
<1> QED BY <1>1, <1>2, <1>3, SeatedAppend, WithinAppend

LEMMA WithinNext ==
    ASSUME NEW A, NEW s \in Seq(Parts(A)), NEW n \in Nat, Within(s, n)
    PROVE  Within(s, n + 1)
<1>1. \A p \in Range(s) : p \in Parts(A)
  BY DEF Range
<1>2. \A p \in Range(s) : /\ p.kind \notin Aside => p.step \in Nat
                          /\ p.kind = "item" => p.item \in Nat
  BY <1>1, PartSteps
<1> QED BY <1>2 DEF Within

LEMMA ItemSeated ==
    ASSUME NEW A, NEW s \in Seq(Parts(A)), NEW n \in Nat, Seated(s), Within(s, n)
    PROVE  /\ Item(n + 1) \in Parts(A) /\ Append(s, Item(n + 1)) \in Seq(Parts(A))
           /\ Seated(Append(s, Item(n + 1))) /\ Within(Append(s, Item(n + 1)), n + 1)
<1> DEFINE x == Item(n + 1)
<1>1. x \in Parts(A) /\ x.kind = "item" /\ x.item = n + 1
  BY DEF Item, Parts, ItemParts
<1>2. x.kind \notin CallParts /\ x.kind \in Aside
  BY <1>1 DEF CallParts, Aside
<1> HIDE DEF x
<1>3. Seats(s, x)
  <2>1. ASSUME NEW p \in Range(s), p.kind \notin Aside PROVE p.step < x.item
    <3>1. p \in Parts(A)
      BY DEF Range
    <3>2. p.step \in Nat /\ p.step <= n
      BY <2>1, <3>1, PartSteps DEF Within
    <3> QED BY <1>1, <3>2
  <2> QED BY <1>2, <2>1 DEF Seats
<1>4. Within(s, n + 1)
  BY WithinNext
<1>5. Within(Append(s, x), n + 1)
  BY <1>1, <1>2, <1>4, WithinAppend
<1>6. Seated(Append(s, x))
  BY <1>1, <1>3, SeatedAppend
<1>7. Append(s, x) \in Seq(Parts(A))
  BY <1>1
<1> QED BY <1>1, <1>5, <1>6, <1>7 DEF x
(* The same parts for what follows: text that grew, a call that settled.    *)
SamePlace(p, q) ==
    /\ p.kind \in Aside \/ q.kind \in Aside => q = p
    /\ p.kind \in CallParts <=> q.kind \in CallParts
    /\ p.kind \notin Aside => q.step = p.step
    /\ p.kind \in CallParts => q.call = p.call
Alike(s, t) == Len(t) = Len(s) /\ \A i \in 1..Len(s) : SamePlace(s[i], t[i])

LEMMA SamePlaceIs ==
    ASSUME NEW p, NEW q, SamePlace(p, q)
    PROVE  /\ p.kind \in Aside <=> q.kind \in Aside
           /\ q.kind = "item" <=> p.kind = "item"
           /\ p.kind = "item" => q.item = p.item
  BY DEF SamePlace, Aside

LEMMA AlikeKeeps ==
    ASSUME NEW A, NEW s \in Seq(Parts(A)), NEW t \in Seq(Parts(A)), Alike(s, t)
    PROVE  /\ Seated(s) => Seated(t)
           /\ \A n : Within(s, n) => Within(t, n)
           /\ \A q \in Range(t) : \E p \in Range(s) : SamePlace(p, q)
<1>1. DOMAIN s = 1..Len(s) /\ DOMAIN t = 1..Len(s) /\ Len(t) = Len(s)
  BY DEF Alike
<1>2. \A i \in 1..Len(s) : /\ SamePlace(s[i], t[i])
                           /\ t[i].kind \in Aside <=> s[i].kind \in Aside
                           /\ t[i].kind = "item" <=> s[i].kind = "item"
                           /\ s[i].kind = "item" => t[i].item = s[i].item
                           /\ t[i].kind \in CallParts <=> s[i].kind \in CallParts
                           /\ s[i].kind \notin Aside => t[i].step = s[i].step
  BY SamePlaceIs DEF Alike, SamePlace
<1>3. Seated(s) => Seated(t)
  BY <1>1, <1>2 DEF Seated
<1>4. \A q \in Range(t) : \E p \in Range(s) : SamePlace(p, q)
  BY <1>1, <1>2 DEF Range
<1>5. ASSUME NEW n, Within(s, n)
      PROVE  Within(t, n)
  BY <1>4, <1>5, SamePlaceIs DEF Within, SamePlace
<1> QED BY <1>3, <1>4, <1>5

LEMMA AlikeSelf ==
    ASSUME NEW A, NEW s \in Seq(Parts(A))
    PROVE  Alike(s, s)
  BY DEF Alike, SamePlace

(* Characters join a part that stays in its place, or start one.           *)
LEMMA JoinedPlaces ==
    ASSUME NEW A, NEW s \in Seq(Parts(A)), NEW kind \in CharKinds, NEW apart,
           NEW toks \in Seq(TokensOf(A)), NEW n \in Nat
    PROVE  LET t == Joined(s, kind, apart, toks, n) IN
           \/ t \in Seq(Parts(A)) /\ Alike(s, t)
           \/ t = Append(s, Chars(kind, toks, n))
<1>1. CASE Joinable(s, kind, n) /\ ~apart
  <2> DEFINE u == Last(s).toks \o toks
             x == Chars(kind, u, n)
             b == Front(s)
             t == Append(b, x)
  <2>1. b \in Seq(Parts(A)) /\ WithChars(s, toks) = t /\ u \in Seq(TokensOf(A))
    BY <1>1, WithCharsJoins
  <2> HIDE DEF u
  <2>2. x \in Parts(A) /\ x.kind = kind /\ x.step = n
    BY <2>1, CharsAre
  <2>3. /\ Len(s) \in Nat \ {0} /\ s[Len(s)].kind = kind /\ s[Len(s)].step = n
        /\ Len(b) = Len(s) - 1 /\ \A i \in 1..(Len(s) - 1) : b[i] = s[i]
    BY <1>1, LastIs DEF Joinable
  <2> HIDE DEF x, b
  <2>4. /\ t \in Seq(Parts(A)) /\ Len(t) = Len(s) /\ t[Len(s)] = x
        /\ \A i \in 1..(Len(s) - 1) : t[i] = s[i]
    BY <2>1, <2>2, <2>3
  <2>5. kind \notin Aside /\ kind \notin CallParts
    BY DEF CharKinds, Aside, CallParts
  <2>6. SamePlace(s[Len(s)], x)
    BY <2>2, <2>3, <2>5 DEF SamePlace
  <2> HIDE DEF t
  <2>7. \A i \in 1..Len(s) : SamePlace(s[i], t[i])
    <3> SUFFICES ASSUME NEW i \in 1..Len(s) PROVE SamePlace(s[i], t[i])
      OBVIOUS
    <3>1. CASE i = Len(s)
      BY <2>4, <2>6, <3>1
    <3>2. CASE i # Len(s)
      <4>1. t[i] = s[i]
        BY <2>3, <2>4, <3>2
      <4> QED BY <4>1 DEF SamePlace
    <3> QED BY <3>1, <3>2
  <2> QED BY <1>1, <2>1, <2>4, <2>7 DEF Alike, Joined
<1>2. CASE ~(Joinable(s, kind, n) /\ ~apart)
  BY <1>2 DEF Joined
<1> QED BY <1>1, <1>2

LEMMA SettledPlaces ==
    ASSUME NEW A, NEW s \in Seq(Parts(A)), NEW call \in CallsOf(A), NEW result \in Results
    PROVE  SettledParts(s, call, result) \in Seq(Parts(A)) /\ Alike(s, SettledParts(s, call, result))
<1> DEFINE t == SettledParts(s, call, result)
<1>1. /\ t \in Seq(Parts(A)) /\ Len(t) = Len(s)
      /\ \A i \in 1..Len(s) : t[i] = SettledPart(s[i], call, result)
  BY SettledPartsAre
<1>2. ASSUME NEW p PROVE SamePlace(p, SettledPart(p, call, result))
  BY DEF SamePlace, SettledPart, Aside, CallParts
<1> QED BY <1>1, <1>2 DEF Alike

-----------------------------------------------------------------------------
(* What a collection of parts becomes at step n: the same places, or one   *)
(* part more, for one of the calls when it is a call's.                    *)

Grows(A, s, t, n, calls) ==
    \/ t \in Seq(Parts(A)) /\ Alike(s, t)
    \/ \E x \in Parts(A) : /\ t = Append(s, x)
                           /\ x.kind \notin Aside /\ x.step = n
                           /\ x.kind \in CallParts => x.call \in calls

LEMMA TextGrows ==
    ASSUME NEW A, NEW c \in Collectors(A), NEW toks \in Texts(A), NEW id \in Ids, NEW n \in Nat
    PROVE  /\ Grows(A, c.parts, CollectText(c, toks, id, n).parts, n, {})
           /\ Grows(A, c.parts, CollectReasoning(c, toks, id, n).parts, n, {})
           /\ Grows(A, c.parts, CollectWithheld(c, id, n).parts, n, {})
<1>1. c.parts \in Seq(Parts(A)) /\ toks \in Seq(TokensOf(A)) /\ <<>> \in Seq(TokensOf(A))
  BY DEF Collectors, Texts
<1>2. ASSUME NEW kind \in CharKinds, NEW u \in Seq(TokensOf(A))
      PROVE  /\ Chars(kind, u, n) \in Parts(A) /\ Chars(kind, u, n).kind \notin Aside
             /\ Chars(kind, u, n).kind \notin CallParts /\ Chars(kind, u, n).step = n
  <2>1. Chars(kind, u, n) \in Parts(A) /\ Chars(kind, u, n).kind = kind /\ Chars(kind, u, n).step = n
    BY <1>2, CharsAre
  <2>2. kind \notin Aside /\ kind \notin CallParts
    BY DEF CharKinds, Aside, CallParts
  <2> QED BY <2>1, <2>2
<1>3. ASSUME NEW kind \in CharKinds, NEW apart
      PROVE  Grows(A, c.parts, Joined(c.parts, kind, apart, toks, n), n, {})
  <2> DEFINE t == Joined(c.parts, kind, apart, toks, n)
  <2>1. \/ t \in Seq(Parts(A)) /\ Alike(c.parts, t)
        \/ t = Append(c.parts, Chars(kind, toks, n))
    BY <1>1, <1>3, JoinedPlaces
  <2> HIDE DEF t
  <2>2. Grows(A, c.parts, t, n, {})
    BY <1>1, <1>2, <2>1 DEF Grows
  <2> QED BY <2>2 DEF t
<1>4. "text" \in CharKinds /\ "reasoning" \in CharKinds
  BY DEF CharKinds
<1>5. Grows(A, c.parts, CollectText(c, toks, id, n).parts, n, {})
  BY <1>3, <1>4, TextOf
<1>6. Grows(A, c.parts, CollectReasoning(c, toks, id, n).parts, n, {})
  BY <1>3, <1>4, ReasoningOf
<1>7. Grows(A, c.parts, CollectWithheld(c, id, n).parts, n, {})
  <2>1. CASE StartsReasoningPart(c, id)
    <3>1. CollectWithheld(c, id, n).parts = Append(c.parts, Chars("reasoning", <<>>, n))
      BY <2>1, WithheldFields
    <3> QED BY <1>1, <1>2, <1>4, <3>1 DEF Grows
  <2>2. CASE ~StartsReasoningPart(c, id)
    BY <1>1, <2>2, AlikeSelf DEF CollectWithheld, Grows
  <2> QED BY <2>1, <2>2
<1> QED BY <1>5, <1>6, <1>7

LEMMA CallGrows ==
    ASSUME NEW A, NEW c \in Collectors(A), NEW call \in CallsOf(A), NEW n \in Nat,
           NEW result \in Results
    PROVE  /\ Grows(A, c.parts, ReserveTool(c, call, n).parts, n, {call})
           /\ SettleTool(c, call, result).parts \in Seq(Parts(A))
           /\ Alike(c.parts, SettleTool(c, call, result).parts)
<1>1. c.parts \in Seq(Parts(A))
  BY DEF Collectors
<1>2. Grows(A, c.parts, ReserveTool(c, call, n).parts, n, {call})
  <2> DEFINE x == Pending(call, n)
  <2>1. x \in Parts(A) /\ ReserveTool(c, call, n).parts = Append(c.parts, x)
    BY ReserveFields
  <2>2. x.kind \notin Aside /\ x.step = n /\ x.call \in {call}
    BY DEF Pending, Aside
  <2> QED BY <2>1, <2>2 DEF Grows
<1>3. CASE call \in c.settled
  BY <1>1, <1>2, <1>3, AlikeSelf DEF SettleTool
<1>4. CASE call \notin c.settled
  BY <1>1, <1>2, <1>4, SettleFields, SettledPlaces
<1> QED BY <1>3, <1>4
-----------------------------------------------------------------------------
(* The steps of the events of a log.                                       *)

Dated(e) == e.type \in {"model.delta", "reasoning.delta", "tool.requested"}
Steady(events) ==
    \A i, j \in DOMAIN events :
        i < j /\ Dated(events[i]) /\ Dated(events[j]) => events[i].step <= events[j].step
DatedWithin(events, n) == \A e \in Range(events) : Dated(e) => e.step <= n

LEMMA SteadyAppend ==
    ASSUME NEW T, NEW s \in Seq(T), NEW e \in T
    PROVE  /\ Steady(Append(s, e)) => Steady(s)
           /\ Steady(s) /\ ~Dated(e) => Steady(Append(s, e))
           /\ Steady(s) /\ DatedWithin(s, e.step) => Steady(Append(s, e))
           /\ Steady(Append(s, e)) /\ Dated(e) => \A f \in Range(s) : Dated(f) => f.step <= e.step
           /\ \A n : DatedWithin(s, n) /\ (Dated(e) => e.step <= n) => DatedWithin(Append(s, e), n)
<1> DEFINE t == Append(s, e)
           n == Len(s)
<1>1. /\ n \in Nat /\ DOMAIN s = 1..n /\ DOMAIN t = 1..(n + 1)
      /\ t[n + 1] = e /\ \A i \in 1..n : t[i] = s[i]
  OBVIOUS
<1>2. /\ \A p : p \in Range(s) <=> \E i \in 1..n : p = s[i]
      /\ Range(t) = Range(s) \cup {e}
  BY <1>1, AppendedRange DEF Range
<1> HIDE DEF t, n
<1>3. Steady(t) => Steady(s)
  BY <1>1 DEF Steady
<1>4. Steady(s) /\ ~Dated(e) => Steady(t)
  BY <1>1 DEF Steady
<1>5. ASSUME Steady(s), DatedWithin(s, e.step)
      PROVE  Steady(t)
  <2> SUFFICES ASSUME NEW i \in 1..(n + 1), NEW j \in 1..(n + 1), i < j, Dated(t[i]), Dated(t[j])
               PROVE  t[i].step <= t[j].step
    BY <1>1 DEF Steady
  <2>1. i \in 1..n /\ t[i] = s[i] /\ t[i] \in Range(s)
    BY <1>1, <1>2
  <2>2. CASE j = n + 1
    BY <1>1, <1>5, <2>1, <2>2 DEF DatedWithin
  <2>3. CASE j # n + 1
    <3>1. j \in 1..n /\ t[j] = s[j]
      BY <1>1, <2>3
    <3> QED BY <1>1, <1>5, <2>1, <3>1 DEF Steady
  <2> QED BY <2>2, <2>3
<1>6. ASSUME Steady(t), Dated(e), NEW f \in Range(s), Dated(f)
      PROVE  f.step <= e.step
  <2>1. PICK i \in 1..n : f = s[i]
    BY <1>2
  <2>2. i \in DOMAIN t /\ n + 1 \in DOMAIN t /\ i < n + 1 /\ t[i] = f /\ t[n + 1] = e
    BY <1>1, <2>1
  <2> QED BY <1>6, <2>2 DEF Steady
<1>7. ASSUME NEW m, DatedWithin(s, m), Dated(e) => e.step <= m
      PROVE  DatedWithin(t, m)
  BY <1>2, <1>7 DEF DatedWithin
<1> QED BY <1>3, <1>4, <1>5, <1>6, <1>7 DEF t

LEMMA SteadyNone == Steady(<<>>) /\ \A n : DatedWithin(<<>>, n)
  BY DEF Steady, DatedWithin, Range

(* The parts of no log step back, and each has its event.                  *)
Rising(parts) ==
    \A i, j \in DOMAIN parts :
        i < j /\ parts[i].kind \notin Aside /\ parts[j].kind \notin Aside =>
            parts[i].step <= parts[j].step

Sources(p, e) ==
    /\ Dated(e) /\ e.step = p.step
    /\ p.kind \in CallParts => e.type = "tool.requested" /\ e.call = p.call
Sourced(parts, events) ==
    \A p \in Range(parts) :
        /\ p.kind # "item"
        /\ p.kind \notin Aside => \E e \in Range(events) : Sources(p, e)

LEMMA RisingAppend ==
    ASSUME NEW A, NEW s \in Seq(Parts(A)), NEW x \in Parts(A)
    PROVE  Rising(Append(s, x)) <=>
             /\ Rising(s)
             /\ x.kind \notin Aside => \A p \in Range(s) : p.kind \notin Aside => p.step <= x.step
<1> DEFINE t == Append(s, x)
           n == Len(s)
<1>1. /\ n \in Nat /\ DOMAIN s = 1..n /\ DOMAIN t = 1..(n + 1)
      /\ t[n + 1] = x /\ \A i \in 1..n : t[i] = s[i]
  OBVIOUS
<1>2. \A p : p \in Range(s) <=> \E i \in 1..n : p = s[i]
  BY <1>1 DEF Range
<1> HIDE DEF t, n
<1>3. ASSUME Rising(t)
      PROVE  /\ Rising(s)
             /\ x.kind \notin Aside => \A p \in Range(s) : p.kind \notin Aside => p.step <= x.step
  <2>1. Rising(s)
    BY <1>1, <1>3 DEF Rising
  <2>2. ASSUME x.kind \notin Aside, NEW p \in Range(s), p.kind \notin Aside
        PROVE  p.step <= x.step
    <3>1. PICK i \in 1..n : p = s[i]
      BY <1>2
    <3>2. i \in DOMAIN t /\ n + 1 \in DOMAIN t /\ i < n + 1 /\ t[i] = p /\ t[n + 1] = x
      BY <1>1, <3>1
    <3> QED BY <1>3, <2>2, <3>2 DEF Rising
  <2> QED BY <2>1, <2>2
<1>4. ASSUME Rising(s),
             x.kind \notin Aside => \A p \in Range(s) : p.kind \notin Aside => p.step <= x.step
      PROVE  Rising(t)
  <2> SUFFICES ASSUME NEW i \in 1..(n + 1), NEW j \in 1..(n + 1), i < j,
                      t[i].kind \notin Aside, t[j].kind \notin Aside
               PROVE  t[i].step <= t[j].step
    BY <1>1 DEF Rising
  <2>1. i \in 1..n /\ t[i] = s[i] /\ t[i] \in Range(s)
    BY <1>1, <1>2
  <2>2. CASE j = n + 1
    BY <1>1, <1>4, <2>1, <2>2
  <2>3. CASE j # n + 1
    <3>1. j \in 1..n /\ t[j] = s[j]
      BY <1>1, <2>3
    <3> QED BY <1>1, <1>4, <2>1, <3>1 DEF Rising
  <2> QED BY <2>2, <2>3
<1> QED BY <1>3, <1>4 DEF t

LEMMA RisingNone == Rising(<<>>) /\ \A events : Sourced(<<>>, events)
  BY DEF Rising, Sourced, Range

LEMMA AlikeRises ==
    ASSUME NEW A, NEW s \in Seq(Parts(A)), NEW t \in Seq(Parts(A)), Alike(s, t)
    PROVE  /\ Rising(s) => Rising(t)
           /\ \A events : Sourced(s, events) => Sourced(t, events)
<1>1. DOMAIN s = 1..Len(s) /\ DOMAIN t = 1..Len(s)
  BY DEF Alike
<1>2. \A i \in 1..Len(s) : /\ t[i].kind \in Aside <=> s[i].kind \in Aside
                           /\ s[i].kind \notin Aside => t[i].step = s[i].step
  BY SamePlaceIs DEF Alike, SamePlace
<1>3. Rising(s) => Rising(t)
  BY <1>1, <1>2 DEF Rising
<1>4. ASSUME NEW events, Sourced(s, events), NEW q \in Range(t)
      PROVE  /\ q.kind # "item"
             /\ q.kind \notin Aside => \E e \in Range(events) : Sources(q, e)
  <2>1. PICK p \in Range(s) : SamePlace(p, q)
    BY AlikeKeeps
  <2>2. q.kind # "item" /\ (q.kind \in Aside <=> p.kind \in Aside)
    BY <1>4, <2>1, SamePlaceIs DEF Sourced
  <2>3. ASSUME q.kind \notin Aside
        PROVE  \E e \in Range(events) : Sources(q, e)
    <3>1. PICK e \in Range(events) : Sources(p, e)
      BY <1>4, <2>2, <2>3 DEF Sourced
    <3>2. Sources(q, e)
      BY <2>1, <2>2, <2>3, <3>1 DEF SamePlace, Sources
    <3> QED BY <3>2
  <2> QED BY <2>2, <2>3
<1> QED BY <1>3, <1>4 DEF Sourced

LEMMA WithoutRising ==
    ASSUME NEW A, NEW kinds
    PROVE  \A s \in Seq(Parts(A)) : Rising(s) => Rising(Without(s, kinds))
<1> DEFINE P == Parts(A)
           G == {s \in Seq(P) : Rising(s) => Rising(Without(s, kinds))}
<1>1. <<>> \in G
  BY WithoutNone, RisingNone
<1>2. ASSUME NEW s \in Seq(P), NEW x \in P, s \in G
      PROVE  Append(s, x) \in G
  <2> DEFINE w == Without(s, kinds)
  <2>1. Append(s, x) \in Seq(P)
    OBVIOUS
  <2>2. w \in Seq(P) /\ Range(w) \subseteq Range(s)
    BY WithoutKeeps
  <2>3. Without(Append(s, x), kinds) = Keep(w, x, kinds)
    BY WithoutAppend
  <2> SUFFICES ASSUME Rising(Append(s, x)) PROVE Rising(Keep(w, x, kinds))
    BY <2>1, <2>3
  <2>4. /\ Rising(s)
        /\ x.kind \notin Aside => \A p \in Range(s) : p.kind \notin Aside => p.step <= x.step
    BY RisingAppend
  <2>5. Rising(w)
    BY <1>2, <2>4
  <2> HIDE DEF w
  <2>6. Rising(Append(w, x))
    BY <2>2, <2>4, <2>5, RisingAppend
  <2> QED BY <2>5, <2>6 DEF Keep
<1> HIDE DEF G, P
<1>3. \A s \in Seq(P) : s \in G
  BY ONLY <1>1, <1>2, EverySequence
<1> QED BY <1>3 DEF G, P
EventCalls(e) == IF e.type = "tool.requested" THEN {e.call} ELSE {}

(* An event of the log gives what is rebuilt a part of its own step, or    *)
(* none but a notice.                                                      *)
LEMMA ApplyGrows ==
    ASSUME NEW A, NEW r \in Rebuilders(A), NEW e \in Events(A) \cup Completions
    PROVE  LET p == r.coll.parts
               q == ApplyEvent(r, e).coll.parts IN
           \/ Dated(e) /\ e.step \in Nat /\ Grows(A, p, q, e.step, EventCalls(e))
           \/ q \in Seq(Parts(A)) /\ Alike(p, q)
           \/ \E x \in NoticeParts : q = Append(p, x)
<1> DEFINE p == r.coll.parts
<1>1. r.coll \in Collectors(A) /\ p \in Seq(Parts(A)) /\ r.open \subseteq CallsOf(A)
  BY DEF Rebuilders, Collectors
<1>2. Alike(p, p)
  BY <1>1, AlikeSelf
<1>3. /\ Dated(e) => e.toks \in Texts(A) /\ e.id \in Ids /\ e.step \in Nat
      /\ e.type = "tool.requested" => e.call \in CallsOf(A)
      /\ e.type = "tool.completed" => e.result \in Results
  BY DEF Dated, Events, StreamEvents, Marks, Completions, Texts, CallTypes
<1>4. e.type \in StreamTypes \cup {"run.started", "run.terminal", "model.requested"}
  BY DEF Events, StreamEvents, Marks, Completions
<1>5. CASE e.type = "model.delta"
  <2>1. ApplyEvent(r, e).coll = CollectText(r.coll, e.toks, e.id, e.step)
    <3>1. ApplyEvent(r, e) = [r EXCEPT !.coll = CollectText(r.coll, e.toks, e.id, e.step)]
      BY <1>5, ApplyEventIs
    <3> QED BY ONLY <3>1, r \in Rebuilders(A) DEF Rebuilders
  <2> QED BY <1>1, <1>3, <1>5, <2>1, TextGrows DEF Dated, EventCalls
<1>6. CASE e.type = "reasoning.delta"
  <2>1. CASE e.toks # <<>>
    <3>1. ApplyEvent(r, e).coll = CollectReasoning(r.coll, e.toks, e.id, e.step)
      <4>1. ApplyEvent(r, e) = [r EXCEPT !.coll = CollectReasoning(r.coll, e.toks, e.id, e.step)]
        BY <1>6, <2>1, ApplyEventIs
      <4> QED BY ONLY <4>1, r \in Rebuilders(A) DEF Rebuilders
    <3> QED BY <1>1, <1>3, <1>6, <3>1, TextGrows DEF Dated, EventCalls
  <2>2. CASE e.toks = <<>>
    <3>1. ApplyEvent(r, e).coll = CollectWithheld(r.coll, e.id, e.step)
      <4>1. ApplyEvent(r, e) = [r EXCEPT !.coll = CollectWithheld(r.coll, e.id, e.step)]
        BY <1>6, <2>2, ApplyEventIs
      <4> QED BY ONLY <4>1, r \in Rebuilders(A) DEF Rebuilders
    <3> QED BY <1>1, <1>3, <1>6, <3>1, TextGrows DEF Dated, EventCalls
  <2> QED BY <2>1, <2>2
<1>7. CASE e.type = "run.step_cap_reached"
  <2>1. ApplyEvent(r, e).coll = CollectPart(r.coll, CapNotice)
    <3>1. ApplyEvent(r, e) = [r EXCEPT !.coll = CollectPart(r.coll, CapNotice)]
      BY <1>7, ApplyEventIs
    <3> QED BY ONLY <3>1, r \in Rebuilders(A) DEF Rebuilders
  <2>2. CapNotice \in NoticeParts
    BY DEF CapNotice, NoticeParts
  <2>3. CollectPart(r.coll, CapNotice).parts = Append(p, CapNotice)
    BY <1>1, <2>2, CollectPartFollows DEF Followed
  <2> QED BY <2>1, <2>2, <2>3
<1>8. CASE e.type = "tool.requested" /\ e.call \notin r.seen
  <2>1. ApplyEvent(r, e).coll = ReserveTool(r.coll, e.call, e.step)
    <3>1. ApplyEvent(r, e) = [r EXCEPT !.coll = ReserveTool(r.coll, e.call, e.step),
                                       !.open = r.open \cup {e.call},
                                       !.seen = r.seen \cup {e.call}]
      BY <1>8, ApplyEventIs
    <3> QED BY ONLY <3>1, r \in Rebuilders(A) DEF Rebuilders
  <2>2. Dated(e) /\ EventCalls(e) = {e.call}
    BY <1>8 DEF Dated, EventCalls
  <2>3. "ok" \in Results
    BY DEF Results
  <2>4. Grows(A, p, ReserveTool(r.coll, e.call, e.step).parts, e.step, {e.call})
    BY <1>1, <1>3, <1>8, <2>2, <2>3, CallGrows
  <2> QED BY <1>3, <2>1, <2>2, <2>4
<1>9. CASE e.type = "tool.completed" /\ e.call \in r.open
  <2>1. ApplyEvent(r, e).coll = SettleTool(r.coll, e.call, e.result)
    <3>1. ApplyEvent(r, e) = [r EXCEPT !.coll = SettleTool(r.coll, e.call, e.result),
                                       !.open = r.open \ {e.call}]
      BY <1>9, ApplyEventIs
    <3> QED BY ONLY <3>1, r \in Rebuilders(A) DEF Rebuilders
  <2>2. e.call \in CallsOf(A) /\ e.result \in Results /\ 0 \in Nat
    BY <1>1, <1>3, <1>9
  <2> QED BY <1>1, <2>1, <2>2, CallGrows
<1>10. CASE \/ e.type = "tool.requested" /\ e.call \in r.seen
            \/ e.type = "tool.completed" /\ e.call \notin r.open
            \/ e.type \in {"tool.started", "run.started", "run.terminal", "model.requested"}
  <2>1. ApplyEvent(r, e) = r
    BY <1>10, ApplyEventIs
  <2> QED BY <1>1, <1>2, <2>1
<1> QED BY <1>4, <1>5, <1>6, <1>7, <1>8, <1>9, <1>10 DEF StreamTypes, CallTypes

LEMMA SourcedMore ==
    ASSUME NEW T, NEW s \in Seq(T), NEW e \in T, NEW parts, Sourced(parts, s)
    PROVE  Sourced(parts, Append(s, e))
<1>1. Range(Append(s, e)) = Range(s) \cup {e}
  BY AppendedRange
<1> QED BY <1>1 DEF Sourced

LEMMA RebuildRises ==
    ASSUME NEW A
    PROVE  \A s \in Seq(Events(A) \cup Completions) :
              /\ Sourced(Rebuild(s).coll.parts, s)
              /\ Steady(s) => Rising(Rebuild(s).coll.parts)
<1> DEFINE E == Events(A) \cup Completions
           Good(s) == /\ Sourced(Rebuild(s).coll.parts, s)
                      /\ Steady(s) => Rising(Rebuild(s).coll.parts)
           G == {s \in Seq(E) : Good(s)}
<1>1. <<>> \in G
  <2>1. Rebuild(<<>>).coll.parts = <<>>
    BY RebuildNone DEF NothingRebuilt, EmptyCollector
  <2> QED BY <2>1, RisingNone
<1>2. ASSUME NEW s \in Seq(E), NEW e \in E, s \in G
      PROVE  Append(s, e) \in G
  <2> DEFINE r == Rebuild(s)
             p == r.coll.parts
             t == Append(s, e)
             q == ApplyEvent(r, e).coll.parts
  <2>1. r \in Rebuilders(A) /\ p \in Seq(Parts(A)) /\ t \in Seq(E)
    BY RebuildType DEF Rebuilders, Collectors
  <2>2. Rebuild(t).coll.parts = q
    BY RebuildAppend
  <2>3. Sourced(p, s) /\ (Steady(s) => Rising(p))
    BY <1>2
  <2>4. \/ Dated(e) /\ e.step \in Nat /\ Grows(A, p, q, e.step, EventCalls(e))
        \/ q \in Seq(Parts(A)) /\ Alike(p, q)
        \/ \E x \in NoticeParts : q = Append(p, x)
    BY <2>1, ApplyGrows
  <2> HIDE DEF E, p, q, r
  <2>5. Sourced(p, t) /\ (Steady(t) => Steady(s)) /\ e \in Range(t)
    BY <2>3, SourcedMore, SteadyAppend, AppendedRange
  <2>6. ASSUME q \in Seq(Parts(A)), Alike(p, q)
        PROVE  Sourced(q, t) /\ (Steady(t) => Rising(q))
    BY <2>1, <2>3, <2>5, <2>6, AlikeRises
  <2>7. ASSUME NEW x \in NoticeParts, q = Append(p, x)
        PROVE  Sourced(q, t) /\ (Steady(t) => Rising(q))
    <3>1. x \in Parts(A) /\ x.kind \in Aside /\ x.kind # "item"
      BY DEF Parts, NoticeParts, Aside
    <3>2. Range(q) = Range(p) \cup {x}
      BY <2>1, <2>7, <3>1, AppendedRange
    <3>3. Sourced(q, t)
      BY <2>5, <3>1, <3>2 DEF Sourced
    <3> QED BY <2>1, <2>3, <2>5, <2>7, <3>1, <3>3, RisingAppend
  <2>8. ASSUME Dated(e), e.step \in Nat, NEW x \in Parts(A), q = Append(p, x),
               x.kind \notin Aside, x.step = e.step, x.kind \in CallParts => x.call \in EventCalls(e)
        PROVE  Sourced(q, t) /\ (Steady(t) => Rising(q))
    <3>1. Sources(x, e)
      BY <2>8 DEF Sources, EventCalls
    <3>2. Range(q) = Range(p) \cup {x}
      BY <2>1, <2>8, AppendedRange
    <3>3. Sourced(q, t)
      BY <2>5, <2>8, <3>1, <3>2 DEF Sourced, Aside
    <3>4. ASSUME Steady(t), NEW y \in Range(p), y.kind \notin Aside
          PROVE  y.step <= x.step
      <4>1. PICK f \in Range(s) : Sources(y, f)
        BY <2>3, <3>4 DEF Sourced
      <4>2. f.step <= e.step
        BY <2>8, <3>4, <4>1, SteadyAppend DEF Sources
      <4> QED BY <2>8, <4>1, <4>2 DEF Sources
    <3>5. Steady(t) => Rising(q)
      BY <2>1, <2>3, <2>5, <2>8, <3>4, RisingAppend
    <3> QED BY <3>3, <3>5
  <2>9. Sourced(q, t) /\ (Steady(t) => Rising(q))
    BY <2>4, <2>6, <2>7, <2>8 DEF Grows
  <2> QED BY <2>1, <2>2, <2>9
<1> HIDE DEF E
<1>3. \A s \in Seq(E) : s \in G
  <2> HIDE DEF G
  <2> QED BY ONLY <1>1, <1>2, EverySequence
<1> QED BY <1>3 DEF E

-----------------------------------------------------------------------------
(* The items of a snapshot, placed among the parts a log rebuilds.         *)

(* The calls ahead of the snapshot's i-th part are those of earlier steps. *)
Parted(parts, snapshot, i) ==
    \A q \in Range(parts) : q.kind \in CallParts =>
        /\ q.kind = "tool"
        /\ q.call \in CallsIn(SubSeq(snapshot, 1, i)) <=> q.step < snapshot[i].item

LEMMA PlaceIs ==
    ASSUME NEW A, NEW s \in Seq(Parts(A)), NEW snapshot \in Seq(Parts(A)),
           NEW i \in 1..Len(snapshot), snapshot[i].kind = "item",
           Rising(s), Parted(s, snapshot, i)
    PROVE  LET at == PlaceOf(s, snapshot, i)
               x == snapshot[i] IN
           \A j \in 1..Len(s) : s[j].kind \notin Aside =>
               /\ j < at => s[j].step < x.item
               /\ j >= at => ~(s[j].kind \in CallParts /\ s[j].step < x.item)
<1> DEFINE P == Parts(A)
           x == snapshot[i]
           calls == CallsIn(SubSeq(snapshot, 1, i))
           after == LastCallIn(s, calls)
           rest == SubSeq(s, after + 1, Len(s))
           items == ItemsEnd(rest)
           at == PlaceOf(s, snapshot, i)
<1>1. /\ after \in 0..Len(s)
      /\ after # 0 => s[after].kind = "tool" /\ s[after].call \in calls
      /\ \A j \in 1..Len(s) : s[j].kind = "tool" /\ s[j].call \in calls => j <= after
  BY LastCallInIs
<1>2. /\ rest \in Seq(P) /\ Len(rest) = Len(s) - after
      /\ \A k \in 1..(Len(s) - after) : rest[k] = s[after + k]
  <2>1. after + 1 \in 1..(Len(s) + 1) /\ Len(s) \in (after + 1 - 1)..Len(s) /\ Len(s) \in Nat
    BY <1>1
  <2> HIDE DEF after, P
  <2>2. /\ SubSeq(s, after + 1, Len(s)) \in Seq(P)
        /\ Len(SubSeq(s, after + 1, Len(s))) = Len(s) - (after + 1) + 1
        /\ \A k \in 1..(Len(s) - (after + 1) + 1) :
              SubSeq(s, after + 1, Len(s))[k] = s[after + 1 + k - 1]
    BY <2>1, SubSeqIs DEF P
  <2>3. Len(s) - (after + 1) + 1 = Len(s) - after /\ \A k \in Nat : after + 1 + k - 1 = after + k
    BY <1>1, <2>1
  <2>4. \A k \in 1..(Len(s) - after) : SubSeq(s, after + 1, Len(s))[k] = s[after + k]
    <3> SUFFICES ASSUME NEW k \in 1..(Len(s) - after)
                 PROVE  SubSeq(s, after + 1, Len(s))[k] = s[after + k]
      OBVIOUS
    <3>1. SubSeq(s, after + 1, Len(s))[k] = s[after + 1 + k - 1]
      BY <2>2, <2>3
    <3>2. after + 1 + k - 1 = after + k
      BY <2>3
    <3> QED BY <3>1, <3>2
  <2>5. Len(SubSeq(s, after + 1, Len(s))) = Len(s) - after
    BY ONLY <2>2, <2>3
  <2> QED BY <2>2, <2>4, <2>5
<1>3. at = IF items = 0 THEN Len(s) + 1 ELSE after + items
  BY DEF PlaceOf
<1> HIDE DEF rest, P
<1>4. /\ items \in 0..Len(rest)
      /\ items = 0 => \A k \in 1..Len(rest) : rest[k].kind = "item"
      /\ items # 0 => \A k \in 1..(items - 1) : rest[k].kind = "item"
  BY <1>2, ItemsEndIs
<1>5. \A j \in 1..Len(s) : s[j] \in Parts(A) /\ s[j] \in Range(s)
  BY DEF Range
<1>6. x.item \in Nat
  BY PartSteps
<1>7. /\ \A j \in 1..Len(s) : s[j].kind \notin Aside => s[j].step \in Nat
      /\ \A j \in 1..Len(s) : s[j].kind \in CallParts =>
            /\ s[j].kind = "tool" /\ s[j].kind \notin Aside
            /\ s[j].call \in calls <=> s[j].step < x.item
  BY <1>5, PartSteps DEF Parted, CallParts, Aside
<1>8. Len(s) \in Nat /\ after \in Nat /\ items \in Nat
  BY <1>1, <1>2, <1>4
<1> HIDE DEF after, items, at, calls, x
<1>9. /\ after < at
      /\ \A j \in 1..Len(s) : after < j /\ j < at => s[j].kind = "item"
  <2>1. after < at
    BY <1>1, <1>3, <1>8
  <2>2. ASSUME NEW j \in 1..Len(s), after < j, j < at
        PROVE  s[j].kind = "item"
    <3>1. j - after \in 1..(Len(s) - after) /\ after + (j - after) = j
      BY <1>8, <2>2
    <3>2. rest[j - after] = s[j]
      BY <1>2, <3>1
    <3>3. items # 0 => j - after \in 1..(items - 1)
      BY <1>3, <1>8, <2>2, <3>1
    <3> QED BY <1>2, <1>4, <3>1, <3>2, <3>3
  <2> QED BY <2>1, <2>2
<1>10. ASSUME NEW j \in 1..Len(s), s[j].kind \notin Aside, j < at
       PROVE  s[j].step < x.item
  <2>1. j <= after
    BY <1>8, <1>9, <1>10 DEF Aside
  <2>2. after \in 1..Len(s) /\ s[after].kind = "tool" /\ s[after].call \in calls
    BY <1>1, <1>8, <2>1
  <2>3. s[after].kind \notin Aside /\ s[after].step \in Nat /\ s[after].step < x.item
    BY <1>7, <2>2 DEF CallParts
  <2>4. CASE j = after
    BY <2>3, <2>4
  <2>5. CASE j # after
    <3>1. j \in DOMAIN s /\ after \in DOMAIN s /\ j < after
      BY <2>1, <2>2, <2>5
    <3>2. s[j].step <= s[after].step
      BY <1>10, <2>3, <3>1 DEF Rising
    <3> QED BY <1>6, <1>7, <1>10, <2>3, <3>2
  <2> QED BY <2>4, <2>5
<1>11. ASSUME NEW j \in 1..Len(s), j >= at, s[j].kind \in CallParts, s[j].step < x.item
       PROVE  FALSE
  <2>1. s[j].kind = "tool" /\ s[j].call \in calls
    BY <1>7, <1>11
  <2>2. j <= after
    BY <1>1, <2>1
  <2>3. at \in Nat
    BY <1>3, <1>8
  <2> QED BY <1>8, <1>9, <1>11, <2>2, <2>3
<1> QED BY <1>10, <1>11 DEF at, x

LEMMA ItemPlaced ==
    ASSUME NEW A, NEW s \in Seq(Parts(A)), NEW snapshot \in Seq(Parts(A)),
           NEW i \in 1..Len(snapshot), snapshot[i].kind = "item",
           Seated(s), Rising(s), Parted(s, snapshot, i)
    PROVE  LET t == PlaceItem(s, snapshot, i) IN
           /\ t \in Seq(Parts(A)) /\ Range(t) = Range(s) \cup {snapshot[i]}
           /\ Seated(t) /\ Rising(t)
<1> DEFINE x == snapshot[i]
           at == PlaceOf(s, snapshot, i)
           t == PlaceItem(s, snapshot, i)
           n == Len(s)
<1>1. t = InsertAt(s, at, x) /\ at \in 1..(n + 1)
  BY PlaceOfIs
<1>2. x \in Parts(A) /\ x.kind = "item" /\ x.item \in Nat
  BY PartSteps
<1>3. \A j \in 1..n : s[j].kind \notin Aside =>
               /\ j < at => s[j].step < x.item
               /\ j >= at => ~(s[j].kind \in CallParts /\ s[j].step < x.item)
  BY PlaceIs
<1>4. \A j \in 1..n : s[j].kind \notin Aside => s[j].step \in Nat
  <2>1. \A j \in 1..n : s[j] \in Parts(A)
    OBVIOUS
  <2> QED BY <2>1, PartSteps
<1>5. n \in Nat /\ DOMAIN s = 1..n
  OBVIOUS
<1> HIDE DEF x, at, t
<1>6. /\ t \in Seq(Parts(A)) /\ Len(t) = n + 1
      /\ \A j \in 1..(n + 1) : t[j] = IF j < at THEN s[j] ELSE IF j = at THEN x ELSE s[j - 1]
  <2> DEFINE u == InsertAt(s, at, x)
             P == Parts(A)
  <2>1. s \in Seq(P) /\ x \in P /\ at \in 1..(Len(s) + 1)
    BY <1>1, <1>2
  <2> HIDE DEF P
  <2>2. u \in Seq(P) /\ Len(u) = Len(s) + 1
    BY ONLY <2>1, InsertAtIs, SMTT(30)
  <2>3. ASSUME NEW j \in 1..(Len(s) + 1)
        PROVE  u[j] = IF j < at THEN s[j] ELSE IF j = at THEN x ELSE s[j - 1]
    BY ONLY <2>1, <2>3, InsertAtIs, SMTT(30)
  <2> HIDE DEF u
  <2>4. t = u
    BY <1>1 DEF u
  <2> QED BY <2>2, <2>3, <2>4 DEF P
<1>7. Range(t) = Range(s) \cup {x}
  BY ONLY <1>1, <1>2, s \in Seq(Parts(A)), InsertedRange
<1> HIDE DEF n
<1>8. DOMAIN t = 1..(n + 1)
  BY <1>5, <1>6
<1> DEFINE was(j) == IF j < at THEN j ELSE j - 1
<1>9. \A j \in 1..(n + 1) : j # at =>
         /\ was(j) \in 1..n /\ t[j] = s[was(j)]
         /\ was(j) < at <=> j < at
  BY <1>1, <1>5, <1>6
<1>10. \A j, k \in 1..(n + 1) : j # at /\ k # at => (was(j) < was(k) <=> j < k)
  BY <1>1, <1>5
<1>11. t[at] = x /\ x.kind \in Aside
  BY <1>1, <1>2, <1>6 DEF Aside
<1> HIDE DEF was
<1>12. Rising(t)
  <2> SUFFICES ASSUME NEW j \in 1..(n + 1), NEW k \in 1..(n + 1), j < k,
                      t[j].kind \notin Aside, t[k].kind \notin Aside
               PROVE  t[j].step <= t[k].step
    BY <1>8 DEF Rising
  <2>1. j # at /\ k # at
    BY <1>11
  <2>2. was(j) \in DOMAIN s /\ was(k) \in DOMAIN s /\ was(j) < was(k)
        /\ t[j] = s[was(j)] /\ t[k] = s[was(k)]
    BY <1>5, <1>9, <1>10, <2>1
  <2> QED BY <2>2 DEF Rising
<1>13. Seated(t)
  <2> SUFFICES ASSUME NEW j \in 1..(n + 1), NEW k \in 1..(n + 1),
                      t[j].kind = "item", t[k].kind \notin Aside
               PROVE  /\ t[k].kind \in CallParts /\ t[k].step < t[j].item => k < j
                      /\ t[k].step >= t[j].item => j < k
    BY <1>8 DEF Seated
  <2>1. k # at /\ was(k) \in 1..n /\ t[k] = s[was(k)] /\ (was(k) < at <=> k < at)
    BY <1>9, <1>11
  <2>2. CASE j = at
    <3>1. t[j] = x /\ t[k].step \in Nat
      BY <1>4, <1>11, <2>1, <2>2
    <3>2. /\ was(k) < at => t[k].step < x.item
          /\ was(k) >= at => ~(t[k].kind \in CallParts /\ t[k].step < x.item)
      BY <1>3, <2>1
    <3>3. was(k) \in Nat /\ at \in Nat /\ k \in Nat
      BY <1>1, <1>5, <2>1
    <3> QED BY <1>2, <2>1, <2>2, <3>1, <3>2, <3>3
  <2>3. CASE j # at
    <3>1. was(j) \in DOMAIN s /\ was(k) \in DOMAIN s /\ t[j] = s[was(j)]
          /\ (was(k) < was(j) <=> k < j) /\ (was(j) < was(k) <=> j < k)
      BY <1>5, <1>9, <1>10, <2>1, <2>3
    <3>2. /\ s[was(k)].kind \in CallParts /\ s[was(k)].step < s[was(j)].item => was(k) < was(j)
          /\ s[was(k)].step >= s[was(j)].item => was(j) < was(k)
      BY <2>1, <3>1 DEF Seated
    <3> QED BY <2>1, <3>1, <3>2
  <2> QED BY <2>2, <2>3
<1> QED BY <1>6, <1>7, <1>12, <1>13 DEF t, x

LEMMA StoredPlaced ==
    ASSUME NEW A, NEW rebuilt \in Seq(Parts(A)), NEW snapshot \in Seq(Parts(A)),
           Seated(rebuilt), Rising(rebuilt),
           \A i \in 1..Len(snapshot) : snapshot[i].kind = "item" => Parted(rebuilt, snapshot, i)
    PROVE  Seated(PlaceStoredItems(rebuilt, snapshot))
<1> DEFINE Good(s) == /\ Seated(s) /\ Rising(s)
                      /\ \A p \in Range(s) : p \in Range(rebuilt) \/ p.kind = "item"
           B == {s \in Seq(Parts(A)) : Good(s)}
           G == [i \in 0..Len(snapshot) |-> B]
<1>1. Len(snapshot) \in Nat
  OBVIOUS
<1>2. rebuilt \in B
  OBVIOUS
<1>3. ASSUME NEW i \in 1..Len(snapshot), NEW s \in B
      PROVE  PlacePart(s, snapshot, i) \in B
  <2>1. CASE snapshot[i].kind = "item"
    <3>1. Parted(s, snapshot, i)
      <4>1. Parted(rebuilt, snapshot, i) /\ "item" \notin CallParts
        BY <2>1 DEF CallParts
      <4>2. \A p \in Range(s) : p \in Range(rebuilt) \/ p.kind = "item"
        BY <1>3
      <4> QED BY <4>1, <4>2 DEF Parted
    <3> DEFINE t == PlaceItem(s, snapshot, i)
    <3>2. /\ t \in Seq(Parts(A)) /\ Range(t) = Range(s) \cup {snapshot[i]}
          /\ Seated(t) /\ Rising(t)
      BY <1>3, <2>1, <3>1, ItemPlaced
    <3>3. PlacePart(s, snapshot, i) = t
      BY <2>1 DEF PlacePart
    <3> HIDE DEF t
    <3> QED BY <1>3, <2>1, <3>2, <3>3
  <2>2. CASE snapshot[i].kind # "item"
    BY <1>3, <2>2 DEF PlacePart
  <2> QED BY <2>1, <2>2
<1> HIDE DEF B
<1>4. rebuilt \in G[0] /\ \A i \in 1..Len(snapshot) : \A s \in G[i - 1] : PlacePart(s, snapshot, i) \in G[i]
  BY <1>1, <1>2, <1>3
<1>5. G[Len(snapshot)] = B
  BY <1>1
<1> HIDE DEF G
<1>6. PlaceStoredItems(rebuilt, snapshot) \in G[Len(snapshot)]
  BY ONLY <1>4, snapshot \in Seq(Parts(A)), PlaceStoredReaches
<1> QED BY <1>5, <1>6 DEF B

(* The calls ahead of an item in a snapshot are those of earlier steps.    *)
Cuts(parts, events) ==
    \A i \in DOMAIN parts : parts[i].kind = "item" =>
        \A e \in Range(events) : e.type = "tool.requested" =>
            (e.call \in CallsIn(SubSeq(parts, 1, i)) <=> e.step < parts[i].item)

LEMMA UndatedBehind ==
    ASSUME NEW T, NEW s \in Seq(T), NEW t \in Seq(T), Steady(s), \A e \in Range(t) : ~Dated(e)
    PROVE  /\ Steady(s \o t)
           /\ \A e \in Range(s \o t) : Dated(e) => e \in Range(s)
<1> DEFINE u == s \o t
<1>1. /\ u \in Seq(T) /\ Len(u) = Len(s) + Len(t)
      /\ \A i \in 1..(Len(s) + Len(t)) : u[i] = IF i <= Len(s) THEN s[i] ELSE t[i - Len(s)]
  BY ConcatIs
<1>2. /\ Len(s) \in Nat /\ Len(t) \in Nat /\ DOMAIN s = 1..Len(s) /\ DOMAIN t = 1..Len(t)
      /\ DOMAIN u = 1..(Len(s) + Len(t))
  BY <1>1
<1> HIDE DEF u
<1>3. ASSUME NEW i \in DOMAIN u, Dated(u[i])
      PROVE  i \in DOMAIN s /\ u[i] = s[i]
  <2>1. CASE i <= Len(s)
    BY <1>1, <1>2, <2>1
  <2>2. CASE ~(i <= Len(s))
    <3>1. i - Len(s) \in DOMAIN t /\ u[i] = t[i - Len(s)]
      BY <1>1, <1>2, <2>2
    <3>2. t[i - Len(s)] \in Range(t)
      BY <3>1 DEF Range
    <3> QED BY <1>3, <3>1, <3>2
  <2> QED BY <2>1, <2>2
<1>4. Steady(u)
  BY <1>3 DEF Steady
<1>5. \A e \in Range(u) : Dated(e) => e \in Range(s)
  BY <1>3 DEF Range
<1> QED BY <1>4, <1>5 DEF u

(* A reply rebuilt from a window keeps the items of its snapshot in place. *)
LEMMA RebuiltSeated ==
    ASSUME NEW a, NEW w \in Windows(a), NEW t \in Seq(Completions), Steady(w),
           NEW snapshot \in Seq(Parts({a})), Cuts(snapshot, w)
    PROVE  Seated(PlaceStoredItems(RebuiltParts(w \o t), snapshot))
<1> DEFINE P == Parts({a})
           T == Events({a}) \cup Completions
           u == w \o t
           c == Rebuild(u).coll
           parts == PartsOf(c)
<1>1. w \in Seq(T) /\ t \in Seq(T)
  <2>1. Events({a}) \subseteq T /\ Completions \subseteq T
    OBVIOUS
  <2>2. Seq(Events({a})) \subseteq Seq(T) /\ Seq(Completions) \subseteq Seq(T)
    BY <2>1, SeqMonotone
  <2> QED BY <2>2 DEF Windows
<1>2. \A e \in Range(t) : ~Dated(e)
  <2>1. \A e \in Range(t) : e \in Completions
    BY DEF Range
  <2> QED BY <2>1 DEF Completions, Dated
<1> HIDE DEF T
<1>3. u \in Seq(T)
  BY <1>1
<1>4. Steady(u) /\ \A e \in Range(u) : Dated(e) => e \in Range(w)
  BY ONLY <1>1, <1>2, Steady(w), UndatedBehind
<1> HIDE DEF u
<1>5. c.parts \in Seq(P)
  BY <1>3, RebuildType DEF T, Rebuilders, Collectors
<1>6. Sourced(c.parts, u) /\ Rising(c.parts)
  BY <1>3, <1>4, RebuildRises DEF T
<1> HIDE DEF c
<1>7. Rising(parts)
  BY <1>5, <1>6, WithoutRising DEF PartsOf
<1>8. parts \in Seq(P) /\ Range(parts) = {p \in Range(c.parts) : p.kind \notin {"pending-tool"}}
  <2> HIDE DEF P
  <2> QED BY <1>5, WithoutKeeps DEF PartsOf
<1> HIDE DEF parts
<1>9. Seated(parts)
  <2>1. \A i \in DOMAIN parts : parts[i] \in Range(parts)
    BY DEF Range
  <2>2. \A i \in DOMAIN parts : parts[i].kind # "item"
    BY <1>6, <1>8, <2>1 DEF Sourced
  <2> QED BY <2>2 DEF Seated
<1>10. ASSUME NEW i \in 1..Len(snapshot), snapshot[i].kind = "item"
       PROVE  Parted(parts, snapshot, i)
  <2> SUFFICES ASSUME NEW q \in Range(parts), q.kind \in CallParts
               PROVE  /\ q.kind = "tool"
                      /\ q.call \in CallsIn(SubSeq(snapshot, 1, i)) <=> q.step < snapshot[i].item
    BY DEF Parted
  <2>1. q.kind = "tool" /\ q \in Range(c.parts) /\ q.kind \notin Aside
    BY <1>8 DEF CallParts, Aside
  <2>2. PICK e \in Range(u) : Sources(q, e)
    BY <1>6, <2>1 DEF Sourced
  <2>3. e \in Range(w) /\ e.type = "tool.requested" /\ e.call = q.call /\ e.step = q.step
    BY <1>4, <2>2 DEF Sources
  <2>4. i \in DOMAIN snapshot
    OBVIOUS
  <2> QED BY <1>10, <2>1, <2>3, <2>4 DEF Cuts
<1>11. Seated(PlaceStoredItems(parts, snapshot))
  BY <1>7, <1>8, <1>9, <1>10, StoredPlaced
<1> QED BY <1>11 DEF parts, c, u, RebuiltParts

-----------------------------------------------------------------------------
(* What a turn keeps of its events, its parts, and the items shown of it.  *)

(* The events step on, and the shown items cut them by their steps.        *)
Ordered(events, n, shown) ==
    /\ Steady(events) /\ DatedWithin(events, n)
    /\ Cuts(shown, events) /\ Within(shown, n)

(* A call is of the step its request names.                                *)
Matched(parts, events) ==
    \A p \in Range(parts), e \in Range(events) :
        p.kind \in CallParts /\ e.type = "tool.requested" /\ e.call = p.call => p.step = e.step

(* A call that waits for its destination is of the current step.           *)
Unresolved(a, parts, calls, n) ==
    \A p \in Range(parts), c \in Calls :
        p.kind \in CallParts /\ p.call = <<a, c>> /\ calls[c] = "resolving" => p.step = n

Laid(parts, n) == Seated(parts) /\ Within(parts, n)
Unthrown(l) == ~l.failed /\ \A c \in Calls : l.calls[c] # "thrown"

(* Only settled calls are shown.                                           *)
ShownSettled(a, calls, shown) ==
    \A call \in CallsIn(shown) : \E c \in Calls : call = <<a, c>> /\ calls[c] = "settled"

Kept(a, s, l, shown) ==
    /\ Ordered(s \o l.chain, l.step, shown)
    /\ Laid(l.coll.parts, l.step)
    /\ Matched(l.coll.parts, s \o l.chain)
    /\ Unresolved(a, l.coll.parts, l.calls, l.step)
    /\ Unthrown(l) /\ ShownSettled(a, l.calls, shown)

LEMMA CallsAhead ==
    ASSUME NEW T, NEW s \in Seq(T), NEW i \in DOMAIN s
    PROVE  CallsIn(SubSeq(s, 1, i)) \subseteq CallsIn(s)
<1> DEFINE u == SubSeq(s, 1, i)
<1>1. u \in Seq(T) /\ Len(u) = i /\ \A k \in 1..i : u[k] = s[k]
  OBVIOUS
<1>2. DOMAIN u = 1..i /\ DOMAIN s = 1..Len(s) /\ i \in 1..Len(s)
  BY <1>1
<1> HIDE DEF u
<1>3. \A k \in DOMAIN u : k \in DOMAIN s /\ u[k] = s[k]
  BY <1>1, <1>2
<1> QED BY <1>3 DEF CallsIn, u

(* One event more, of the current step if it has one.                      *)
LEMMA OrderedAppend ==
    ASSUME NEW T, NEW q \in Seq(T), NEW e \in T, NEW A, NEW shown \in Seq(Parts(A)),
           NEW n \in Nat, Ordered(q, n, shown), Dated(e) => e.step = n,
           e.type = "tool.requested" => e.call \notin CallsIn(shown)
    PROVE  Ordered(Append(q, e), n, shown)
<1> DEFINE t == Append(q, e)
<1>1. Range(t) = Range(q) \cup {e}
  BY AppendedRange
<1>2. Steady(t) /\ DatedWithin(t, n)
  BY SteadyAppend DEF Ordered
<1> HIDE DEF t
<1>3. ASSUME NEW i \in DOMAIN shown, shown[i].kind = "item", e.type = "tool.requested"
      PROVE  e.call \in CallsIn(SubSeq(shown, 1, i)) <=> e.step < shown[i].item
  <2>1. shown[i] \in Parts(A) /\ shown[i] \in Range(shown)
    BY DEF Range
  <2>2. shown[i].item \in Nat /\ shown[i].item <= n
    BY <1>3, <2>1, PartSteps DEF Ordered, Within
  <2>3. e.step = n
    BY <1>3 DEF Dated
  <2>4. e.call \notin CallsIn(SubSeq(shown, 1, i))
    BY <1>3, CallsAhead
  <2> QED BY <2>2, <2>3, <2>4
<1>4. Cuts(shown, t)
  BY <1>1, <1>3 DEF Ordered, Cuts
<1> QED BY <1>2, <1>4 DEF Ordered, t

LEMMA MatchedAppend ==
    ASSUME NEW T, NEW q \in Seq(T), NEW e \in T, NEW parts, Matched(parts, q),
           e.type = "tool.requested" =>
               \A p \in Range(parts) : p.kind \in CallParts /\ p.call = e.call => p.step = e.step
    PROVE  Matched(parts, Append(q, e))
<1>1. Range(Append(q, e)) = Range(q) \cup {e}
  BY AppendedRange
<1> QED BY <1>1 DEF Matched

(* Parts that grow, at the current step, by no call that was requested.    *)
Grown(s, t, n, calls) ==
    /\ Laid(s, n) => Laid(t, n)
    /\ \A q : /\ Matched(s, q)
              /\ \A e \in Range(q) : e.type = "tool.requested" => e.call \notin calls
              => Matched(t, q)
    /\ \A a, states : Unresolved(a, s, states, n) => Unresolved(a, t, states, n)

LEMMA GrownParts ==
    ASSUME NEW A, NEW s \in Seq(Parts(A)), NEW t, NEW n \in Nat, NEW calls, Grows(A, s, t, n, calls)
    PROVE  t \in Seq(Parts(A)) /\ Grown(s, t, n, calls)
<1>1. CASE t \in Seq(Parts(A)) /\ Alike(s, t)
  <2>1. /\ Seated(s) => Seated(t)
        /\ Within(s, n) => Within(t, n)
        /\ \A q \in Range(t) : \E p \in Range(s) : SamePlace(p, q)
    BY <1>1, AlikeKeeps
  <2>2. \A q \in Range(t) : q.kind \in CallParts =>
           \E p \in Range(s) : p.kind \in CallParts /\ p.call = q.call /\ p.step = q.step
    <3> SUFFICES ASSUME NEW q \in Range(t), q.kind \in CallParts
                 PROVE  \E p \in Range(s) : p.kind \in CallParts /\ p.call = q.call /\ p.step = q.step
      OBVIOUS
    <3>1. PICK p \in Range(s) : SamePlace(p, q)
      BY <2>1
    <3>2. p.kind \in CallParts /\ p.kind \notin Aside
      BY <3>1 DEF SamePlace, CallParts, Aside
    <3> QED BY <3>1, <3>2 DEF SamePlace
  <2>3. ASSUME NEW q, Matched(s, q) PROVE Matched(t, q)
    BY <2>2, <2>3 DEF Matched
  <2>4. ASSUME NEW a, NEW states, Unresolved(a, s, states, n) PROVE Unresolved(a, t, states, n)
    BY <2>2, <2>4 DEF Unresolved
  <2> QED BY <1>1, <2>1, <2>3, <2>4 DEF Laid, Grown
<1>2. ASSUME NEW x \in Parts(A), t = Append(s, x), x.kind \notin Aside, x.step = n,
             x.kind \in CallParts => x.call \in calls
      PROVE  t \in Seq(Parts(A)) /\ Grown(s, t, n, calls)
  <2>1. Range(t) = Range(s) \cup {x} /\ t \in Seq(Parts(A))
    BY <1>2, AppendedRange
  <2>2. Laid(s, n) => Laid(t, n)
    BY <1>2, PartSeated DEF Laid
  <2>3. ASSUME NEW q, Matched(s, q), \A e \in Range(q) : e.type = "tool.requested" => e.call \notin calls
        PROVE  Matched(t, q)
    BY <1>2, <2>1, <2>3 DEF Matched
  <2>4. ASSUME NEW a, NEW states, Unresolved(a, s, states, n) PROVE Unresolved(a, t, states, n)
    BY <1>2, <2>1, <2>4 DEF Unresolved
  <2> QED BY <2>1, <2>2, <2>3, <2>4 DEF Grown
<1> QED BY <1>1, <1>2 DEF Grows, Grown

(* A notice or an item more.                                               *)
LEMMA AsideParts ==
    ASSUME NEW A, NEW s \in Seq(Parts(A)), NEW x \in Parts(A), x.kind \in Aside
    PROVE  /\ \A q : Matched(s, q) => Matched(Append(s, x), q)
           /\ \A a, states, n : Unresolved(a, s, states, n) => Unresolved(a, Append(s, x), states, n)
<1>1. Range(Append(s, x)) = Range(s) \cup {x}
  BY AppendedRange
<1>2. x.kind \notin CallParts
  BY DEF Aside, CallParts
<1>3. ASSUME NEW q, Matched(s, q) PROVE Matched(Append(s, x), q)
  BY <1>1, <1>2, <1>3 DEF Matched
<1>4. ASSUME NEW a, NEW states, NEW n, Unresolved(a, s, states, n)
      PROVE  Unresolved(a, Append(s, x), states, n)
  BY <1>1, <1>2, <1>4 DEF Unresolved
<1> QED BY <1>3, <1>4

(* What a turn does to itself without a request or an outcome.             *)
SameCallWork(l, k) == k.step = l.step /\ k.calls = l.calls /\ k.failed = l.failed
Lays(a, l, k) ==
    /\ k \in Locals(a) /\ SameCallWork(l, k)
    /\ \A s \in Windows(a), shown \in Seq(Parts({a})) :
          Kept(a, s, l, shown) => Kept(a, s, k, shown)

LEMMA LaysTwice ==
    ASSUME NEW a, NEW l, NEW m, NEW k, Lays(a, l, m), Lays(a, m, k)
    PROVE  Lays(a, l, k)
  BY DEF Lays, SameCallWork

LEMMA LaysSame ==
    ASSUME NEW a, NEW l, NEW k \in Locals(a), SameCallWork(l, k), k.chain = l.chain,
           k.coll = l.coll
    PROVE  Lays(a, l, k)
  BY DEF Lays, SameCallWork, Kept, Unthrown

LEMMA ChainAppends ==
    ASSUME NEW a, NEW s \in Windows(a), NEW l \in Locals(a), NEW e \in StreamEvents({a})
    PROVE  /\ s \o l.chain \in Seq(Events({a})) /\ e \in Events({a})
           /\ s \o Append(l.chain, e) = Append(s \o l.chain, e)
<1>1. e \in Events({a}) /\ s \in Seq(Events({a})) /\ l.chain \in Seq(Events({a}))
  <2>1. StreamEvents({a}) \subseteq Events({a}) /\ l.chain \in Seq(StreamEvents({a}))
    BY LocalFields DEF Events
  <2>2. Seq(StreamEvents({a})) \subseteq Seq(Events({a}))
    BY <2>1, SeqMonotone
  <2> QED BY <2>1, <2>2 DEF Windows
<1>2. ASSUME NEW T, NEW u \in Seq(T), NEW v \in Seq(T), NEW x \in T
      PROVE  u \o v \in Seq(T) /\ u \o Append(v, x) = Append(u \o v, x)
  OBVIOUS
<1> QED BY ONLY <1>1, <1>2

LEMMA LaysEnqueued ==
    ASSUME NEW a, NEW l \in Locals(a), NEW k \in Locals(a), NEW e \in StreamEvents({a}),
           SameCallWork(l, k), k.coll = l.coll, k.chain = Append(l.chain, e),
           e.type # "tool.requested", Dated(e) => e.step = l.step
    PROVE  Lays(a, l, k)
<1> SUFFICES ASSUME NEW s \in Windows(a), NEW shown \in Seq(Parts({a})), Kept(a, s, l, shown)
             PROVE  Kept(a, s, k, shown)
  BY DEF Lays
<1> DEFINE q == s \o l.chain
<1>1. q \in Seq(Events({a})) /\ e \in Events({a}) /\ s \o k.chain = Append(q, e)
  BY ChainAppends
<1>2. l.step \in Nat
  BY LocalFields
<1> HIDE DEF q
<1>3. Ordered(q, l.step, shown) /\ Matched(l.coll.parts, q)
  BY DEF Kept, q
<1>4. Ordered(Append(q, e), l.step, shown)
  BY <1>1, <1>2, <1>3, OrderedAppend
<1>5. Matched(l.coll.parts, Append(q, e))
  BY <1>1, <1>3, MatchedAppend
<1> QED BY <1>1, <1>4, <1>5 DEF Kept, SameCallWork, Unthrown

LEMMA LaysGrown ==
    ASSUME NEW a, NEW l \in Locals(a), NEW k \in Locals(a), SameCallWork(l, k), k.chain = l.chain,
           Grows({a}, l.coll.parts, k.coll.parts, l.step, {})
    PROVE  Lays(a, l, k)
<1> SUFFICES ASSUME NEW s \in Windows(a), NEW shown \in Seq(Parts({a})), Kept(a, s, l, shown)
             PROVE  Kept(a, s, k, shown)
  BY DEF Lays
<1>1. l.step \in Nat /\ l.coll.parts \in Seq(Parts({a}))
  BY LocalFields DEF Collectors
<1>2. /\ Laid(l.coll.parts, l.step) => Laid(k.coll.parts, l.step)
      /\ Matched(l.coll.parts, s \o l.chain) => Matched(k.coll.parts, s \o l.chain)
      /\ Unresolved(a, l.coll.parts, l.calls, l.step) => Unresolved(a, k.coll.parts, l.calls, l.step)
  <2>1. Grown(l.coll.parts, k.coll.parts, l.step, {})
    BY <1>1, GrownParts
  <2> QED BY <2>1 DEF Grown
<1> QED BY <1>2 DEF Kept, SameCallWork, Unthrown

LEMMA LaysNoted ==
    ASSUME NEW a, NEW l \in Locals(a), NEW k \in Locals(a), SameCallWork(l, k), k.chain = l.chain,
           k.coll.parts = Append(l.coll.parts, CapNotice)
    PROVE  Lays(a, l, k)
<1> SUFFICES ASSUME NEW s \in Windows(a), NEW shown \in Seq(Parts({a})), Kept(a, s, l, shown)
             PROVE  Kept(a, s, k, shown)
  BY DEF Lays
<1>1. l.step \in Nat /\ l.coll.parts \in Seq(Parts({a}))
  BY LocalFields DEF Collectors
<1>2. CapNotice \in Parts({a}) /\ CapNotice.kind \in Aside /\ CapNotice.kind = "notice"
  BY DEF CapNotice, Parts, NoticeParts, Aside
<1>3. Laid(k.coll.parts, l.step)
  BY <1>1, <1>2, PartSeated DEF Kept, Laid
<1>4. /\ Matched(k.coll.parts, s \o l.chain)
      /\ Unresolved(a, k.coll.parts, l.calls, l.step)
  BY <1>1, <1>2, AsideParts DEF Kept
<1> QED BY <1>3, <1>4 DEF Kept, SameCallWork, Unthrown

(* The buffers, drained or filled, and the ids adopted.                    *)
LEMMA LaysSelf ==
    ASSUME NEW a, NEW l \in Locals(a)
    PROVE  Lays(a, l, l)
  BY LaysSame DEF SameCallWork

LEMMA LaysFlush ==
    ASSUME NEW a, NEW l \in Locals(a)
    PROVE  Lays(a, l, FlushReasoning(l)) /\ Lays(a, l, FlushText(l)) /\ Lays(a, l, Flush(l))
<1>1. ASSUME NEW m \in Locals(a) PROVE Lays(a, m, FlushReasoning(m))
  <2>1. CASE m.reasoningBuf = <<>>
    BY <1>1, <2>1, LaysSelf DEF FlushReasoning
  <2>2. CASE m.reasoningBuf # <<>>
    <3> DEFINE e == Delta("reasoning.delta", m.reasoningBuf, m.reasoningId, m.step)
               k == FlushReasoning(m)
    <3>1. k \in Locals(a) /\ k = [m EXCEPT !.chain = Append(m.chain, e), !.reasoningBuf = <<>>]
      BY <1>1, <2>2, FlushReasoningIs
    <3>2. e \in StreamEvents({a})
      BY <1>1, LocalFields, StreamEventsAre
    <3>3. e.type # "tool.requested" /\ e.step = m.step
      BY DEF Delta, Event
    <3>4. SameCallWork(m, k) /\ k.coll = m.coll
      BY <1>1, FlushIs DEF SameButBuffers, SameCallWork
    <3> HIDE DEF e, k
    <3>5. k.chain = Append(m.chain, e)
      BY ONLY <3>1, m \in Locals(a) DEF Locals
    <3>6. Lays(a, m, k)
      BY <1>1, <3>1, <3>2, <3>3, <3>4, <3>5, LaysEnqueued
    <3> QED BY <3>6 DEF k
  <2> QED BY <2>1, <2>2
<1>2. ASSUME NEW m \in Locals(a) PROVE Lays(a, m, FlushText(m))
  <2>1. CASE m.textBuf = <<>>
    BY <1>2, <2>1, LaysSelf DEF FlushText
  <2>2. CASE m.textBuf # <<>>
    <3> DEFINE e == Delta("model.delta", m.textBuf, m.textId, m.step)
               k == FlushText(m)
    <3>1. k \in Locals(a) /\ k = [m EXCEPT !.chain = Append(m.chain, e), !.textBuf = <<>>]
      BY <1>2, <2>2, FlushTextIs
    <3>2. e \in StreamEvents({a})
      BY <1>2, LocalFields, StreamEventsAre
    <3>3. e.type # "tool.requested" /\ e.step = m.step
      BY DEF Delta, Event
    <3>4. SameCallWork(m, k) /\ k.coll = m.coll
      BY <1>2, FlushIs DEF SameButBuffers, SameCallWork
    <3> HIDE DEF e, k
    <3>5. k.chain = Append(m.chain, e)
      BY ONLY <3>1, m \in Locals(a) DEF Locals
    <3>6. Lays(a, m, k)
      BY <1>2, <3>1, <3>2, <3>3, <3>4, <3>5, LaysEnqueued
    <3> QED BY <3>6 DEF k
  <2> QED BY <2>1, <2>2
<1>3. Lays(a, l, FlushReasoning(l)) /\ FlushReasoning(l) \in Locals(a)
  BY <1>1 DEF Lays
<1>4. Lays(a, FlushReasoning(l), FlushText(FlushReasoning(l)))
  BY <1>2, <1>3
<1>5. Lays(a, l, Flush(l))
  BY <1>3, <1>4, LaysTwice DEF Flush
<1> QED BY <1>1, <1>2, <1>5

LEMMA LaysUpdates ==
    ASSUME NEW a, NEW l \in Locals(a)
    PROVE  /\ \A id \in Ids : Lays(a, l, [l EXCEPT !.textId = id])
           /\ \A id \in Ids : Lays(a, l, [l EXCEPT !.reasoningId = id])
           /\ \A c \in Collectors({a}) :
                 Grows({a}, l.coll.parts, c.parts, l.step, {}) => Lays(a, l, [l EXCEPT !.coll = c])
           /\ \A phase \in Phases : Lays(a, l, [l EXCEPT !.phase = phase])
<1>1. ASSUME NEW k \in Locals(a),
             \/ \E id \in Ids : k = [l EXCEPT !.textId = id]
             \/ \E id \in Ids : k = [l EXCEPT !.reasoningId = id]
             \/ \E phase \in Phases : k = [l EXCEPT !.phase = phase]
      PROVE  Lays(a, l, k)
  <2>1. k.chain = l.chain /\ k.coll = l.coll /\ SameCallWork(l, k)
    BY <1>1 DEF Locals, SameCallWork
  <2> QED BY <2>1, LaysSame
<1>2. ASSUME NEW c \in Collectors({a}), Grows({a}, l.coll.parts, c.parts, l.step, {}),
             NEW k \in Locals(a), k = [l EXCEPT !.coll = c]
      PROVE  Lays(a, l, k)
  <2>1. k.chain = l.chain /\ k.coll = c /\ SameCallWork(l, k)
    BY <1>2 DEF Locals, SameCallWork
  <2> QED BY <1>2, <2>1, LaysGrown
<1> QED BY <1>1, <1>2, LocalUpdates

LEMMA LaysPushed ==
    ASSUME NEW a, NEW l \in Locals(a), NEW tok \in TokensOf({a}), l.tokens < MaxTokens
    PROVE  /\ \A k \in PushText(l, tok) : Lays(a, l, k)
           /\ \A k \in PushReasoning(l, tok) : Lays(a, l, k)
<1>1. /\ l.tokens + 1 \in 0..MaxTokens
      /\ Append(l.textBuf, tok) \in Seq(TokensOf({a}))
      /\ Append(l.reasoningBuf, tok) \in Seq(TokensOf({a}))
  <2>1. l.tokens \in 0..MaxTokens /\ MaxTokens \in Nat
    BY LocalFields, TranscriptAssumption
  <2>2. l.textBuf \in Seq(TokensOf({a})) /\ l.reasoningBuf \in Seq(TokensOf({a}))
    BY LocalFields
  <2>3. l.tokens + 1 \in 0..MaxTokens
    BY <2>1
  <2> QED BY <2>2, <2>3
<1>2. ASSUME NEW b \in Locals(a), NEW k \in {b, FlushText(b), FlushReasoning(b)}, Lays(a, l, b)
      PROVE  Lays(a, l, k)
  <2>1. Lays(a, b, k)
    BY <1>2, LaysFlush, LaysSelf
  <2> QED BY <1>2, <2>1, LaysTwice
<1>3. PICK x, y, n : x = Append(l.textBuf, tok) /\ y = Append(l.reasoningBuf, tok)
                     /\ n = l.tokens + 1
  OBVIOUS
<1>4. PICK b : b = [l EXCEPT !.textBuf = x, !.tokens = n]
  OBVIOUS
<1>5. PICK d : d = [l EXCEPT !.reasoningBuf = y, !.tokens = n]
  OBVIOUS
<1>6. b \in Locals(a) /\ d \in Locals(a)
  <2>1. [l EXCEPT !.textBuf = x] \in Locals(a) /\ [l EXCEPT !.reasoningBuf = y] \in Locals(a)
    BY <1>1, <1>3, LocalUpdates
  <2>2. /\ [[l EXCEPT !.textBuf = x] EXCEPT !.tokens = n] \in Locals(a)
        /\ [[l EXCEPT !.reasoningBuf = y] EXCEPT !.tokens = n] \in Locals(a)
    BY <1>1, <1>3, <2>1, LocalUpdates
  <2> QED BY <1>4, <1>5, <2>2
<1>7. Lays(a, l, b) /\ Lays(a, l, d)
  <2>1. /\ b.chain = l.chain /\ b.coll = l.coll /\ SameCallWork(l, b)
        /\ d.chain = l.chain /\ d.coll = l.coll /\ SameCallWork(l, d)
    BY <1>4, <1>5 DEF Locals, SameCallWork
  <2> QED BY <1>6, <2>1, LaysSame
<1>8. PushText(l, tok) = {b, FlushText(b)} /\ PushReasoning(l, tok) = {d, FlushReasoning(d)}
  BY <1>3, <1>4, <1>5 DEF PushText, PushReasoning
<1> QED BY <1>2, <1>6, <1>7, <1>8

(* Each delivery of text, reasoning and metadata.                          *)
LaysNext(a) == \E k : Lays(a, att[a], k) /\ Set(a, k)

LEMMA TextDeltaLays ==
    ASSUME NEW a, att[a] \in Locals(a), NEW id \in PartIds, OnTextDelta(a, id)
    PROVE  LaysNext(a)
<1>1. PICK c : c = CollectText(att[a].coll, <<Token(a)>>, id, att[a].step)
  OBVIOUS
<1>2. PICK l : l = [att[a] EXCEPT !.coll = c]
  OBVIOUS
<1>3. PICK crossed : crossed = [FlushReasoning(l) EXCEPT !.reasoningId = None]
  OBVIOUS
<1>4. PICK adopted : adopted = AdoptTextId(crossed, id)
  OBVIOUS
<1>5. id \in Ids /\ None \in Ids
  BY DEF Ids
<1>6. c \in Collectors({a}) /\ Grows({a}, att[a].coll.parts, c.parts, att[a].step, {})
  <2>1. att[a].coll \in Collectors({a}) /\ att[a].step \in Nat
        /\ <<Token(a)>> \in Texts({a}) /\ <<Token(a)>> \in Seq(TokensOf({a}))
    BY LocalFields, TokenIs DEF Texts
  <2> QED BY <1>1, <1>5, <2>1, CollectTextIs, TextGrows
<1>7. Lays(a, att[a], l) /\ l \in Locals(a)
  BY <1>2, <1>6, LaysUpdates DEF Lays
<1>8. Lays(a, l, FlushReasoning(l)) /\ FlushReasoning(l) \in Locals(a)
  BY <1>7, LaysFlush DEF Lays
<1>9. Lays(a, FlushReasoning(l), crossed) /\ crossed \in Locals(a)
  <2>1. PICK m : m = FlushReasoning(l)
    OBVIOUS
  <2>2. Lays(a, m, [m EXCEPT !.reasoningId = None])
    BY <1>5, <1>8, <2>1, LaysUpdates
  <2> QED BY <1>3, <2>1, <2>2 DEF Lays
<1>10. Lays(a, crossed, FlushText(crossed)) /\ FlushText(crossed) \in Locals(a)
  BY <1>9, LaysFlush DEF Lays
<1>11. Lays(a, FlushText(crossed), [FlushText(crossed) EXCEPT !.textId = id])
  BY <1>5, <1>10, LaysUpdates
<1>12. Lays(a, crossed, adopted)
  <2>1. CASE id = crossed.textId
    BY <1>4, <1>9, <2>1, LaysSelf DEF AdoptTextId
  <2>2. CASE id # crossed.textId
    <3>1. adopted = [FlushText(crossed) EXCEPT !.textId = id]
      BY <1>4, <2>2 DEF AdoptTextId
    <3> QED BY <1>10, <1>11, <3>1, LaysTwice
  <2> QED BY <2>1, <2>2
<1>13. Lays(a, att[a], adopted) /\ adopted \in Locals(a)
  <2>1. Lays(a, att[a], adopted)
    BY <1>7, <1>8, <1>9, <1>12, LaysTwice
  <2> QED BY <2>1 DEF Lays
<1>14. att[a].tokens < MaxTokens /\ \E k \in PushText(adopted, Token(a)) : Set(a, k)
  BY <1>1, <1>2, <1>3, <1>4 DEF OnTextDelta
<1>15. PICK k \in PushText(adopted, Token(a)) : Set(a, k)
  BY <1>14
<1>16. adopted.tokens < MaxTokens
  <2>1. l.tokens = att[a].tokens
    BY <1>2 DEF Locals
  <2>2. FlushReasoning(l).tokens = l.tokens
    BY <1>7, FlushIs DEF SameButBuffers
  <2>3. crossed.tokens = l.tokens
    BY <1>3, <1>8, <2>2 DEF Locals
  <2>4. FlushText(crossed).tokens = crossed.tokens
    BY <1>9, FlushIs DEF SameButBuffers
  <2>5. [FlushText(crossed) EXCEPT !.textId = id].tokens = crossed.tokens
    BY <1>10, <2>4 DEF Locals
  <2>6. adopted.tokens = crossed.tokens
    BY <1>4, <2>5 DEF AdoptTextId
  <2> QED BY <1>14, <2>1, <2>3, <2>6
<1>17. Lays(a, adopted, k)
  BY <1>13, <1>16, TokenIs, LaysPushed
<1> QED BY <1>13, <1>15, <1>17, LaysTwice DEF LaysNext

LEMMA ReasoningDeltaLays ==
    ASSUME NEW a, att[a] \in Locals(a), NEW id \in PartIds, OnReasoningDelta(a, id)
    PROVE  LaysNext(a)
<1>1. PICK adopted : adopted = AdoptReasoningId(att[a], id)
  OBVIOUS
<1>2. PICK c : c = CollectReasoning(adopted.coll, <<Token(a)>>, id, att[a].step)
  OBVIOUS
<1>3. PICK l : l = [adopted EXCEPT !.coll = c]
  OBVIOUS
<1>4. PICK crossed : crossed = CrossReasoning(l)
  OBVIOUS
<1>5. id \in Ids /\ None \in Ids
  BY DEF Ids
<1>6. Lays(a, att[a], FlushReasoning(att[a])) /\ FlushReasoning(att[a]) \in Locals(a)
      /\ FlushReasoning(att[a]).tokens = att[a].tokens
  BY LaysFlush, FlushIs DEF Lays, SameButBuffers
<1>7. Lays(a, att[a], adopted) /\ adopted \in Locals(a) /\ adopted.tokens = att[a].tokens
  <2>1. CASE id = att[a].reasoningId
    BY <1>1, <2>1, LaysSelf DEF AdoptReasoningId
  <2>2. CASE id # att[a].reasoningId
    <3>1. adopted = [FlushReasoning(att[a]) EXCEPT !.reasoningId = id]
      BY <1>1, <2>2 DEF AdoptReasoningId
    <3>2. Lays(a, FlushReasoning(att[a]), adopted)
      BY <1>5, <1>6, <3>1, LaysUpdates
    <3>3. adopted.tokens = FlushReasoning(att[a]).tokens
      BY <1>6, <3>1 DEF Locals
    <3>4. Lays(a, att[a], adopted) /\ adopted \in Locals(a)
      BY <1>6, <3>2, LaysTwice DEF Lays
    <3> QED BY <1>6, <3>3, <3>4
  <2> QED BY <2>1, <2>2
<1>8. /\ c \in Collectors({a}) /\ Grows({a}, adopted.coll.parts, c.parts, att[a].step, {})
      /\ adopted.step = att[a].step
  <2>1. adopted.coll \in Collectors({a}) /\ att[a].step \in Nat
        /\ <<Token(a)>> \in Texts({a}) /\ <<Token(a)>> \in Seq(TokensOf({a}))
    BY <1>7, LocalFields, TokenIs DEF Texts
  <2>2. adopted.step = att[a].step
    BY <1>7 DEF Lays, SameCallWork
  <2> QED BY <1>2, <1>5, <2>1, <2>2, CollectReasoningIs, TextGrows
<1>9. Lays(a, adopted, l) /\ l \in Locals(a)
  BY <1>3, <1>7, <1>8, LaysUpdates DEF Lays
<1>10. Lays(a, l, FlushText(l)) /\ FlushText(l) \in Locals(a)
  BY <1>9, LaysFlush DEF Lays
<1>11. Lays(a, FlushText(l), crossed) /\ crossed \in Locals(a)
  BY <1>4, <1>5, <1>10, LaysUpdates DEF CrossReasoning, Lays
<1>12. Lays(a, att[a], crossed)
  BY <1>7, <1>9, <1>10, <1>11, LaysTwice
<1>13. att[a].tokens < MaxTokens /\ \E k \in PushReasoning(crossed, Token(a)) : Set(a, k)
  BY <1>1, <1>2, <1>3, <1>4 DEF OnReasoningDelta
<1>14. PICK k \in PushReasoning(crossed, Token(a)) : Set(a, k)
  BY <1>13
<1>15. crossed.tokens < MaxTokens
  <2>1. l.tokens = adopted.tokens
    BY <1>3, <1>7 DEF Locals
  <2>2. FlushText(l).tokens = l.tokens
    BY <1>9, FlushIs DEF SameButBuffers
  <2>3. crossed.tokens = FlushText(l).tokens
    BY <1>4, <1>10 DEF Locals, CrossReasoning
  <2> QED BY <1>7, <1>13, <2>1, <2>2, <2>3
<1>16. Lays(a, crossed, k)
  BY <1>11, <1>15, TokenIs, LaysPushed
<1> QED BY <1>12, <1>14, <1>16, LaysTwice DEF LaysNext

LEMMA TextMetadataLays ==
    ASSUME NEW a, att[a] \in Locals(a), OnTextMetadata(a)
    PROVE  LaysNext(a)
  BY LaysFlush DEF OnTextMetadata, LaysNext

LEMMA ReasoningMetadataLays ==
    ASSUME NEW a, att[a] \in Locals(a), NEW id \in PartIds, OnReasoningMetadata(a, id)
    PROVE  LaysNext(a)
<1>1. PICK started : started = IF StartsReasoningPart(att[a].coll, id)
                               THEN FlushText(att[a]) ELSE att[a]
  OBVIOUS
<1>2. PICK l : l = BeforeWithheld(att[a], id)
  OBVIOUS
<1>3. Lays(a, att[a], started) /\ started \in Locals(a) /\ started.tokens = att[a].tokens
  <2>1. FlushText(att[a]).tokens = att[a].tokens
    BY FlushIs DEF SameButBuffers
  <2> QED BY <1>1, <2>1, LaysFlush, LaysSelf DEF Lays
<1>4. l = FlushReasoning(started)
  BY <1>1, <1>2 DEF BeforeWithheld
<1>5. Lays(a, att[a], l) /\ l \in Locals(a) /\ l.tokens < MaxTokens
  <2>1. Lays(a, started, l) /\ l.tokens = started.tokens
    BY <1>3, <1>4, LaysFlush, FlushIs DEF SameButBuffers
  <2>2. att[a].tokens < MaxTokens
    BY DEF OnReasoningMetadata
  <2>3. Lays(a, att[a], l) /\ l \in Locals(a)
    BY <1>3, <2>1, LaysTwice DEF Lays
  <2> QED BY <1>3, <2>1, <2>2, <2>3
<1>6. id \in Ids /\ l.step \in Nat /\ l.chain \in Seq(StreamEvents({a}))
      /\ l.coll \in Collectors({a}) /\ l.tokens \in 0..MaxTokens
  BY <1>5, LocalFields DEF Ids
<1>7. PICK e : e = Delta("reasoning.delta", <<>>, id, l.step)
  OBVIOUS
<1>8. e \in StreamEvents({a}) /\ e.type # "tool.requested" /\ e.step = l.step
  <2>1. <<>> \in Seq(TokensOf({a}))
    OBVIOUS
  <2>2. e.type = "reasoning.delta" /\ e.step = l.step
    BY <1>7 DEF Delta, Event
  <2> QED BY <1>6, <1>7, <2>1, <2>2, StreamEventsAre
<1>9. PICK c : c = CollectWithheld(l.coll, id, l.step)
  OBVIOUS
<1>10. c \in Collectors({a}) /\ Grows({a}, l.coll.parts, c.parts, l.step, {})
  <2>1. <<>> \in Texts({a})
    BY DEF Texts
  <2> QED BY <1>6, <1>9, <2>1, CollectWithheldType, TextGrows
<1>11. PICK chain : chain = Append(l.chain, e)
  OBVIOUS
<1>12. chain \in Seq(StreamEvents({a}))
  BY <1>6, <1>8, <1>11
<1>13. PICK m : m = [l EXCEPT !.chain = chain]
  OBVIOUS
<1>14. m \in Locals(a) /\ m.chain = chain /\ m.coll = l.coll /\ SameCallWork(l, m)
  <2>1. m \in Locals(a)
    BY <1>5, <1>12, <1>13, LocalUpdates
  <2>2. m.chain = chain /\ m.coll = l.coll /\ SameCallWork(l, m)
    BY <1>5, <1>13 DEF Locals, SameCallWork
  <2> QED BY <2>1, <2>2
<1>15. Lays(a, l, m)
  BY <1>5, <1>8, <1>11, <1>14, LaysEnqueued
<1>16. PICK k : k = [m EXCEPT !.coll = c, !.tokens = l.tokens + 1]
  OBVIOUS
<1>17. k \in Locals(a) /\ k.chain = m.chain /\ k.coll = c /\ SameCallWork(m, k)
  <2>1. l.tokens + 1 \in 0..MaxTokens
    BY <1>5, <1>6, TranscriptAssumption
  <2>2. [m EXCEPT !.coll = c] \in Locals(a)
    BY <1>10, <1>14, LocalUpdates
  <2>3. [[m EXCEPT !.coll = c] EXCEPT !.tokens = l.tokens + 1] \in Locals(a)
    BY <2>1, <2>2, LocalUpdates
  <2>4. k \in Locals(a)
    BY <1>16, <2>3
  <2>5. k.chain = m.chain /\ k.coll = c /\ SameCallWork(m, k)
    BY <1>14, <1>16 DEF Locals, SameCallWork
  <2> QED BY <2>4, <2>5
<1>18. Lays(a, m, k)
  <2>1. Grows({a}, m.coll.parts, k.coll.parts, m.step, {})
    BY <1>10, <1>14, <1>17 DEF SameCallWork
  <2> QED BY <1>14, <1>17, <2>1, LaysGrown
<1>19. Set(a, k)
  <2>1. Set(a, [Enqueue(l, e) EXCEPT !.coll = CollectWithheld(@, id, l.step), !.tokens = @ + 1])
    BY <1>2, <1>7 DEF OnReasoningMetadata
  <2>2. Enqueue(l, e) = m
    BY <1>11, <1>13 DEF Enqueue
  <2>3. m.coll = l.coll /\ m.tokens = l.tokens
    BY <1>5, <1>13 DEF Locals
  <2>4. [m EXCEPT !.coll = CollectWithheld(@, id, l.step), !.tokens = @ + 1]
          = [m EXCEPT !.coll = c, !.tokens = l.tokens + 1]
    BY <1>9, <2>3
  <2> QED BY <1>16, <2>1, <2>2, <2>4
<1> QED BY <1>5, <1>15, <1>18, <1>19, LaysTwice DEF LaysNext

-----------------------------------------------------------------------------
(* Requests and outcomes.                                                  *)

(* The parts of a call are of the current step.                            *)
CurrentCall(a, l, c) ==
    \A p \in Range(l.coll.parts) : p.kind \in CallParts /\ p.call = <<a, c>> => p.step = l.step

LEMMA RequestKept ==
    ASSUME NEW a, NEW s \in Windows(a), NEW l \in Locals(a), NEW shown \in Seq(Parts({a})),
           Kept(a, s, l, shown), NEW c \in Calls, CurrentCall(a, l, c), l.calls[c] # "settled",
           NEW e \in StreamEvents({a}), e = RequestEvent(a, c, l.step)
    PROVE  /\ Ordered(s \o Append(l.chain, e), l.step, shown)
           /\ Matched(l.coll.parts, s \o Append(l.chain, e))
<1> DEFINE q == s \o l.chain
<1>1. q \in Seq(Events({a})) /\ e \in Events({a}) /\ s \o Append(l.chain, e) = Append(q, e)
  BY ChainAppends
<1>2. l.step \in Nat
  BY LocalFields
<1>3. e.type = "tool.requested" /\ e.call = <<a, c>> /\ e.step = l.step
  <2> QED BY ONLY e = RequestEvent(a, c, l.step) DEF RequestEvent, ToolEvent, Event
<1> HIDE DEF q
<1>4. Ordered(q, l.step, shown) /\ Matched(l.coll.parts, q) /\ ShownSettled(a, l.calls, shown)
  BY DEF Kept, q
<1>5. e.call \notin CallsIn(shown)
  BY <1>3, <1>4 DEF ShownSettled
<1>6. Ordered(Append(q, e), l.step, shown)
  BY <1>1, <1>2, <1>3, <1>4, <1>5, OrderedAppend
<1>7. Matched(l.coll.parts, Append(q, e))
  BY <1>1, <1>3, <1>4, MatchedAppend DEF CurrentCall
<1> QED BY <1>1, <1>6, <1>7

(* An event that is neither dated nor a request changes nothing.           *)
LEMMA MarkKept ==
    ASSUME NEW a, NEW s \in Windows(a), NEW chain \in Seq(StreamEvents({a})),
           NEW n \in Nat, NEW shown \in Seq(Parts({a})), NEW parts,
           Ordered(s \o chain, n, shown), Matched(parts, s \o chain),
           NEW e \in StreamEvents({a}), ~Dated(e)
    PROVE  /\ Ordered(s \o Append(chain, e), n, shown)
           /\ Matched(parts, s \o Append(chain, e))
<1> DEFINE q == s \o chain
<1>1. e \in Events({a}) /\ s \in Seq(Events({a})) /\ chain \in Seq(Events({a}))
  <2>1. StreamEvents({a}) \subseteq Events({a})
    BY DEF Events
  <2>2. Seq(StreamEvents({a})) \subseteq Seq(Events({a}))
    BY <2>1, SeqMonotone
  <2> QED BY <2>1, <2>2 DEF Windows
<1>2. ASSUME NEW T, NEW u \in Seq(T), NEW v \in Seq(T), NEW x \in T
      PROVE  u \o v \in Seq(T) /\ u \o Append(v, x) = Append(u \o v, x)
  OBVIOUS
<1>3. q \in Seq(Events({a})) /\ s \o Append(chain, e) = Append(q, e)
  BY ONLY <1>1, <1>2
<1>4. e.type # "tool.requested"
  BY DEF Dated
<1> HIDE DEF q
<1>5. Ordered(q, n, shown) /\ Matched(parts, q)
  BY DEF q
<1>6. Ordered(Append(q, e), n, shown)
  BY <1>1, <1>3, <1>4, <1>5, OrderedAppend
<1>7. Matched(parts, Append(q, e))
  BY <1>1, <1>3, <1>4, <1>5, MatchedAppend
<1> QED BY <1>3, <1>6, <1>7

(* The states of the calls that matter.                                    *)
SafeCalls(l, k) ==
    \A d \in Calls : /\ k.calls[d] # "thrown"
                     /\ k.calls[d] = "resolving" => l.calls[d] = "resolving"
                     /\ l.calls[d] = "settled" => k.calls[d] = "settled"

LEMMA CallsKept ==
    ASSUME NEW a, NEW s, NEW l, NEW shown, Kept(a, s, l, shown), NEW k, SafeCalls(l, k),
           k.failed = l.failed
    PROVE  /\ Unthrown(k) /\ ShownSettled(a, k.calls, shown)
           /\ Unresolved(a, l.coll.parts, k.calls, l.step)
<1>1. Unthrown(k)
  BY DEF Kept, Unthrown, SafeCalls
<1>2. ShownSettled(a, k.calls, shown)
  BY DEF Kept, ShownSettled, SafeCalls
<1>3. Unresolved(a, l.coll.parts, k.calls, l.step)
  BY DEF Kept, Unresolved, SafeCalls
<1> QED BY <1>1, <1>2, <1>3

LEMMA AdmittedKept ==
    ASSUME NEW a, NEW s \in Windows(a), NEW l \in Locals(a), NEW shown \in Seq(Parts({a})),
           Kept(a, s, l, shown), NEW c \in Calls, CurrentCall(a, l, c), l.calls[c] # "settled",
           NEW ok \in BOOLEAN
    PROVE  Kept(a, s, Admit(a, l, c, ok), shown)
<1> DEFINE k == Admit(a, l, c, ok)
           e == RequestEvent(a, c, l.step)
           f == ToolEvent("tool.started", <<a, c>>)
<1>1. Admitted(a, l, c, ok, k) /\ e \in StreamEvents({a}) /\ f \in StreamEvents({a})
  BY AdmitIs
<1>2. ~Dated(f)
  BY DEF Dated, ToolEvent, Event
<1> HIDE DEF k, f
<1>3. /\ Ordered(s \o Append(l.chain, e), l.step, shown)
      /\ Matched(l.coll.parts, s \o Append(l.chain, e))
  BY <1>1, RequestKept
<1> HIDE DEF e
<1>4. Append(l.chain, e) \in Seq(StreamEvents({a})) /\ l.step \in Nat
  <2>1. l.chain \in Seq(StreamEvents({a})) /\ l.step \in Nat
    BY LocalFields
  <2> QED BY ONLY <1>1, <2>1
<1>5. /\ Ordered(s \o Append(Append(l.chain, e), f), l.step, shown)
      /\ Matched(l.coll.parts, s \o Append(Append(l.chain, e), f))
  <2> DEFINE chain == Append(l.chain, e)
  <2> HIDE DEF chain
  <2>1. Ordered(s \o chain, l.step, shown) /\ Matched(l.coll.parts, s \o chain)
        /\ chain \in Seq(StreamEvents({a}))
    BY <1>3, <1>4 DEF chain
  <2>2. /\ Ordered(s \o Append(chain, f), l.step, shown)
        /\ Matched(l.coll.parts, s \o Append(chain, f))
    BY <1>1, <1>2, <1>4, <2>1, MarkKept
  <2> QED BY <2>2 DEF chain
<1>6. /\ k.coll = l.coll /\ k.step = l.step /\ k.failed = l.failed
      /\ \/ k.chain = Append(l.chain, e)
         \/ k.chain = Append(Append(l.chain, e), f)
  BY <1>1 DEF Admitted, SameButWork, e, f
<1>7. SafeCalls(l, k)
  <2>1. \A d \in Calls : l.calls[d] # "thrown"
    BY DEF Kept, Unthrown
  <2> QED BY <1>1, <2>1 DEF Admitted, SafeCalls
<1>8. /\ Unthrown(k) /\ ShownSettled(a, k.calls, shown)
      /\ Unresolved(a, l.coll.parts, k.calls, l.step)
  BY <1>6, <1>7, CallsKept
<1>9. Ordered(s \o k.chain, l.step, shown) /\ Matched(l.coll.parts, s \o k.chain)
  BY <1>3, <1>5, <1>6
<1>10. Laid(l.coll.parts, l.step)
  BY DEF Kept
<1> QED BY <1>6, <1>8, <1>9, <1>10 DEF Kept, k

LEMMA RecordedKept ==
    ASSUME NEW a, NEW s \in Windows(a), NEW l \in Locals(a), NEW shown \in Seq(Parts({a})),
           Kept(a, s, l, shown), NEW c \in Calls, NEW result \in Results
    PROVE  Kept(a, s, RecordCompleted(a, l, c, result), shown)
<1> DEFINE k == RecordCompleted(a, l, c, result)
           e == Completed(<<a, c>>, result)
<1>1. Recorded(a, l, c, result, k) /\ e \in StreamEvents({a})
  BY RecordCompletedIs
<1>2. ~Dated(e)
  BY DEF Dated, Completed, ToolEvent, Event
<1> HIDE DEF k
<1>3. /\ k.step = l.step /\ k.failed = l.failed /\ k.chain = Append(l.chain, e)
      /\ k.coll = SettleTool(l.coll, <<a, c>>, result)
  BY <1>1 DEF Recorded, SameButWork
<1> HIDE DEF e
<1>4. /\ l.chain \in Seq(StreamEvents({a})) /\ l.step \in Nat /\ l.coll \in Collectors({a})
      /\ l.coll.parts \in Seq(Parts({a})) /\ <<a, c>> \in CallsOf({a})
  BY LocalFields DEF Collectors, CallsOf
<1>5. Ordered(s \o l.chain, l.step, shown) /\ Matched(l.coll.parts, s \o l.chain)
  BY DEF Kept
<1>6. Ordered(s \o k.chain, l.step, shown) /\ Matched(l.coll.parts, s \o k.chain)
  BY <1>1, <1>2, <1>3, <1>4, <1>5, MarkKept
<1>7. Grown(l.coll.parts, k.coll.parts, l.step, {})
  <2>1. k.coll.parts \in Seq(Parts({a})) /\ Alike(l.coll.parts, k.coll.parts)
    BY <1>3, <1>4, CallGrows
  <2>2. Grows({a}, l.coll.parts, k.coll.parts, l.step, {})
    BY <2>1 DEF Grows
  <2> QED BY <1>4, <2>2, GrownParts
<1>8. SafeCalls(l, k)
  <2>1. \A d \in Calls : l.calls[d] # "thrown"
    BY DEF Kept, Unthrown
  <2> QED BY <1>1, <2>1 DEF Recorded, SafeCalls
<1>9. /\ Unthrown(k) /\ ShownSettled(a, k.calls, shown)
      /\ Unresolved(a, l.coll.parts, k.calls, l.step)
  BY <1>3, <1>8, CallsKept
<1>10. Laid(l.coll.parts, l.step)
  BY DEF Kept
<1>11. /\ Laid(k.coll.parts, l.step) /\ Matched(k.coll.parts, s \o k.chain)
       /\ Unresolved(a, k.coll.parts, k.calls, l.step)
  BY <1>6, <1>7, <1>9, <1>10 DEF Grown
<1> QED BY <1>3, <1>6, <1>9, <1>11 DEF Kept, k

(* The calls settled at once.                                              *)
LEMMA SettleOpenKept ==
    ASSUME NEW a, NEW s \in Windows(a), NEW l \in Locals(a), NEW shown \in Seq(Parts({a})),
           Kept(a, s, l, shown), NEW cs
    PROVE  Kept(a, s, SettleOpen(a, l, cs), shown) /\ SettleOpen(a, l, cs) \in Locals(a)
<1> DEFINE G == {k \in Locals(a) : Kept(a, s, k, shown)}
<1>1. l \in G
  OBVIOUS
<1>2. ASSUME NEW k \in Locals(a), NEW c \in Calls, k \in G
      PROVE  RecordCompleted(a, k, c, "cancelled") \in G
  <2>1. "cancelled" \in Results
    BY DEF Results
  <2> QED BY <1>2, <2>1, RecordedKept, RecordCompletedIs
<1>3. \A k \in Locals(a) : \A c \in Calls :
         k \in G /\ k.calls[c] \in OpenStates => RecordCompleted(a, k, c, "cancelled") \in G
  BY ONLY <1>2
<1> HIDE DEF G
<1>4. SettleOpen(a, l, cs) \in G /\ SettleOpen(a, l, cs) \in Locals(a)
  BY ONLY <1>1, <1>3, l \in Locals(a), SettleOpenKeeps
<1> QED BY <1>4 DEF G

-----------------------------------------------------------------------------
(* The calls of a turn, from their place to their outcome.                 *)

LEMMA PartBooked ==
    ASSUME NEW parts, NEW p \in Range(parts), p.kind \in CallParts
    PROVE  p.call \in PendingIn(parts) \cup CallsIn(parts)
<1>1. PICK i \in DOMAIN parts : p = parts[i]
  BY DEF Range
<1> QED BY <1>1 DEF CallParts, PendingIn, CallsIn

LEMMA ReserveKept ==
    ASSUME NEW a, att[a] \in Locals(a), NEW s \in Windows(a), NEW shown \in Seq(Parts({a})),
           Kept(a, s, att[a], shown), Booked(a, att[a]),
           NEW c \in Calls, att[a].calls[c] = "none", <<a, c>> \notin RequestedIn(s)
    PROVE  /\ Kept(a, s, Reserve(a, c), shown) /\ Reserve(a, c) \in Locals(a)
           /\ CurrentCall(a, Reserve(a, c), c) /\ Reserve(a, c).calls[c] = "none"
<1>1. PICK l : l = att[a]
  OBVIOUS
<1>2. PICK m : m = Flush(l)
  OBVIOUS
<1>3. PICK k : k = Reserve(a, c)
  OBVIOUS
<1>4. l \in Locals(a) /\ Lays(a, l, m) /\ Still(a, l, m)
  BY <1>1, <1>2, LaysFlush, StillFlush
<1>5. m \in Locals(a) /\ Kept(a, s, m, shown) /\ SameCallWork(l, m)
  BY <1>1, <1>4 DEF Lays
<1>6. k \in Locals(a) /\ ReservedFrom(a, l, c, k)
  BY <1>1, <1>3, ReserveIs
<1>7. /\ k.coll = ReserveTool(m.coll, <<a, c>>, m.step) /\ k.chain = m.chain
      /\ k.calls = m.calls /\ k.failed = m.failed /\ k.step = m.step
  BY <1>2, <1>5, <1>6 DEF ReservedFrom, SameCallWork
<1>8. /\ m.coll \in Collectors({a}) /\ m.coll.parts \in Seq(Parts({a})) /\ m.step \in Nat
      /\ <<a, c>> \in CallsOf({a}) /\ m.chain \in Seq(StreamEvents({a})) /\ "ok" \in Results
  BY <1>5, LocalFields DEF Collectors, CallsOf, Results
<1>9. Grown(m.coll.parts, k.coll.parts, m.step, {<<a, c>>})
  <2>1. Grows({a}, m.coll.parts, k.coll.parts, m.step, {<<a, c>>})
    BY <1>7, <1>8, CallGrows
  <2> QED BY <1>8, <2>1, GrownParts
<1>10. /\ <<a, c>> \notin RequestedIn(m.chain)
       /\ <<a, c>> \notin PendingIn(m.coll.parts) /\ <<a, c>> \notin CallsIn(m.coll.parts)
  BY <1>1, <1>4 DEF Booked, BookedAt, Still, SameBooks
<1>11. \A e \in Range(s \o m.chain) : e.type = "tool.requested" => e.call \notin {<<a, c>>}
  <2>1. s \in Seq(Events({a})) /\ m.chain \in Seq(Events({a}))
    <3>1. StreamEvents({a}) \subseteq Events({a})
      BY DEF Events
    <3>2. Seq(StreamEvents({a})) \subseteq Seq(Events({a}))
      BY <3>1, SeqMonotone
    <3> QED BY ONLY <1>8, <3>2, s \in Windows(a) DEF Windows
  <2>2. <<a, c>> \notin RequestedIn(s) \cup RequestedIn(m.chain)
    BY <1>10
  <2>3. <<a, c>> \notin RequestedIn(s \o m.chain)
    BY ONLY <2>1, <2>2, RequestedConcat
  <2> QED BY ONLY <2>3 DEF RequestedIn
<1>12. /\ Laid(k.coll.parts, m.step) /\ Matched(k.coll.parts, s \o m.chain)
       /\ Unresolved(a, k.coll.parts, m.calls, m.step)
  BY <1>5, <1>9, <1>11 DEF Kept, Grown
<1>13. Kept(a, s, k, shown)
  BY <1>5, <1>7, <1>12 DEF Kept, Unthrown
<1>14. CurrentCall(a, k, c)
  <2> SUFFICES ASSUME NEW p \in Range(k.coll.parts), p.kind \in CallParts, p.call = <<a, c>>
               PROVE  p.step = k.step
    BY DEF CurrentCall
  <2>1. PICK x : x = Pending(<<a, c>>, m.step)
    OBVIOUS
  <2>2. /\ k.coll.parts = Append(m.coll.parts, Pending(<<a, c>>, m.step))
        /\ Pending(<<a, c>>, m.step) \in Parts({a})
    <3>1. ASSUME NEW y \in Collectors({a}), NEW call \in CallsOf({a}), NEW n \in Nat
          PROVE  /\ ReserveTool(y, call, n).parts = Append(y.parts, Pending(call, n))
                 /\ Pending(call, n) \in Parts({a})
      BY ONLY ReserveFields
    <3>2. m.coll \in Collectors({a}) /\ <<a, c>> \in CallsOf({a}) /\ m.step \in Nat
      BY <1>8
    <3>3. k.coll = ReserveTool(m.coll, <<a, c>>, m.step)
      BY <1>7
    <3> QED BY ONLY <3>1, <3>2, <3>3
  <2>3. x \in Parts({a}) /\ x.step = m.step /\ k.coll.parts = Append(m.coll.parts, x)
    BY <2>1, <2>2 DEF Pending
  <2>4. p \in Range(m.coll.parts) \/ p = x
    BY <1>8, <2>3, AppendedRange
  <2>5. p \notin Range(m.coll.parts)
    BY <1>10, PartBooked
  <2> QED BY <1>7, <2>3, <2>4, <2>5
<1>15. k.calls[c] = "none"
  BY <1>1, <1>5, <1>7 DEF SameCallWork
<1> QED BY <1>3, <1>6, <1>13, <1>14, <1>15

(* A call recorded as requested and not yet admitted.                      *)
LEMMA RequestedKept ==
    ASSUME NEW a, NEW s \in Windows(a), NEW l \in Locals(a), NEW shown \in Seq(Parts({a})),
           Kept(a, s, l, shown), NEW c \in Calls, CurrentCall(a, l, c), l.calls[c] # "settled"
    PROVE  Kept(a, s, Requested(a, l, c), shown) /\ Requested(a, l, c) \in Locals(a)
<1>1. PICK k : k = Requested(a, l, c)
  OBVIOUS
<1>2. PICK e : e = RequestEvent(a, c, l.step)
  OBVIOUS
<1>3. PICK chain : chain = Append(l.chain, e)
  OBVIOUS
<1>4. k \in Locals(a) /\ k = [l EXCEPT !.chain = chain] /\ e \in StreamEvents({a})
  BY <1>1, <1>2, <1>3, RequestedIs
<1>5. /\ k.chain = chain /\ k.coll = l.coll /\ k.step = l.step /\ k.calls = l.calls
      /\ k.failed = l.failed
  BY ONLY <1>4, l \in Locals(a) DEF Locals
<1>6. Ordered(s \o chain, l.step, shown) /\ Matched(l.coll.parts, s \o chain)
  BY <1>2, <1>3, <1>4, RequestKept
<1>7. Kept(a, s, k, shown)
  BY <1>5, <1>6 DEF Kept, Unthrown
<1> QED BY <1>1, <1>4, <1>7

Yields(a, s, shown) == \E k \in Locals(a) : Set(a, k) /\ Kept(a, s, k, shown)

LEMMA ResolvingKept ==
    ASSUME NEW a, NEW s \in Windows(a), NEW l \in Locals(a), NEW shown \in Seq(Parts({a})),
           Kept(a, s, l, shown), NEW c \in Calls, CurrentCall(a, l, c), l.calls[c] # "settled"
    PROVE  /\ [l EXCEPT !.calls[c] = "resolving"] \in Locals(a)
           /\ Kept(a, s, [l EXCEPT !.calls[c] = "resolving"], shown)
<1>1. PICK calls : calls = [l.calls EXCEPT ![c] = "resolving"]
  OBVIOUS
<1>2. PICK k : k = [l EXCEPT !.calls = calls]
  OBVIOUS
<1>3. k = [l EXCEPT !.calls[c] = "resolving"]
  BY <1>1, <1>2
<1>4. l.calls \in [Calls -> CallState] /\ calls \in [Calls -> CallState]
  <2>1. l.calls \in [Calls -> CallState]
    BY LocalFields
  <2>2. "resolving" \in CallState
    BY DEF CallState
  <2> QED BY <1>1, <2>1, <2>2
<1>5. k \in Locals(a)
  BY <1>2, <1>4, LocalUpdates
<1>6. /\ k.calls = calls /\ k.coll = l.coll /\ k.step = l.step /\ k.chain = l.chain
      /\ k.failed = l.failed
  BY ONLY <1>2, l \in Locals(a) DEF Locals
<1>7. \A d \in Calls : calls[d] = IF d = c THEN "resolving" ELSE l.calls[d]
  BY <1>1, <1>4
<1>8. Unthrown(k)
  BY <1>6, <1>7 DEF Kept, Unthrown
<1>9. ShownSettled(a, k.calls, shown)
  BY <1>6, <1>7 DEF Kept, ShownSettled
<1>10. Unresolved(a, k.coll.parts, k.calls, k.step)
  BY <1>6, <1>7 DEF Kept, Unresolved, CurrentCall
<1>11. Kept(a, s, k, shown)
  BY <1>6, <1>8, <1>9, <1>10 DEF Kept
<1> QED BY <1>3, <1>5, <1>11

LEMMA CallToolKept ==
    ASSUME NEW a, att[a] \in Locals(a), NEW s \in Windows(a), NEW shown \in Seq(Parts({a})),
           Kept(a, s, att[a], shown), Booked(a, att[a]),
           NEW c \in Calls, att[a].calls[c] = "none" => <<a, c>> \notin RequestedIn(s),
           NEW kind \in CallKinds, CallTool(a, c, kind)
    PROVE  Yields(a, s, shown)
<1>1. PICK l : l = Reserve(a, c)
  OBVIOUS
<1>2. att[a].calls[c] = "none"
  BY DEF CallTool
<1>3. Kept(a, s, l, shown) /\ l \in Locals(a) /\ CurrentCall(a, l, c) /\ l.calls[c] # "settled"
  BY <1>1, <1>2, ReserveKept
<1>4. kind \in AllCallKinds
  BY TranscriptAssumption
<1>5. Set(a, CASE kind = "allow"       -> Admit(a, l, c, TRUE)
               [] kind = "deny"        -> Admit(a, l, c, FALSE)
               [] kind = "unavailable" ->
                    RecordCompleted(a, Requested(a, l, c), c, "unavailable")
               [] kind = "refuse"      -> RecordCompleted(a, l, c, "refused")
               [] kind = "resolve"     -> [l EXCEPT !.calls[c] = "resolving"])
  BY <1>1 DEF CallTool
<1>6. ASSUME NEW ok \in BOOLEAN, Set(a, Admit(a, l, c, ok))
      PROVE  Yields(a, s, shown)
  BY <1>3, <1>6, AdmittedKept, AdmitIs DEF Yields
<1>7. "unavailable" \in Results /\ "refused" \in Results
  BY DEF Results
<1>8. CASE kind = "allow"
  BY <1>5, <1>6, <1>8
<1>9. CASE kind = "deny"
  BY <1>5, <1>6, <1>9
<1>10. CASE kind = "unavailable"
  <2>1. PICK m : m = Requested(a, l, c)
    OBVIOUS
  <2>2. m \in Locals(a) /\ Kept(a, s, m, shown)
    BY <1>3, <2>1, RequestedKept
  <2>3. Set(a, RecordCompleted(a, m, c, "unavailable"))
    BY <1>5, <1>10, <2>1
  <2> QED BY <1>7, <2>2, <2>3, RecordedKept, RecordCompletedIs DEF Yields
<1>11. CASE kind = "refuse"
  <2>1. Set(a, RecordCompleted(a, l, c, "refused"))
    BY <1>5, <1>11
  <2> QED BY <1>3, <1>7, <2>1, RecordedKept, RecordCompletedIs DEF Yields
<1>12. CASE kind = "resolve"
  <2>1. Set(a, [l EXCEPT !.calls[c] = "resolving"])
    BY <1>5, <1>12
  <2> QED BY <1>3, <2>1, ResolvingKept DEF Yields
<1> QED BY <1>4, <1>8, <1>9, <1>10, <1>11, <1>12 DEF AllCallKinds

LEMMA ResolveCallKept ==
    ASSUME NEW a, att[a] \in Locals(a), NEW s \in Windows(a), NEW shown \in Seq(Parts({a})),
           Kept(a, s, att[a], shown), NEW c \in Calls, ResolveCall(a, c)
    PROVE  Yields(a, s, shown)
<1>1. PICK l : l = att[a]
  OBVIOUS
<1>2. /\ l.calls[c] = "resolving"
      /\ \/ \E allowed \in BOOLEAN : Set(a, Admit(a, l, c, allowed))
         \/ Set(a, RecordCompleted(a, l, c, "refused"))
  BY <1>1 DEF ResolveCall
<1>3. CurrentCall(a, l, c) /\ l.calls[c] # "settled"
  BY <1>1, <1>2 DEF Kept, Unresolved, CurrentCall
<1>4. "refused" \in Results
  BY DEF Results
<1>5. CASE Set(a, RecordCompleted(a, l, c, "refused"))
  BY <1>1, <1>4, <1>5, RecordedKept, RecordCompletedIs DEF Yields
<1>6. ASSUME NEW ok \in BOOLEAN, Set(a, Admit(a, l, c, ok))
      PROVE  Yields(a, s, shown)
  BY <1>1, <1>3, <1>6, AdmittedKept, AdmitIs DEF Yields
<1> QED BY <1>2, <1>5, <1>6

LEMMA CompleteToolKept ==
    ASSUME NEW a, att[a] \in Locals(a), NEW s \in Windows(a), NEW shown \in Seq(Parts({a})),
           Kept(a, s, att[a], shown), NEW c \in Calls, CompleteTool(a, c)
    PROVE  Yields(a, s, shown)
<1>1. PICK result : result = IF att[a].calls[c] = "running" THEN "ok" ELSE "denied"
  OBVIOUS
<1>2. result \in Results
  BY <1>1 DEF Results
<1>3. Set(a, RecordCompleted(a, att[a], c, result))
  BY <1>1 DEF CompleteTool
<1> QED BY <1>2, <1>3, RecordedKept, RecordCompletedIs DEF Yields

-----------------------------------------------------------------------------
(* The next step, and the item it stores.                                  *)

LEMMA OrderedNext ==
    ASSUME NEW a, NEW q \in Seq(Events({a})), NEW n \in Nat, NEW shown \in Seq(Parts({a})),
           Ordered(q, n, shown)
    PROVE  Ordered(q, n + 1, shown)
<1>1. Within(shown, n + 1)
  BY WithinNext DEF Ordered
<1>2. DatedWithin(q, n + 1)
  <2> SUFFICES ASSUME NEW e \in Range(q), Dated(e)
               PROVE  e.step <= n + 1
    BY DEF DatedWithin
  <2>1. e \in Events({a})
    BY DEF Range
  <2>2. e.step \in Nat
    BY <2>1 DEF Events, StreamEvents, Marks
  <2>3. e.step <= n
    BY DEF Ordered, DatedWithin
  <2> QED BY <2>2, <2>3
<1> QED BY <1>1, <1>2 DEF Ordered

LEMMA NewStepKept ==
    ASSUME NEW a, NEW s \in Windows(a), NEW l \in Locals(a), NEW shown \in Seq(Parts({a})),
           Kept(a, s, l, shown), l.step < MaxSteps, Awaited(l) = {}
    PROVE  /\ Kept(a, s, NewStep(l), shown) /\ NewStep(l) \in Locals(a)
           /\ NewStep(l).calls = l.calls /\ NewStep(l).step = l.step + 1
           /\ Laid(NewStep(l).coll.parts, l.step)
<1>1. PICK m : m = Flush(l)
  OBVIOUS
<1>2. PICK k : k = NewStep(l)
  OBVIOUS
<1>3. m \in Locals(a) /\ Kept(a, s, m, shown) /\ SameCallWork(l, m)
  BY <1>1, LaysFlush DEF Lays
<1>4. k \in Locals(a) /\ StepStarted(a, l, k)
  BY <1>2, NewStepIs
<1>5. PICK e : e = Event("run.step_cap_reached")
  OBVIOUS
<1>6. e \in StreamEvents({a}) /\ ~Dated(e)
  BY <1>5, StreamEventsAre DEF Dated, Event
<1>7. /\ k.coll = m.coll /\ k.step = l.step + 1 /\ k.calls = l.calls /\ k.failed = l.failed
      /\ k.chain = m.chain \/ k.chain = Append(m.chain, e)
      /\ m.step = l.step /\ m.calls = l.calls /\ m.failed = l.failed
  BY <1>1, <1>3, <1>4, <1>5 DEF StepStarted, SameCallWork
<1>8. /\ l.step \in Nat /\ m.coll.parts \in Seq(Parts({a})) /\ m.chain \in Seq(StreamEvents({a}))
      /\ k.chain \in Seq(StreamEvents({a})) /\ s \in Seq(Events({a}))
  BY <1>3, <1>4, LocalFields DEF Collectors, Windows
<1>9. Ordered(s \o m.chain, l.step, shown) /\ Matched(m.coll.parts, s \o m.chain)
      /\ Laid(m.coll.parts, l.step)
  BY <1>3, <1>7 DEF Kept
<1>10. Ordered(s \o k.chain, l.step, shown) /\ Matched(m.coll.parts, s \o k.chain)
  <2>1. CASE k.chain = m.chain
    BY <1>9, <2>1
  <2>2. CASE k.chain = Append(m.chain, e)
    BY <1>6, <1>8, <1>9, <2>2, MarkKept
  <2> QED BY <1>7, <2>1, <2>2
<1>11. Ordered(s \o k.chain, l.step + 1, shown)
  <2>1. s \o k.chain \in Seq(Events({a}))
    <3>1. StreamEvents({a}) \subseteq Events({a})
      BY DEF Events
    <3>2. k.chain \in Seq(Events({a}))
      BY ONLY <1>8, <3>1, SeqMonotone
    <3> QED BY ONLY <1>8, <3>2
  <2> QED BY ONLY <1>8, <1>10, <2>1, shown \in Seq(Parts({a})), OrderedNext
<1>12. Laid(m.coll.parts, l.step + 1)
  BY <1>8, <1>9, WithinNext DEF Laid
<1>13. Unresolved(a, m.coll.parts, l.calls, l.step + 1)
  <2>1. \A d \in Calls : l.calls[d] # "resolving"
    BY DEF Awaited
  <2> QED BY <2>1 DEF Unresolved
<1>14. Unthrown(k) /\ ShownSettled(a, k.calls, shown)
  BY <1>7 DEF Kept, Unthrown
<1>15. Kept(a, s, k, shown)
  BY <1>7, <1>10, <1>11, <1>12, <1>13, <1>14 DEF Kept
<1> QED BY <1>2, <1>4, <1>7, <1>9, <1>15

LEMMA StepStartKept ==
    ASSUME NEW a, att[a] \in Locals(a), NEW s \in Windows(a), NEW shown \in Seq(Parts({a})),
           Kept(a, s, att[a], shown), OnStepStart(a)
    PROVE  Yields(a, s, shown)
  BY NewStepKept DEF OnStepStart, Yields

(* Parts that hold every call a log requests cut it where their items are.  *)
LEMMA SeatedCuts ==
    ASSUME NEW A, NEW t \in Seq(Parts(A)), Seated(t), NEW q, Matched(t, q),
           \A e \in Range(q) : e.type = "tool.requested" =>
               e.step \in Nat /\ e.call \in CallsIn(t)
    PROVE  Cuts(t, q)
<1> SUFFICES ASSUME NEW i \in DOMAIN t, t[i].kind = "item",
                    NEW e \in Range(q), e.type = "tool.requested"
             PROVE  e.call \in CallsIn(SubSeq(t, 1, i)) <=> e.step < t[i].item
  BY DEF Cuts
<1>1. i \in 1..Len(t) /\ DOMAIN t = 1..Len(t) /\ Len(t) \in Nat
  OBVIOUS
<1>2. \A j \in 1..Len(t) : t[j] \in Parts(A) /\ t[j] \in Range(t)
  BY <1>1 DEF Range
<1>3. t[i].item \in Nat /\ e.step \in Nat
  BY <1>1, <1>2, PartSteps
<1>4. \A j \in 1..Len(t) : t[j].kind = "tool" /\ t[j].call = e.call => t[j].step = e.step
  BY <1>2 DEF Matched, CallParts
<1>5. /\ DOMAIN SubSeq(t, 1, i) = 1..i
      /\ \A j \in 1..i : SubSeq(t, 1, i)[j] = t[j] /\ j \in 1..Len(t)
  <2>1. i \in 0..Len(t) /\ 1 \in 1..(Len(t) + 1) /\ i - 1 + 1 = i /\ 1 - 1 = 0
    BY <1>1
  <2>2. /\ SubSeq(t, 1, i) \in Seq(Parts(A)) /\ Len(SubSeq(t, 1, i)) = i
        /\ \A j \in 1..i : SubSeq(t, 1, i)[j] = t[j]
    <3>1. /\ SubSeq(t, 1, i) \in Seq(Parts(A)) /\ Len(SubSeq(t, 1, i)) = i - 1 + 1
          /\ \A j \in 1..(i - 1 + 1) : SubSeq(t, 1, i)[j] = t[1 + j - 1]
      BY ONLY <1>1, <2>1, t \in Seq(Parts(A)), SubSeqIs
    <3>2. \A j \in 1..i : 1 + j - 1 = j
      BY <1>1
    <3> QED BY <2>1, <3>1, <3>2
  <2> QED BY ONLY <1>1, <2>2
<1>6. \A j \in 1..Len(t) : t[j].kind = "tool" => t[j].kind \in CallParts /\ t[j].kind \notin Aside
  BY DEF CallParts, Aside
<1>7. ASSUME e.step < t[i].item
      PROVE  e.call \in CallsIn(SubSeq(t, 1, i))
  <2>1. PICK j \in DOMAIN t : t[j].kind = "tool" /\ t[j].call = e.call
    BY DEF CallsIn
  <2>2. t[j].step < t[i].item /\ t[j].kind \in CallParts /\ t[j].kind \notin Aside
    BY <1>1, <1>4, <1>6, <1>7, <2>1
  <2>3. j < i
    BY <2>2 DEF Seated
  <2>4. j \in 1..i
    BY <1>1, <2>1, <2>3
  <2> QED BY <1>5, <2>1, <2>4 DEF CallsIn
<1>8. ASSUME e.call \in CallsIn(SubSeq(t, 1, i)), ~(e.step < t[i].item)
      PROVE  FALSE
  <2>1. PICK j \in 1..i : t[j].kind = "tool" /\ t[j].call = e.call
    BY <1>5, <1>8 DEF CallsIn
  <2>2. j \in 1..Len(t)
    BY <1>5
  <2>3. t[j].step = e.step /\ t[j].kind \notin Aside
    BY <1>4, <1>6, <2>1, <2>2
  <2>4. t[j].step >= t[i].item
    BY <1>3, <1>8, <2>3
  <2>5. i < j
    BY <1>1, <2>2, <2>3, <2>4 DEF Seated
  <2> QED BY <1>1, <2>2, <2>5
<1> QED BY <1>7, <1>8

(* Every call a turn requested has settled when its step ends.             *)
LEMMA StepsEnd ==
    ASSUME NEW a, NEW s \in Windows(a), NEW l \in Locals(a), Booked(a, l), Unthrown(l),
           Awaited(l) = {},
           \A c \in Calls : l.calls[c] = "none" => <<a, c>> \notin RequestedIn(s)
    PROVE  /\ \A e \in Range(s \o l.chain) : e.type = "tool.requested" =>
                  e.step \in Nat /\ e.call \in CallsIn(l.coll.parts)
           /\ \A call \in CallsIn(l.coll.parts) :
                  \E c \in Calls : call = <<a, c>> /\ l.calls[c] = "settled"
<1>1. l.chain \in Seq(Events({a})) /\ s \in Seq(Events({a}))
  <2>1. StreamEvents({a}) \subseteq Events({a})
    BY DEF Events
  <2>2. l.chain \in Seq(StreamEvents({a}))
    BY LocalFields
  <2>3. l.chain \in Seq(Events({a}))
    BY ONLY <2>1, <2>2, SeqMonotone
  <2> QED BY <2>3 DEF Windows
<1>2. \A c \in Calls : l.calls[c] \in {"none", "settled"}
  <2>1. l.calls \in [Calls -> CallState]
    BY LocalFields
  <2> QED BY <2>1 DEF Unthrown, Awaited, CallState
<1>3. ASSUME NEW e \in Range(s \o l.chain), e.type = "tool.requested"
      PROVE  e.step \in Nat /\ e.call \in CallsIn(l.coll.parts)
  <2>1. s \o l.chain \in Seq(Events({a}))
    BY ONLY <1>1
  <2>2. e \in Events({a})
    BY <2>1 DEF Range
  <2>3. e \in StreamEvents({a})
    BY <1>3, <2>2 DEF Events, Marks
  <2>4. e.step \in Nat /\ e.call \in CallsOf({a})
    BY <1>3, <2>3 DEF StreamEvents, CallTypes
  <2>5. PICK c \in Calls : e.call = <<a, c>>
    BY <2>4 DEF CallsOf
  <2>6. e.call \in RequestedIn(s \o l.chain)
    BY <1>3 DEF RequestedIn
  <2>7. e.call \in RequestedIn(s) \cup RequestedIn(l.chain)
    BY ONLY <1>1, <2>6, RequestedConcat
  <2>8. l.calls[c] # "none"
    BY <2>5, <2>7 DEF Booked, BookedAt
  <2> QED BY <1>2, <2>4, <2>5, <2>8 DEF Booked, BookedAt
<1>4. ASSUME NEW call \in CallsIn(l.coll.parts)
      PROVE  \E c \in Calls : call = <<a, c>> /\ l.calls[c] = "settled"
  <2>1. PICK i \in DOMAIN l.coll.parts : l.coll.parts[i].kind = "tool" /\ l.coll.parts[i].call = call
    BY DEF CallsIn
  <2>2. l.coll.parts \in Seq(Parts({a}))
    BY LocalFields DEF Collectors
  <2>3. l.coll.parts[i] \in Parts({a})
    BY <2>2
  <2>4. call \in CallsOf({a})
    BY <2>1, <2>3, PartSteps DEF CallParts
  <2>5. PICK c \in Calls : call = <<a, c>>
    BY <2>4 DEF CallsOf
  <2> QED BY <1>2, <2>5 DEF Booked, BookedAt
<1> QED BY <1>3, <1>4

(* The reply a step stores: its settled parts and an item behind them.      *)
LEMMA ShownParts ==
    ASSUME NEW A, NEW c \in Collectors(A), NEW n \in Nat, Laid(c.parts, n)
    PROVE  LET t == Append(PartsOf(c), Item(n + 1)) IN
           /\ t \in Seq(Parts(A)) /\ Seated(t) /\ Within(t, n + 1)
           /\ \A p \in Range(t) : p.kind \in CallParts => p \in Range(c.parts)
           /\ CallsIn(t) = CallsIn(c.parts)
<1>1. PICK u : u = PartsOf(c)
  OBVIOUS
<1>2. c.parts \in Seq(Parts(A))
  BY DEF Collectors
<1>3. u = Without(c.parts, {"pending-tool"})
  BY <1>1 DEF PartsOf
<1>4. /\ u \in Seq(Parts(A))
      /\ Range(u) = {p \in Range(c.parts) : p.kind \notin {"pending-tool"}}
  BY ONLY <1>2, <1>3, WithoutKeeps
<1>5. Seated(u) /\ Within(u, n)
  <2>1. Seated(u)
    BY <1>2, <1>3, WithoutSeated DEF Laid
  <2> QED BY <1>4, <2>1 DEF Laid, Within
<1>6. PICK x : x = Item(n + 1)
  OBVIOUS
<1>7. /\ x \in Parts(A) /\ Append(u, x) \in Seq(Parts(A)) /\ x.kind = "item"
      /\ Seated(Append(u, x)) /\ Within(Append(u, x), n + 1)
  BY <1>4, <1>5, <1>6, ItemSeated DEF Item
<1>8. Range(Append(u, x)) = Range(u) \cup {x}
  BY ONLY <1>4, <1>7, AppendedRange
<1>9. x.kind \notin CallParts
  BY <1>7 DEF CallParts
<1>10. \A p \in Range(Append(u, x)) : p.kind \in CallParts => p \in Range(c.parts)
  BY <1>4, <1>8, <1>9
<1>11. CallsIn(Append(u, x)) = CallsIn(c.parts)
  <2>1. CallsIn(Append(u, x)) = CallsIn(u)
    <3>1. x.kind \notin {"tool", "pending-tool"}
      BY <1>7
    <3> QED BY ONLY <1>4, <1>7, <3>1, BooksAppend
  <2>2. CallsIn(c.parts) \subseteq CallsIn(u)
    BY <1>1, ShownCalls
  <2>3. \A p \in Range(u) : p.kind = "tool" => p \in Range(c.parts)
    BY <1>4
  <2>4. CallsIn(u) \subseteq CallsIn(c.parts)
    BY ONLY <1>2, <1>4, <2>3, CallsMonotone
  <2> QED BY <2>1, <2>2, <2>4
<1> QED BY <1>1, <1>6, <1>7, <1>10, <1>11

Stages(a, s) ==
    \E k \in Locals(a) : /\ Set(a, k) /\ Kept(a, s, k, reply'.parts) /\ Seated(reply'.parts)
                         /\ reply'.parts \in Seq(Parts({a}))
                         /\ reply'.attempt = a /\ reply'.status = "running"

LEMMA StageKept ==
    ASSUME NEW a, att[a] \in Locals(a), NEW s \in Windows(a), NEW shown \in Seq(Parts({a})),
           Kept(a, s, att[a], shown), Booked(a, att[a]),
           \A c \in Calls : att[a].calls[c] = "none" => <<a, c>> \notin RequestedIn(s),
           StageItem(a), reply = [attempt |-> reply.attempt, status |-> reply.status,
                                  parts |-> reply.parts]
    PROVE  Stages(a, s)
<1>1. PICK l : l = att[a]
  OBVIOUS
<1>2. PICK m : m = NewStep(l)
  OBVIOUS
<1>3. PICK item : item = Item(m.step)
  OBVIOUS
<1>4. PICK d : d = CollectPart(m.coll, item)
  OBVIOUS
<1>5. PICK t : t = Append(PartsOf(m.coll), item)
  OBVIOUS
<1>6. PICK k : k = [m EXCEPT !.coll = d]
  OBVIOUS
<1>7. /\ l.step < MaxSteps /\ Awaited(l) = {} /\ Set(a, k)
      /\ reply.attempt = a /\ reply.status = "running" /\ reply' = [reply EXCEPT !.parts = t]
  <2>1. k = [m EXCEPT !.coll = CollectPart(@, item)]
    BY <1>4, <1>6
  <2> QED BY <1>1, <1>2, <1>3, <1>5, <2>1 DEF StageItem
<1>8. reply'.parts = t /\ reply'.attempt = a /\ reply'.status = "running"
  BY ONLY <1>7, reply = [attempt |-> reply.attempt, status |-> reply.status,
                         parts |-> reply.parts]
<1>9. l \in Locals(a) /\ Kept(a, s, l, shown) /\ Booked(a, l)
  BY <1>1
<1>10. /\ Kept(a, s, m, shown) /\ m \in Locals(a) /\ m.calls = l.calls
       /\ m.step = l.step + 1 /\ Laid(m.coll.parts, l.step)
  BY <1>2, <1>7, <1>9, NewStepKept
<1>11. Booked(a, m)
  <2>1. Delivers(a, l, m)
    BY <1>2, <1>7, <1>9, NewStepIs
  <2> QED BY <1>9, <2>1, DeliversBooked
<1>12. Unthrown(m) /\ Awaited(m) = {}
  BY <1>7, <1>10 DEF Kept, Awaited
<1>13. /\ \A e \in Range(s \o m.chain) : e.type = "tool.requested" =>
              e.step \in Nat /\ e.call \in CallsIn(m.coll.parts)
       /\ \A call \in CallsIn(m.coll.parts) :
              \E c \in Calls : call = <<a, c>> /\ m.calls[c] = "settled"
  <2>1. \A c \in Calls : m.calls[c] = "none" => <<a, c>> \notin RequestedIn(s)
    BY <1>1, <1>10
  <2> QED BY <1>10, <1>11, <1>12, <2>1, StepsEnd
<1>14. /\ l.step \in Nat /\ m.coll \in Collectors({a}) /\ m.coll.parts \in Seq(Parts({a}))
       /\ item = Item(l.step + 1)
  BY <1>3, <1>9, <1>10, LocalFields DEF Collectors
<1>15. /\ t \in Seq(Parts({a})) /\ Seated(t) /\ Within(t, l.step + 1)
       /\ \A p \in Range(t) : p.kind \in CallParts => p \in Range(m.coll.parts)
       /\ CallsIn(t) = CallsIn(m.coll.parts)
  BY <1>5, <1>10, <1>14, ShownParts
<1>16. Cuts(t, s \o m.chain)
  <2>1. Matched(t, s \o m.chain)
    BY <1>10, <1>15 DEF Kept, Matched
  <2> QED BY <1>13, <1>15, <2>1, SeatedCuts
<1>17. Ordered(s \o m.chain, m.step, t)
  BY <1>10, <1>15, <1>16 DEF Kept, Ordered
<1>18. ShownSettled(a, m.calls, t)
  BY <1>13, <1>15 DEF ShownSettled
<1>19. item \in Parts({a}) /\ item.kind \in Aside /\ item \in ItemParts
  <2>1. l.step + 1 \in Nat
    BY <1>14
  <2> QED BY <1>14, <2>1 DEF Item, Parts, ItemParts, Aside
<1>20. d \in Collectors({a}) /\ d.parts = Append(m.coll.parts, item)
  <2>1. d \in Collectors({a}) /\ Followed(m.coll, item, d)
    BY <1>4, <1>14, <1>19, CollectPartFollows
  <2> QED BY <2>1 DEF Followed
<1>21. Laid(d.parts, m.step)
  BY <1>10, <1>14, <1>20, ItemSeated DEF Laid
<1>22. Matched(d.parts, s \o m.chain) /\ Unresolved(a, d.parts, m.calls, m.step)
  BY <1>10, <1>14, <1>19, <1>20, AsideParts DEF Kept
<1>23. k \in Locals(a)
  BY <1>6, <1>10, <1>20, LocalUpdates
<1>24. /\ k.coll = d /\ k.chain = m.chain /\ k.step = m.step /\ k.calls = m.calls
       /\ k.failed = m.failed
  BY ONLY <1>6, <1>10 DEF Locals
<1>25. Kept(a, s, k, t)
  BY <1>12, <1>17, <1>18, <1>21, <1>22, <1>24 DEF Kept, Unthrown
<1> QED BY <1>7, <1>8, <1>15, <1>23, <1>25 DEF Stages

-----------------------------------------------------------------------------
(* The ends of a turn, and its events written.                             *)

LEMMA LaysRephased ==
    ASSUME NEW a, NEW l \in Locals(a), NEW phase \in Phases, NEW end \in Ends \cup {"none"},
           NEW capped \in BOOLEAN
    PROVE  /\ Lays(a, l, [l EXCEPT !.phase = phase, !.end = end, !.capped = capped])
           /\ Lays(a, l, [l EXCEPT !.phase = phase, !.end = end])
           /\ Lays(a, l, [l EXCEPT !.phase = phase])
<1>1. PICK k, m, n : /\ n = [l EXCEPT !.phase = phase] /\ m = [n EXCEPT !.end = end]
                     /\ k = [m EXCEPT !.capped = capped]
  OBVIOUS
<1>2. n \in Locals(a)
  BY <1>1, LocalUpdates
<1>3. m \in Locals(a)
  BY <1>1, <1>2, LocalUpdates DEF Ends
<1>4. k \in Locals(a)
  BY <1>1, <1>3, LocalUpdates
<1>5. /\ n.chain = l.chain /\ n.coll = l.coll /\ n.calls = l.calls
      /\ n.failed = l.failed /\ n.step = l.step
  BY ONLY <1>1, l \in Locals(a) DEF Locals
<1>6. /\ m.chain = l.chain /\ m.coll = l.coll /\ m.calls = l.calls
      /\ m.failed = l.failed /\ m.step = l.step
  BY ONLY <1>1, <1>2, <1>5 DEF Locals
<1>7. /\ k.chain = l.chain /\ k.coll = l.coll /\ k.calls = l.calls
      /\ k.failed = l.failed /\ k.step = l.step
  BY ONLY <1>1, <1>3, <1>6 DEF Locals
<1>8. Lays(a, l, n) /\ Lays(a, l, m) /\ Lays(a, l, k)
  BY <1>2, <1>3, <1>4, <1>5, <1>6, <1>7, LaysSame DEF SameCallWork
<1>9. /\ [l EXCEPT !.phase = phase, !.end = end] = m
      /\ [l EXCEPT !.phase = phase, !.end = end, !.capped = capped] = k
  BY <1>1
<1> QED BY <1>1, <1>8, <1>9

LEMMA LaysKept ==
    ASSUME NEW a, NEW s \in Windows(a), NEW shown \in Seq(Parts({a})), NEW l,
           Kept(a, s, l, shown), NEW k, Lays(a, l, k)
    PROVE  Kept(a, s, k, shown) /\ k \in Locals(a)
  BY DEF Lays

LEMMA FinishingKept ==
    ASSUME NEW a, att[a] \in Locals(a), NEW s \in Windows(a), NEW shown \in Seq(Parts({a})),
           Kept(a, s, att[a], shown), NEW end \in Ends, OnFinish(a, end) \/ OnError(a, end)
    PROVE  Yields(a, s, shown)
<1>1. PICK m : m = Flush(att[a])
  OBVIOUS
<1>2. m \in Locals(a) /\ Lays(a, att[a], m)
  BY <1>1, LaysFlush DEF Lays
<1>3. Kept(a, s, m, shown)
  BY <1>2, LaysKept
<1>4. PICK k : /\ Set(a, k)
               /\ \/ k = [m EXCEPT !.phase = "draining", !.end = end]
                  \/ k = [m EXCEPT !.phase = "draining", !.end = end, !.capped = FALSE]
  BY <1>1 DEF OnFinish, OnError
<1>5. Lays(a, m, k)
  <2>1. "draining" \in Phases /\ end \in Ends \cup {"none"} /\ FALSE \in BOOLEAN
    BY DEF Phases
  <2>2. /\ Lays(a, m, [m EXCEPT !.phase = "draining", !.end = end])
        /\ Lays(a, m, [m EXCEPT !.phase = "draining", !.end = end, !.capped = FALSE])
    BY ONLY <1>2, <2>1, LaysRephased
  <2> QED BY <1>4, <2>2
<1> QED BY <1>3, <1>4, <1>5, LaysKept DEF Yields

LEMMA AfterDrainKept ==
    ASSUME NEW a, NEW s \in Windows(a), NEW l \in Locals(a), NEW shown \in Seq(Parts({a})),
           Kept(a, s, l, shown)
    PROVE  Kept(a, s, AfterDrain(a, l), shown) /\ AfterDrain(a, l) \in Locals(a)
<1>1. PICK c, n : /\ c = CollectPart(l.coll, CapNotice)
                  /\ n = IF l.capped THEN [l EXCEPT !.coll = c] ELSE l
  OBVIOUS
<1>2. l.coll \in Collectors({a})
  BY LocalFields
<1>3. CapNotice \in NoticeParts \cup ItemParts
  BY DEF CapNotice, NoticeParts
<1>4. c \in Collectors({a}) /\ c.parts = Append(l.coll.parts, CapNotice)
  BY <1>1, <1>2, <1>3, CollectPartFollows DEF Followed
<1>5. PICK m : m = [l EXCEPT !.coll = c]
  OBVIOUS
<1>6. m \in Locals(a)
  BY <1>4, <1>5, LocalUpdates
<1>7. m.coll = c /\ m.chain = l.chain /\ SameCallWork(l, m)
  BY ONLY <1>5, l \in Locals(a) DEF Locals, SameCallWork
<1>8. Lays(a, l, m)
  BY <1>4, <1>6, <1>7, LaysNoted
<1>9. n \in Locals(a) /\ Kept(a, s, n, shown)
  BY <1>1, <1>5, <1>8, LaysKept
<1>10. AfterDrain(a, l) = n \/ AfterDrain(a, l) = SettleOpen(a, n, Calls)
  BY <1>1 DEF AfterDrain
<1> QED BY <1>9, <1>10, SettleOpenKept

LEMMA EndingKept ==
    ASSUME NEW a, att[a] \in Locals(a), NEW s \in Windows(a), NEW shown \in Seq(Parts({a})),
           Kept(a, s, att[a], shown), Drain(a) \/ Abort(a) \/ GraceEnds(a)
    PROVE  Yields(a, s, shown)
<1>1. PICK l : l = att[a]
  OBVIOUS
<1>2. l \in Locals(a) /\ Kept(a, s, l, shown) /\ ~l.failed
  BY <1>1 DEF Kept, Unthrown
<1>3. PICK m, k : /\ m \in Locals(a) /\ Kept(a, s, m, shown) /\ Set(a, k)
                  /\ \/ k = [m EXCEPT !.phase = "settling"]
                     \/ k = [m EXCEPT !.phase = "aborting", !.end = "cancelled"]
  <2>1. CASE Drain(a)
    <3>1. AfterDrain(a, l) \in Locals(a) /\ Kept(a, s, AfterDrain(a, l), shown)
      BY <1>2, AfterDrainKept
    <3>2. Set(a, [AfterDrain(a, l) EXCEPT !.phase = "settling"])
      BY <1>1, <1>2, <2>1 DEF Drain
    <3> QED BY <3>1, <3>2
  <2>2. CASE Abort(a)
    <3>1. SettleOpen(a, l, Calls \ Bash) \in Locals(a)
          /\ Kept(a, s, SettleOpen(a, l, Calls \ Bash), shown)
      BY <1>2, SettleOpenKept
    <3>2. Set(a, [SettleOpen(a, l, Calls \ Bash) EXCEPT !.phase = "aborting", !.end = "cancelled"])
      BY <1>1, <2>2 DEF Abort
    <3> QED BY <3>1, <3>2
  <2>3. CASE GraceEnds(a)
    <3>1. SettleOpen(a, l, Calls) \in Locals(a) /\ Kept(a, s, SettleOpen(a, l, Calls), shown)
      BY <1>2, SettleOpenKept
    <3>2. Set(a, [SettleOpen(a, l, Calls) EXCEPT !.phase = "settling"])
      BY <1>1, <2>3 DEF GraceEnds
    <3> QED BY <3>1, <3>2
  <2> QED BY <2>1, <2>2, <2>3
<1>4. "settling" \in Phases /\ "aborting" \in Phases /\ "cancelled" \in Ends /\ FALSE \in BOOLEAN
  BY DEF Phases, Ends
<1>5. Lays(a, m, k)
  <2>1. m \in Locals(a)
    BY <1>3
  <2>2. /\ Lays(a, m, [m EXCEPT !.phase = "aborting", !.end = "cancelled"])
        /\ Lays(a, m, [m EXCEPT !.phase = "settling"])
    BY ONLY <1>4, <2>1, LaysRephased
  <2> QED BY <1>3, <2>2
<1> QED BY <1>3, <1>5, LaysKept DEF Yields

(* A write that succeeds moves an event to the log.                        *)
LEMMA WrittenCalls ==
    ASSUME NEW a, NEW l \in Locals(a), Unthrown(l), NEW k,
           k = Written(a, [l EXCEPT !.chain = Tail(@)]), WrittenOff(a, l, l.failed, k)
    PROVE  SafeCalls(l, k)
<1>1. PICK chain : chain = Tail(l.chain)
  OBVIOUS
<1>2. PICK m : m = [l EXCEPT !.chain = chain]
  OBVIOUS
<1>3. m.calls = l.calls /\ m.failed = FALSE
  <2>1. m.calls = l.calls /\ m.failed = l.failed
    BY ONLY <1>2, l \in Locals(a) DEF Locals
  <2> QED BY <2>1, LocalFields DEF Unthrown
<1>4. PICK calls : calls = [c \in Calls |->
          IF \A i \in DOMAIN m.chain : m.chain[i].call # <<a, c>>
          THEN Resume(m.calls[c], m.failed) ELSE m.calls[c]]
  OBVIOUS
<1>5. PICK n : n = [m EXCEPT !.calls = calls]
  OBVIOUS
<1>6. k = n
  BY <1>1, <1>2, <1>4, <1>5 DEF Written
<1>7. k.calls = calls
  <2>1. n.calls = calls
    <3>1. "calls" \in DOMAIN m
      BY ONLY <1>2, l \in Locals(a) DEF Locals
    <3> QED BY ONLY <1>5, <3>1
  <2> QED BY <1>6, <2>1
<1>8. \A d \in Calls : k.calls[d] = l.calls[d] \/ k.calls[d] = Resume(l.calls[d], FALSE)
  BY <1>3, <1>4, <1>7
<1>9. \A state \in CallState : Resume(state, FALSE) \in {state, "running", "rejected"}
  BY DEF Resume, CallState
<1>10. \A d \in Calls : l.calls[d] \in CallState /\ l.calls[d] # "thrown"
  BY LocalFields DEF Unthrown
<1>11. \A d \in Calls : l.calls[d] = "settled" => k.calls[d] = "settled"
  BY DEF WrittenOff
<1> QED BY <1>8, <1>9, <1>10, <1>11 DEF SafeCalls

LEMMA PersistKept ==
    ASSUME NEW a, NEW s \in Windows(a), NEW l \in Locals(a), NEW shown \in Seq(Parts({a})),
           Kept(a, s, l, shown), l.chain # <<>>,
           NEW k, k = Written(a, [l EXCEPT !.chain = Tail(@)])
    PROVE  k \in Locals(a) /\ Kept(a, Append(s, Head(l.chain)), k, shown)
<1>1. WrittenOff(a, l, l.failed, k)
  BY WrittenIs, LocalFields
<1>2. /\ k.chain = Tail(l.chain) /\ k.coll = l.coll /\ k.step = l.step /\ k.failed = l.failed
      /\ k \in Locals(a)
  BY <1>1 DEF WrittenOff
<1>3. Append(s, Head(l.chain)) \o k.chain = s \o l.chain
  <2>1. s \in Seq(Events({a})) /\ l.chain \in Seq(Events({a}))
    <3>1. l.chain \in Seq(StreamEvents({a}))
      BY LocalFields
    <3>2. StreamEvents({a}) \subseteq Events({a})
      BY DEF Events
    <3>3. l.chain \in Seq(Events({a}))
      BY ONLY <3>1, <3>2, SeqMonotone
    <3> QED BY <3>3 DEF Windows
  <2>2. ASSUME NEW T, NEW u \in Seq(T), NEW v \in Seq(T), v # <<>>
        PROVE  Append(u, Head(v)) \o Tail(v) = u \o v
    BY ONLY <2>2
  <2> QED BY ONLY <1>2, <2>1, <2>2, l.chain # <<>>
<1>4. SafeCalls(l, k)
  BY <1>1, WrittenCalls DEF Kept
<1>5. /\ Unthrown(k) /\ ShownSettled(a, k.calls, shown)
      /\ Unresolved(a, l.coll.parts, k.calls, l.step)
  BY <1>2, <1>4, CallsKept
<1> QED BY <1>2, <1>3, <1>5 DEF Kept

(* An attempt's start.                                                     *)
LEMMA DispatchKept ==
    ASSUME NEW a \in Attempts, NEW e \in Marks, NEW k, k = [FreshAttempt EXCEPT !.phase = "streaming"]
    PROVE  k \in Locals(a) /\ Kept(a, <<e>>, k, <<>>)
<1>1. k \in Locals(a)
  <2>1. "streaming" \in Phases
    BY DEF Phases
  <2> QED BY <2>1, FreshIs
<1>2. /\ k.chain = <<>> /\ k.coll = EmptyCollector /\ k.step = 0 /\ k.failed = FALSE
      /\ k.calls = [c \in Calls |-> "none"]
  BY DEF FreshAttempt
<1>3. k.coll.parts = <<>>
  BY <1>2 DEF EmptyCollector
<1>4. ~Dated(e)
  BY DEF Marks, Dated
<1>5. <<e>> \o k.chain = Append(<<>>, e) /\ <<>> \in Seq(Marks)
  <2>1. ASSUME NEW T, NEW x \in T
        PROVE  <<x>> \o <<>> = Append(<<>>, x) /\ <<>> \in Seq(T)
    OBVIOUS
  <2> QED BY ONLY <1>2, <2>1, e \in Marks
<1>6. Steady(<<e>> \o k.chain) /\ DatedWithin(<<e>> \o k.chain, k.step)
  <2>1. Steady(<<>>) /\ DatedWithin(<<>>, k.step)
    BY SteadyNone
  <2>2. Steady(Append(<<>>, e)) /\ DatedWithin(Append(<<>>, e), k.step)
    BY ONLY <1>4, <1>5, <2>1, e \in Marks, SteadyAppend
  <2> QED BY <1>5, <2>2
<1>7. Range(<<>>) = {} /\ DOMAIN <<>> = {}
  BY DEF Range
<1>8. Ordered(<<e>> \o k.chain, k.step, <<>>)
  BY <1>6, <1>7 DEF Ordered, Cuts, Within
<1>9. Laid(k.coll.parts, k.step) /\ Matched(k.coll.parts, <<e>> \o k.chain)
  BY <1>3, <1>7, SeatedNone DEF Laid, Within, Matched
<1>10. Unresolved(a, k.coll.parts, k.calls, k.step) /\ Unthrown(k)
  BY <1>2, <1>3, <1>7 DEF Unresolved, Unthrown
<1>11. ShownSettled(a, k.calls, <<>>)
  BY <1>7 DEF ShownSettled, CallsIn
<1> QED BY <1>1, <1>8, <1>9, <1>10, <1>11 DEF Kept

-----------------------------------------------------------------------------
(* The items of every reply.                                               *)

(* What is shown of an attempt while its reply is running.                 *)
Shown(a) == IF reply.status = "running" /\ reply.attempt = a THEN reply.parts ELSE <<>>

Placed(a) ==
    /\ Steady(AttemptWindow(log, a)) /\ Cuts(Shown(a), AttemptWindow(log, a))
    /\ att[a].phase \in Working => Kept(a, AttemptWindow(log, a), att[a], Shown(a))

Seating ==
    /\ Seated(reply.parts)
    /\ run.status = "live" => \A a \in Attempts : Placed(a)

LEMMA NoneShown == \A events : Cuts(<<>>, events)
  BY DEF Cuts

LEMMA ShownType ==
    ASSUME Undisturbed, NEW a
    PROVE  Shown(a) \in Seq(Parts({a}))
<1>1. CASE reply.status = "running" /\ reply.attempt = a
  BY <1>1 DEF Shown, Undisturbed, ReplyOwned
<1>2. CASE ~(reply.status = "running" /\ reply.attempt = a)
  BY <1>2 DEF Shown
<1> QED BY <1>1, <1>2

(* What holds of the events written and queued holds of those written.     *)
LEMMA KeptWritten ==
    ASSUME NEW a, NEW s \in Windows(a), NEW l \in Locals(a), NEW shown, Kept(a, s, l, shown)
    PROVE  Steady(s) /\ Cuts(shown, s)
<1>1. l.chain \in Seq(Events({a})) /\ s \in Seq(Events({a}))
  <2>1. StreamEvents({a}) \subseteq Events({a})
    BY DEF Events
  <2>2. l.chain \in Seq(StreamEvents({a}))
    BY LocalFields
  <2>3. l.chain \in Seq(Events({a}))
    BY ONLY <2>1, <2>2, SeqMonotone
  <2> QED BY <2>3 DEF Windows
<1>2. PICK q : q = s \o l.chain
  OBVIOUS
<1>3. Len(s) \in Nat /\ DOMAIN s = 1..Len(s)
      /\ \A i \in 1..Len(s) : i \in DOMAIN q /\ q[i] = s[i]
  <2>1. ASSUME NEW T, NEW u \in Seq(T), NEW v \in Seq(T)
        PROVE  Len(u) \in Nat /\ DOMAIN u = 1..Len(u)
               /\ \A i \in 1..Len(u) : i \in DOMAIN (u \o v) /\ (u \o v)[i] = u[i]
    OBVIOUS
  <2> QED BY ONLY <1>1, <1>2, <2>1
<1>4. Steady(q) /\ Cuts(shown, q)
  BY <1>2 DEF Kept, Ordered
<1>5. Steady(s)
  BY <1>3, <1>4 DEF Steady
<1>6. Range(s) \subseteq Range(q)
  BY <1>3 DEF Range
<1> QED BY <1>4, <1>5, <1>6 DEF Cuts

LEMMA SameWindow ==
    ASSUME NEW b, Placed(b), att'[b] = att[b] \/ att'[b].phase \notin Working,
           AttemptWindow(log', b) = AttemptWindow(log, b),
           Shown(b)' = Shown(b) \/ (Shown(b)' = <<>> /\ att'[b].phase \notin Working)
    PROVE  Placed(b)'
<1>1. Cuts(Shown(b)', AttemptWindow(log', b))
  BY NoneShown DEF Placed
<1> QED BY <1>1 DEF Placed

(* One attempt moves.                                                      *)
LEMMA OnePlaced ==
    ASSUME WellTyped, Undisturbed, Seating, run.status = "live", NEW a \in Attempts,
           NEW k \in Locals(a), Set(a, k),
           AttemptWindow(log', a) \in Windows(a),
           Kept(a, AttemptWindow(log', a), k, Shown(a)'),
           \A b \in Attempts \ {a} : /\ AttemptWindow(log', b) = AttemptWindow(log, b)
                                     /\ Shown(b)' = Shown(b)
    PROVE  \A b \in Attempts : Placed(b)'
<1>1. att'[a] = k /\ \A b \in Attempts \ {a} : att'[b] = att[b]
  BY SetIs DEF WellTyped
<1>2. Steady(AttemptWindow(log', a)) /\ Cuts(Shown(a)', AttemptWindow(log', a))
  BY KeptWritten
<1>3. Placed(a)'
  BY <1>1, <1>2 DEF Placed
<1>4. ASSUME NEW b \in Attempts \ {a} PROVE Placed(b)'
  BY <1>1, SameWindow DEF Seating
<1> QED BY <1>3, <1>4

LEMMA WorkYields ==
    ASSUME WellTyped, Undisturbed, Accounted, Seating, NEW a \in Attempts,
           Stream(a) \/ (End(a) /\ ~Finish(a))
    PROVE  /\ run.status = "live" /\ UNCHANGED <<run, log>>
           /\ \/ UNCHANGED reply /\ Yields(a, AttemptWindow(log, a), Shown(a))
              \/ StageItem(a) /\ Stages(a, AttemptWindow(log, a))
<1> DEFINE s == AttemptWindow(log, a)
<1>1. att[a] \in Locals(a) /\ (att[a].phase \in {"aborting", "draining"} => att[a].end # "none")
  BY DEF WellTyped, Working
<1>2. /\ \E k : Works(a, att[a], k) /\ Set(a, k)
      /\ UNCHANGED <<run, log>>
      /\ UNCHANGED reply \/ StageItem(a)
  BY <1>1, WorkIs DEF End, Ends
<1>3. att[a].phase \in Working
  BY <1>2 DEF Works
<1>4. run.status = "live" /\ Booked(a, att[a]) /\ s \in Windows(a)
  <2>1. ~Gone(a)
    BY <1>3, GoneIs
  <2>2. run.status = "live"
    BY <2>1 DEF Undisturbed, Calm
  <2> QED BY <2>2 DEF Undisturbed, Calm, Windowed, Windows
<1>5. Kept(a, s, att[a], Shown(a)) /\ Shown(a) \in Seq(Parts({a}))
  BY <1>3, <1>4, ShownType DEF Seating, Placed
<1>6. \A c \in Calls : att[a].calls[c] = "none" => <<a, c>> \notin RequestedIn(s)
  BY <1>3, <1>4 DEF Accounted, Known
<1> HIDE DEF s
<1>7. PICK shown : shown = Shown(a)
  OBVIOUS
<1>8. shown \in Seq(Parts({a})) /\ Kept(a, s, att[a], shown)
  BY <1>5, <1>7
<1>9. ASSUME NEW k, Lays(a, att[a], k), Set(a, k)
      PROVE  Yields(a, s, shown)
  BY <1>4, <1>8, <1>9, LaysKept DEF Yields
<1>10. ASSUME NEW id \in PartIds, OnTextDelta(a, id) \/ OnReasoningDelta(a, id)
                                   \/ OnReasoningMetadata(a, id)
       PROVE  Yields(a, s, shown)
  <2>1. LaysNext(a)
    BY <1>1, <1>10, TextDeltaLays, ReasoningDeltaLays, ReasoningMetadataLays
  <2> QED BY <1>9, <2>1 DEF LaysNext
<1>11. ASSUME OnTextMetadata(a) PROVE Yields(a, s, shown)
  BY <1>1, <1>9, <1>11, TextMetadataLays DEF LaysNext
<1>12. ASSUME OnStepStart(a) PROVE Yields(a, s, shown)
  BY <1>1, <1>4, <1>8, <1>12, StepStartKept
<1>13. ASSUME NEW c \in Calls, NEW kind \in CallKinds, CallTool(a, c, kind)
       PROVE  Yields(a, s, shown)
  BY <1>1, <1>4, <1>6, <1>8, <1>13, CallToolKept
<1>14. ASSUME NEW c \in Calls, ResolveCall(a, c) \/ CompleteTool(a, c)
       PROVE  Yields(a, s, shown)
  BY <1>1, <1>4, <1>8, <1>14, ResolveCallKept, CompleteToolKept
<1>15. ASSUME NEW end \in Ends, OnFinish(a, end) \/ OnError(a, end)
       PROVE  Yields(a, s, shown)
  BY <1>1, <1>4, <1>8, <1>15, FinishingKept
<1>16. ASSUME Drain(a) \/ Abort(a) \/ GraceEnds(a)
       PROVE  Yields(a, s, shown)
  BY <1>1, <1>4, <1>8, <1>16, EndingKept
<1>17. CASE StageItem(a)
  <2>1. reply = [attempt |-> reply.attempt, status |-> reply.status, parts |-> reply.parts]
    BY DEF WellTyped
  <2>2. Stages(a, s)
    BY <1>1, <1>4, <1>6, <1>8, <1>17, <2>1, StageKept
  <2> QED BY <1>2, <1>4, <1>17, <2>2 DEF s
<1>18. CASE ~StageItem(a)
  <2>1. UNCHANGED reply
    BY <1>2, <1>18
  <2>2. Yields(a, s, shown)
    <3>1. CASE Stream(a)
      BY <1>10, <1>11, <1>12, <1>13, <1>14, <1>18, <3>1 DEF Stream
    <3>2. CASE End(a) /\ ~Finish(a)
      BY <1>15, <1>16, <3>2 DEF End, Ends
    <3> QED BY <3>1, <3>2
  <2> QED BY <1>2, <1>4, <1>7, <2>1, <2>2 DEF s
<1> QED BY <1>17, <1>18

LEMMA WorkSeating ==
    ASSUME WellTyped, Undisturbed, Accounted, Seating, NEW a \in Attempts,
           Stream(a) \/ (End(a) /\ ~Finish(a))
    PROVE  Seating'
<1>1. /\ run.status = "live" /\ run' = run /\ log' = log
      /\ \/ UNCHANGED reply /\ Yields(a, AttemptWindow(log, a), Shown(a))
         \/ StageItem(a) /\ Stages(a, AttemptWindow(log, a))
  BY WorkYields
<1>2. AttemptWindow(log', a) \in Windows(a) /\ \A b : AttemptWindow(log', b) = AttemptWindow(log, b)
  BY <1>1 DEF Undisturbed, Windowed, Windows
<1>3. CASE UNCHANGED reply /\ Yields(a, AttemptWindow(log, a), Shown(a))
  <2>1. \A b : Shown(b)' = Shown(b)
    BY <1>3 DEF Shown
  <2>2. PICK k \in Locals(a) : Set(a, k) /\ Kept(a, AttemptWindow(log, a), k, Shown(a))
    BY <1>3 DEF Yields
  <2>3. Kept(a, AttemptWindow(log', a), k, Shown(a)')
    BY <1>2, <2>1, <2>2
  <2>4. \A b \in Attempts : Placed(b)'
    BY <1>1, <1>2, <2>1, <2>2, <2>3, OnePlaced
  <2> QED BY <1>3, <2>4 DEF Seating
<1>4. CASE StageItem(a) /\ Stages(a, AttemptWindow(log, a))
  <2>1. PICK k \in Locals(a) :
           /\ Set(a, k) /\ Kept(a, AttemptWindow(log, a), k, reply'.parts) /\ Seated(reply'.parts)
           /\ reply'.attempt = a /\ reply'.status = "running"
    BY <1>4 DEF Stages
  <2>2. Shown(a)' = reply'.parts
    BY <2>1 DEF Shown
  <2>3. \A b \in Attempts \ {a} : Shown(b)' = Shown(b)
    BY <1>4, <2>1 DEF StageItem, Shown
  <2>4. Kept(a, AttemptWindow(log', a), k, Shown(a)')
    BY <1>2, <2>1, <2>2
  <2>5. \A b \in Attempts : Placed(b)'
    BY <1>1, <1>2, <2>1, <2>3, <2>4, OnePlaced
  <2> QED BY <2>1, <2>5 DEF Seating
<1> QED BY <1>1, <1>3, <1>4

(* The write of an event, which here never fails.                          *)
LEMMA PersistSeating ==
    ASSUME WellTyped, Undisturbed, Accounted, Seating, MaxFailures = 0, NEW a \in Attempts,
           Persist(a) \/ PersistFails(a)
    PROVE  Seating'
<1>1. att[a] \in Locals(a) /\ att[a].chain # <<>> /\ att[a].chain \in Seq(StreamEvents({a}))
  BY LocalFields DEF WellTyped, Persist, PersistFails
<1>2. ~Gone(a) /\ att[a].phase \in Working
  <2>1. ~Gone(a)
    BY <1>1 DEF Undisturbed, Calm
  <2>2. att[a].phase # "claimed"
    <3>1. [FreshAttempt EXCEPT !.phase = "claimed"].chain = <<>>
      BY DEF FreshAttempt
    <3> QED BY <1>1, <3>1 DEF Undisturbed, Calm
  <2> QED BY <2>1, <2>2, GoneIs
<1>3. run.status = "live" /\ a = run.active
  BY <1>2 DEF Undisturbed, Calm
<1>4. Persist(a)
  <2>1. failures \in 0..MaxFailures
    BY DEF WellTyped
  <2>2. ~(failures < MaxFailures)
    BY ONLY <2>1, MaxFailures = 0
  <2> QED BY <2>2 DEF PersistFails
<1>5. PICK e, k, s : /\ e = Head(att[a].chain) /\ s = AttemptWindow(log, a)
                     /\ k = Written(a, [att[a] EXCEPT !.chain = Tail(@)])
  OBVIOUS
<1>6. log' = Append(log, e) /\ Set(a, k) /\ UNCHANGED <<run, reply>>
  BY <1>4, <1>5 DEF Persist
<1>7. \A b : Shown(b)' = Shown(b)
  BY <1>6 DEF Shown
<1>8. /\ s \in Windows(a) /\ Kept(a, s, att[a], Shown(a)) /\ Shown(a) \in Seq(Parts({a}))
  BY <1>2, <1>3, <1>5, ShownType DEF Seating, Placed, Undisturbed, Windowed, Windows
<1>9. k \in Locals(a) /\ Kept(a, Append(s, e), k, Shown(a))
  BY <1>1, <1>5, <1>8, PersistKept
<1>10. e \in StreamEvents({a}) /\ log \in Seq(Events(Attempts))
  <2>1. ASSUME NEW T, NEW u \in Seq(T), u # <<>>
        PROVE  Head(u) \in T
    BY <2>1
  <2> QED BY <1>1, <1>5, <2>1 DEF WellTyped
<1>11. ASSUME NEW b \in Attempts
       PROVE  /\ b = a => AttemptWindow(log', b) = Append(AttemptWindow(log, b), e)
              /\ b # a => AttemptWindow(log', b) = AttemptWindow(log, b)
  <2>1. (Open(log, b) <=> b = a) /\ AttemptWindow(log, b) \in Seq(Events({b})) /\ Agrees(log, b)
    BY <1>2, <1>3 DEF Undisturbed, Windowed, Accounted
  <2> QED BY <1>6, <1>10, <2>1, StreamedAgrees
<1>12. AttemptWindow(log', a) = Append(s, e)
  BY <1>5, <1>11
<1>13. Append(s, e) \in Windows(a)
  <2>1. e \in Events({a}) /\ s \in Seq(Events({a}))
    BY <1>8, <1>10 DEF Events, Windows
  <2>2. Append(s, e) \in Seq(Events({a}))
    BY ONLY <2>1
  <2> QED BY <2>2 DEF Windows
<1>14. \A b \in Attempts : Placed(b)'
  BY <1>3, <1>6, <1>7, <1>9, <1>11, <1>12, <1>13, OnePlaced
<1> QED BY <1>6, <1>14 DEF Seating

LEMMA ClaimSeating ==
    ASSUME WellTyped, Seating, NEW a \in Attempts, Claim(a)
    PROVE  Seating'
<1>1. PICK k : k = [att[a] EXCEPT !.phase = "claimed"]
  OBVIOUS
<1>2. /\ run.status = "live" /\ log' = Append(log, Event("run.started")) /\ Set(a, k)
      /\ reply' = reply /\ log \in Seq(Events(Attempts)) /\ att[a] \in Locals(a)
  BY <1>1 DEF Claim, WellTyped
<1>3. att'[a] = k /\ \A b \in Attempts \ {a} : att'[b] = att[b]
  BY <1>2, SetIs DEF WellTyped
<1>4. k.phase \notin Working
  BY <1>1, <1>2 DEF Locals, Working
<1>5. ASSUME NEW b \in Attempts PROVE Placed(b)'
  <2>1. AttemptWindow(log', b) = AttemptWindow(log, b)
    BY <1>2, ClaimedWindow
  <2>2. Shown(b)' = Shown(b)
    BY <1>2 DEF Shown
  <2>3. Placed(b) /\ (att'[b] = att[b] \/ att'[b].phase \notin Working)
    BY <1>2, <1>3, <1>4 DEF Seating
  <2> QED BY <2>1, <2>2, <2>3, SameWindow
<1> QED BY <1>2, <1>5 DEF Seating

LEMMA CrashSeating ==
    ASSUME WellTyped, Seating, NEW a \in Attempts, Crash(a)
    PROVE  Seating'
<1>1. PICK k : k = [FreshAttempt EXCEPT !.phase = "dead"]
  OBVIOUS
<1>2. k.phase = "dead" /\ Set(a, k) /\ UNCHANGED <<run, log, reply>>
  BY <1>1 DEF Crash, storeVars, FreshAttempt
<1>3. att'[a] = k /\ \A b \in Attempts \ {a} : att'[b] = att[b]
  BY <1>2, SetIs DEF WellTyped
<1>4. ASSUME NEW b \in Attempts, Placed(b) PROVE Placed(b)'
  <2>1. AttemptWindow(log', b) = AttemptWindow(log, b) /\ Shown(b)' = Shown(b)
    BY <1>2 DEF Shown
  <2>2. att'[b] = att[b] \/ att'[b].phase \notin Working
    BY <1>2, <1>3 DEF Working
  <2> QED BY <1>4, <2>1, <2>2, SameWindow
<1> QED BY <1>2, <1>4 DEF Seating

LEMMA DispatchSeating ==
    ASSUME WellTyped, Undisturbed, Seating, NEW a \in Attempts, Dispatch(a)
    PROVE  Seating'
<1>1. att[a] \in Locals(a) /\ att[a].phase = "claimed" /\ ~Gone(a)
  BY DEF Dispatch, WellTyped, Gone
<1>2. /\ run.status = "live" /\ a = run.active /\ Fenced(a)
      /\ att[a] = [FreshAttempt EXCEPT !.phase = "claimed"]
  BY <1>1 DEF Undisturbed, Calm, Fenced
<1>3. CASE reply.status = "completed"
  <2>1. run' = [run EXCEPT !.status = "completed"] /\ reply' = reply
    BY <1>2, <1>3 DEF Dispatch
  <2>2. run'.status = "completed"
    BY <2>1 DEF WellTyped
  <2> QED BY <2>1, <2>2 DEF Seating
<1>4. CASE reply.status # "completed"
  <2>1. PICK k, e : k = [FreshAttempt EXCEPT !.phase = "streaming"]
                    /\ e = [Event("model.requested") EXCEPT !.attempt = a]
    OBVIOUS
  <2>2. [att[a] EXCEPT !.phase = "streaming"] = k
    BY <1>2, <2>1 DEF FreshAttempt
  <2>3. /\ run' = run /\ reply' = ResetReply(a) /\ Set(a, k) /\ log' = Append(log, e)
    BY <1>2, <1>4, <2>1, <2>2 DEF Dispatch
  <2>4. att'[a] = k /\ \A b \in Attempts \ {a} : att'[b] = att[b]
    BY <2>3, SetIs DEF WellTyped
  <2>5. log \in Seq(Events(Attempts)) /\ Unrequested(log, a) /\ e \in Marks
    <3>1. a \in Nat
      BY AttemptsAre
    <3> QED BY <1>1, <1>2, <2>1, <3>1, MarksAre DEF Undisturbed, WellTyped, Windowed
  <2>6. reply'.parts = <<>> /\ \A b : Shown(b)' = <<>>
    BY <2>3 DEF ResetReply, Shown
  <2>7. Placed(a)'
    <3>1. AttemptWindow(log', a) = <<e>>
      BY <2>1, <2>3, <2>5, RequestedWindow
    <3>2. k \in Locals(a) /\ Kept(a, <<e>>, k, <<>>)
      BY <2>1, <2>5, DispatchKept
    <3>3. <<e>> \in Windows(a)
      <4>1. e.type = "model.requested"
        BY <2>1 DEF Event
      <4>2. e \in Events({a})
        BY <2>5 DEF Events
      <4>3. <<e>> \in Seq(Events({a}))
        BY <4>2
      <4> QED BY <4>3 DEF Windows
    <3>4. Steady(<<e>>) /\ Cuts(<<>>, <<e>>)
      BY <3>2, <3>3, KeptWritten
    <3> QED BY <2>4, <2>6, <3>1, <3>2, <3>4 DEF Placed
  <2>8. ASSUME NEW b \in Attempts \ {a} PROVE Placed(b)'
    <3>1. ~Open(log, b) /\ Placed(b) /\ Gone(b)
      BY <1>1, <1>2, OthersGone DEF Undisturbed, Windowed, Seating
    <3>2. AttemptWindow(log', b) = AttemptWindow(log, b)
      BY <2>1, <2>3, <2>5, <3>1, RequestedWindow
    <3>3. att[b].phase \notin Working
      BY <3>1, GoneIs
    <3> QED BY <2>4, <2>6, <3>1, <3>2, <3>3, SameWindow
  <2> QED BY <2>6, <2>7, <2>8, SeatedNone DEF Seating
<1> QED BY <1>3, <1>4

(* A reply rebuilt from the log around the items stored on it.             *)
LEMMA RebuiltSeating ==
    ASSUME WellTyped, Undisturbed, Seating, run.status = "live", NEW end
    PROVE  Seated(RebuiltReply(end).parts)
<1>1. CASE reply.status # "running"
  BY <1>1 DEF RebuiltReply, Seating
<1>2. CASE reply.status = "running"
  <2>1. PICK a \in Attempts : a = reply.attempt
    BY <1>2 DEF Undisturbed, ReplyOwned
  <2>2. PICK w, t : w = AttemptWindow(log, a) /\ t = LogCompletions(log)
    OBVIOUS
  <2>3. Shown(a) = reply.parts
    BY <1>2, <2>1 DEF Shown
  <2>4. w \in Windows(a) /\ t \in Seq(Completions) /\ reply.parts \in Seq(Parts({a}))
    BY <2>1, <2>2, LogCompletionsAre DEF WellTyped, Undisturbed, Windowed, Windows, ReplyOwned
  <2>5. Steady(w) /\ Cuts(reply.parts, w)
    BY <2>2, <2>3 DEF Seating, Placed
  <2>6. Seated(PlaceStoredItems(RebuiltParts(w \o t), reply.parts))
    BY <2>4, <2>5, RebuiltSeated
  <2>7. RebuiltReply(end) = [reply EXCEPT !.status = end,
                                          !.parts = PlaceStoredItems(RebuiltParts(w \o t), @)]
    BY <1>2, <2>1, <2>2 DEF RebuiltReply
  <2>8. RebuiltReply(end).parts = PlaceStoredItems(RebuiltParts(w \o t), reply.parts)
    BY <2>7 DEF WellTyped
  <2> QED BY <2>6, <2>8
<1> QED BY <1>1, <1>2

LEMMA OutsideSeating ==
    ASSUME WellTyped, Undisturbed, Seating, NEW end \in {"failed", "expired"}, SettleOutside(end)
    PROVE  Seating'
<1>1. run.status = "live" /\ run' = [run EXCEPT !.status = end] /\ reply' = RebuiltReply(end)
  BY DEF SettleOutside, SettleFromLog
<1>2. run'.status # "live"
  BY <1>1 DEF WellTyped
<1>3. Seated(reply'.parts)
  BY <1>1, RebuiltSeating
<1> QED BY <1>2, <1>3 DEF Seating

LEMMA FinishSeating ==
    ASSUME WellTyped, Undisturbed, Seating, NEW a \in Attempts, Finish(a)
    PROVE  Seating'
<1>1. att[a] \in Locals(a) /\ att[a].phase = "settling" /\ ~Gone(a)
  BY DEF Finish, WellTyped, Gone
<1>2. run.status = "live" /\ a = run.active /\ Fenced(a)
  BY <1>1 DEF Undisturbed, Calm, Fenced
<1>3. PICK l, k : l = att[a] /\ k = [att[a] EXCEPT !.phase = "ended"]
  OBVIOUS
<1>4. k.phase = "ended" /\ Set(a, k)
  BY <1>1, <1>3 DEF Finish, Locals
<1>5. att'[a] = k /\ \A b \in Attempts \ {a} : att'[b] = att[b]
  BY <1>4, SetIs DEF WellTyped
<1>6. Kept(a, AttemptWindow(log, a), l, Shown(a))
  BY <1>1, <1>2, <1>3 DEF Seating, Placed, Working
<1>7. ~l.failed /\ Seated(PartsOf(l.coll))
  <2>1. ~l.failed /\ Seated(l.coll.parts)
    BY <1>6 DEF Kept, Unthrown, Laid
  <2>2. l.coll.parts \in Seq(Parts({a}))
    BY <1>1, <1>3, LocalFields DEF Collectors
  <2> QED BY <2>1, <2>2, WithoutSeated DEF PartsOf
<1>8. reply' = LiveReply(a)
  BY <1>2, <1>3, <1>7 DEF Finish
<1>9. Seated(reply'.parts) /\ reply'.status = l.end
  BY <1>3, <1>7, <1>8 DEF LiveReply
<1>10. CASE l.end = "completed" /\ Rebuild(log).open # {}
  <2>1. run' = run /\ log' = log
    BY <1>2, <1>3, <1>7, <1>10 DEF Finish
  <2>2. \A b : Shown(b)' = <<>>
    BY <1>9, <1>10 DEF Shown
  <2>3. ASSUME NEW b \in Attempts PROVE Placed(b)'
    <3>1. Placed(b) /\ AttemptWindow(log', b) = AttemptWindow(log, b)
      BY <1>2, <2>1 DEF Seating
    <3>2. att'[b].phase \notin Working
      <4>1. CASE b = a
        BY <1>4, <1>5, <4>1 DEF Working
      <4>2. CASE b # a
        <5>1. Gone(b) /\ att'[b] = att[b]
          BY <1>1, <1>5, <4>2, OthersGone
        <5> QED BY <5>1, GoneIs
      <4> QED BY <4>1, <4>2
    <3> QED BY <2>2, <3>1, <3>2, SameWindow
  <2> QED BY <1>9, <2>3 DEF Seating
<1>11. CASE ~(l.end = "completed" /\ Rebuild(log).open # {})
  <2>1. run' = [run EXCEPT !.status = l.end]
    BY <1>2, <1>3, <1>7, <1>11 DEF Finish
  <2>2. l.end # "live"
    BY <1>1, <1>3, LocalFields
  <2>3. run'.status # "live"
    BY <2>1, <2>2 DEF WellTyped
  <2> QED BY <1>9, <2>3 DEF Seating
<1> QED BY <1>10, <1>11

LEMMA SeatingStep ==
    ASSUME WellTyped, Undisturbed, Accounted, Seating, MaxFailures = 0, [Next]_vars
    PROVE  Seating'
<1>1. CASE UNCHANGED vars
  BY <1>1 DEF vars, Seating, Placed, Shown
<1>2. ASSUME NEW a \in Attempts,
             \/ Claim(a) \/ Dispatch(a) \/ Stream(a) \/ End(a)
             \/ Persist(a) \/ PersistFails(a) \/ Crash(a)
      PROVE  Seating'
  <2>1. CASE Stream(a) \/ (End(a) /\ ~Finish(a))
    BY <2>1, WorkSeating
  <2>2. CASE Finish(a)
    BY <2>2, FinishSeating
  <2>3. CASE Persist(a) \/ PersistFails(a)
    BY <2>3, PersistSeating
  <2>4. CASE Claim(a) \/ Dispatch(a) \/ Crash(a)
    BY <2>4, ClaimSeating, DispatchSeating, CrashSeating
  <2> QED BY <1>2, <2>1, <2>2, <2>3, <2>4
<1> QED BY <1>1, <1>2, OutsideSeating DEF Next

LEMMA SeatingInit == Init => Seating
<1> SUFFICES ASSUME Init PROVE Seating
  OBVIOUS
<1>1. /\ log = <<>> /\ reply.parts = <<>> /\ reply.status = "none"
      /\ \A a \in Attempts : att[a].phase = "new"
  BY DEF Init, NoReply, FreshAttempt
<1>2. ASSUME NEW a \in Attempts PROVE Placed(a)
  <2>1. Unrequested(log, a) /\ log \in Seq(Events(Attempts))
    BY <1>1 DEF Unrequested
  <2>2. AttemptWindow(log, a) = <<>>
    BY <2>1, WindowUnrequested
  <2>3. Shown(a) = <<>>
    BY <1>1 DEF Shown
  <2> QED BY <1>1, <2>2, <2>3, SteadyNone, NoneShown DEF Placed, Working
<1> QED BY <1>1, <1>2, SeatedNone DEF Seating

LEMMA SeatingPlaces ==
    ASSUME Seating
    PROVE  ItemsKeepTheirPlace
  BY DEF Seating, Seated, ItemsKeepTheirPlace, Aside, CallParts

(* Where attempts do not overlap and no event write fails, an in-Run item  *)
(* stays, whatever settles the Run and from whichever source, after the    *)
(* calls of the steps before it and ahead of all that the step carrying it *)
(* produced.                                                               *)
THEOREM ItemsStayPlaced ==
    ASSUME ~MayOverlap, MaxFailures = 0
    PROVE  Spec => []ItemsKeepTheirPlace
<1> DEFINE Inv == WellTyped /\ Undisturbed /\ Accounted /\ EveryCallHasOutcome /\ Seating
<1>1. Init => Inv
  <2>1. Init => EveryCallHasOutcome
    BY DEF Init, EveryCallHasOutcome, Settled
  <2> QED BY <2>1, WellTypedInit, UndisturbedInit, AccountedInit, SeatingInit
<1>2. Inv /\ [Next]_vars => Inv'
  BY WellTypedStep, UndisturbedStep, AccountedStep, SeatingStep
<1>3. Inv => ItemsKeepTheirPlace
  BY SeatingPlaces
<1> HIDE DEF Inv
<1> QED BY <1>1, <1>2, <1>3, PTL DEF Spec
=============================================================================
