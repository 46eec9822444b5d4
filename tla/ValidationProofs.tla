-------------------------- MODULE ValidationProofs --------------------------
(***************************************************************************)
(* What the two loops over the options of a draft compute, for options of  *)
(* any number and any words.  The library's induction theorems take an     *)
(* operator; here a set of numbers is shown to hold them all, which is a    *)
(* consequence of the well-foundedness of < alone.                          *)
(***************************************************************************)
EXTENDS Validation, SequenceTheorems, WellFoundedInduction, TLAPS

-----------------------------------------------------------------------------
(* Induction *)

\* A set of natural numbers with 0 and with the successor of each of its
\* elements has all of them.
LEMMA SetInduction ==
    ASSUME NEW T, 0 \in T, \A n \in Nat : n \in T => n + 1 \in T
    PROVE  Nat \subseteq T
<1> DEFINE Rest == Nat \ T
<1> SUFFICES ASSUME Rest # {} PROVE FALSE
  OBVIOUS
<1>1. PICK x \in Rest : \A y \in Rest : <<y, x>> \notin OpToRel(<, Nat)
  <2>1. Rest \subseteq Nat
    OBVIOUS
  <2> HIDE DEF Rest
  <2> QED
    BY <2>1, WFMin, NatLessThanWellFounded
<1>2. x \in Nat /\ x # 0 /\ x \notin T
  OBVIOUS
<1>3. x - 1 \in Nat /\ x - 1 < x /\ (x - 1) + 1 = x
  BY <1>2
<1>4. <<x - 1, x>> \in OpToRel(<, Nat)
  BY <1>2, <1>3 DEF OpToRel
<1>5. x - 1 \in T
  BY <1>1, <1>3, <1>4
<1> QED
  BY <1>2, <1>3, <1>5

\* The same up to a bound.
LEMMA BoundedInduction ==
    ASSUME NEW n \in Nat, NEW T, 0 \in T, \A i \in 1..n : i - 1 \in T => i \in T
    PROVE  0..n \subseteq T
<1> DEFINE U == T \union {i \in Nat : i > n}
<1>1. 0 \in U
  OBVIOUS
<1>2. ASSUME NEW i \in Nat, i \in U PROVE i + 1 \in U
  <2>1. CASE i < n
    <3>1. i \in T /\ i + 1 \in 1..n /\ (i + 1) - 1 = i
      BY <1>2, <2>1
    <3> QED
      BY <3>1
  <2>2. CASE i >= n
    BY <2>2
  <2> QED
    BY <2>1, <2>2
<1>3. Nat \subseteq U
  <2> HIDE DEF U
  <2> QED
    BY <1>1, <1>2, SetInduction
<1> QED
  BY <1>3

-----------------------------------------------------------------------------
(* The server's loop *)

\* What the loop asks of the first i options: none is empty or too long, and
\* none equals an earlier one in lower case.
Acceptable(options, i) ==
    \A j \in 1..i :
        /\ options[j].word # Blank /\ Length[options[j].word] <= MaxOptionLen
        /\ \A k \in 1..(j - 1) :
               ToLower(TrimSpace(options[k])) # ToLower(TrimSpace(options[j]))

Trimmed(options, i) == [j \in 1..i |-> TrimSpace(options[j])]

\* Space and case are no part of the word.
LEMMA TrimmedText ==
    ASSUME NEW x \in Text
    PROVE  /\ TrimSpace(x) \in Text /\ TrimSpace(x).word = x.word
           /\ TrimSpace(TrimSpace(x)) = TrimSpace(x)
           /\ ToLower(x) \in Text /\ ToLower(x).word = x.word
BY DEF TrimSpace, ToLower, Text

LEMMA TrimmedSlice ==
    ASSUME NEW options \in Seq(Text), NEW i \in 0..Len(options)
    PROVE  /\ Trimmed(options, i) \in Seq(Text) /\ Len(Trimmed(options, i)) = i
           /\ \A j \in 1..i : Trimmed(options, i)[j] = TrimSpace(options[j])
<1>1. i \in Nat /\ \A j \in 1..i : options[j] \in Text
  BY ElementOfSeq
<1>2. Trimmed(options, i) \in [1..i -> Text]
  BY <1>1, TrimmedText DEF Trimmed
<1> QED
  BY <1>1, <1>2 DEF Trimmed

\* The loop in a closed form: after i options it holds the first i of them,
\* trimmed, if they are acceptable, and has refused the draft if they are not.
LEMMA CleanedIs ==
    ASSUME NEW options \in Seq(Text)
    PROVE  Cleaned(options) =
               [i \in 0..Len(options) |->
                   IF Acceptable(options, i) THEN Trimmed(options, i) ELSE Invalid]
<1> DEFINE n == Len(options)
           opt(i) == TrimSpace(options[i])
           Body(f, i) ==
               IF i = 0 THEN <<>>
               ELSE IF \/ Len(f[i - 1]) # i - 1
                       \/ opt(i).word = Blank \/ Length[opt(i).word] > MaxOptionLen
                       \/ \E j \in 1..(i - 1) :
                              ToLower(f[i - 1][j]) = ToLower(opt(i))
               THEN Invalid
               ELSE Append(f[i - 1], opt(i))
           G(i) == IF Acceptable(options, i) THEN Trimmed(options, i) ELSE Invalid
           g == [i \in 0..n |-> G(i)]
<1>0. n \in Nat
  OBVIOUS
<1>1. G(0) = <<>>
  <2>1. Trimmed(options, 0) = <<>>
    BY TrimmedSlice, EmptySeq
  <2> QED
    BY <2>1 DEF Invalid
<1>2. ASSUME NEW f, NEW i \in 1..n, f[i - 1] = G(i - 1) PROVE Body(f, i) = G(i)
  <2>0. /\ i - 1 \in 0..n /\ i \in 0..n /\ options[i] \in Text
        /\ opt(i).word = options[i].word /\ opt(i) \in Text
    BY ElementOfSeq, TrimmedText
  <2>1. CASE ~Acceptable(options, i - 1)
    <3>1. ~Acceptable(options, i)
      BY <2>1 DEF Acceptable
    <3>2. f[i - 1] = <<>>
      BY <1>2, <2>1 DEF Invalid
    <3>3. CASE i = 1
      BY <2>1, <3>3 DEF Acceptable
    <3>4. CASE i # 1
      <4>1. Len(f[i - 1]) # i - 1
        BY <3>2, <3>4
      <4> QED
        BY <3>1, <4>1
    <3> QED
      BY <3>3, <3>4
  <2>2. CASE Acceptable(options, i - 1)
    <3>1. f[i - 1] = Trimmed(options, i - 1)
      BY <1>2, <2>2
    <3>2. /\ Len(f[i - 1]) = i - 1 /\ f[i - 1] \in Seq(Text)
          /\ \A j \in 1..(i - 1) : f[i - 1][j] = opt(j)
      BY <2>0, <3>1, TrimmedSlice
    <3>3. Acceptable(options, i) <=>
              /\ opt(i).word # Blank /\ ~(Length[opt(i).word] > MaxOptionLen)
              /\ ~\E j \in 1..(i - 1) : ToLower(f[i - 1][j]) = ToLower(opt(i))
      <4>1. Length[options[i].word] \in Nat
        BY <2>0, ValidationAssumption DEF Text
      <4>2. \A j \in 1..i : j \in 1..(i - 1) \/ j = i
        OBVIOUS
      <4> QED
        BY <2>0, <2>2, <3>2, <4>1, <4>2 DEF Acceptable, MaxOptionLen
    <3>4. Append(f[i - 1], opt(i)) = Trimmed(options, i)
      <4>1. /\ Append(f[i - 1], opt(i)) \in Seq(Text)
            /\ Len(Append(f[i - 1], opt(i))) = i
            /\ \A j \in 1..i : Append(f[i - 1], opt(i))[j] = opt(j)
        BY <2>0, <3>2, AppendProperties
      <4>2. /\ Trimmed(options, i) \in Seq(Text) /\ Len(Trimmed(options, i)) = i
            /\ \A j \in 1..i : Trimmed(options, i)[j] = opt(j)
        BY <2>0, TrimmedSlice
      <4> QED
        BY <4>1, <4>2, SeqEqual
    <3> QED
      BY <3>2, <3>3, <3>4
  <2> QED
    BY <2>1, <2>2
<1>3. g = [i \in 0..n |-> Body(g, i)]
  <2>1. ASSUME NEW i \in 0..n PROVE g[i] = Body(g, i)
    <3>1. CASE i = 0
      BY <1>1, <3>1
    <3>2. CASE i # 0
      <4>1. i \in 1..n /\ g[i - 1] = G(i - 1)
        BY <3>2
      <4>2. Body(g, i) = G(i)
        <5> HIDE DEF Body, G, g, n
        <5> QED
          BY <1>2, <4>1
      <4> QED
        BY <4>2
    <3> QED
      BY <3>1, <3>2
  <2> HIDE DEF Body
  <2> QED
    BY <2>1
<1>4. ASSUME NEW f, f = [i \in 0..n |-> Body(f, i)] PROVE f = g
  <2> DEFINE T == {i \in 0..n : f[i] = G(i)}
  <2>1. f[0] = <<>>
    <3>1. f[0] = Body(f, 0)
      <4> HIDE DEF Body
      <4> QED
        BY <1>0, <1>4
    <3> QED
      BY <3>1
  <2>2. 0 \in T
    BY <1>0, <1>1, <2>1
  <2>3. ASSUME NEW i \in 1..n, i - 1 \in T PROVE i \in T
    <3>1. f[i] = Body(f, i) /\ f[i - 1] = G(i - 1)
      <4> HIDE DEF Body
      <4> QED
        BY <1>4, <2>3
    <3>2. Body(f, i) = G(i)
      <4> HIDE DEF Body, G, n
      <4> QED
        BY <1>2, <3>1
    <3> QED
      BY <3>1, <3>2
  <2>4. 0..n \subseteq T
    <3> HIDE DEF T
    <3> QED
      BY <1>0, <2>2, <2>3, BoundedInduction
  <2>5. \A i \in 0..n : f[i] = G(i)
    BY <2>4
  <2>6. f = [i \in 0..n |-> f[i]]
    <3> HIDE DEF Body, n, G
    <3> QED
      BY <1>4
  <2> HIDE DEF G, n, Body
  <2> QED
    BY <2>5, <2>6
<1>5. Cleaned(options) = CHOOSE f : f = [i \in 0..n |-> Body(f, i)]
  BY DEF Cleaned
<1>6. Cleaned(options) = g
  <2> HIDE DEF Body, g, n
  <2> QED
    BY <1>3, <1>4, <1>5
<1> QED
  BY <1>6

\* ValidateOptions accepts exactly the drafts whose number of options is in
\* range and whose options are acceptable, and then returns them trimmed.
LEMMA ValidateOptionsIs ==
    ASSUME NEW options \in Seq(Text)
    PROVE  ValidateOptions(options) =
               IF Len(options) \in MinOptions..MaxOptions
                  /\ Acceptable(options, Len(options))
               THEN Trimmed(options, Len(options)) ELSE Invalid
<1>1. Len(options) \in 0..Len(options)
  OBVIOUS
<1> QED
  BY <1>1, CleanedIs DEF ValidateOptions

-----------------------------------------------------------------------------
(* The form's map and filter *)

\* The recursion of Kept has a solution: one for the first m - 1 options
\* extends to the m-th.
LEMMA KeptIs ==
    ASSUME NEW options \in Seq(Text)
    PROVE  /\ Kept(options)[0] = <<>>
           /\ \A i \in 1..Len(options) :
                  Kept(options)[i] =
                      IF options[i].word = Blank THEN Kept(options)[i - 1]
                      ELSE Append(Kept(options)[i - 1], TrimSpace(options[i]))
<1> DEFINE n == Len(options)
           Body(f, i) == IF i = 0 THEN <<>>
                         ELSE IF options[i].word = Blank THEN f[i - 1]
                         ELSE Append(f[i - 1], TrimSpace(options[i]))
           Solves(f, m) == f = [i \in 0..m |-> Body(f, i)]
           T == {m \in 0..n : \E f : Solves(f, m)}
<1>0. /\ n \in Nat /\ 0 \in 0..n
      /\ \A i \in 1..n : i \in 0..n /\ i # 0
  OBVIOUS
<1>1. ASSUME NEW f, NEW g, NEW i, f[i - 1] = g[i - 1] PROVE Body(f, i) = Body(g, i)
  BY <1>1, Zenon
<1>2. 0 \in T
  <2>1. Solves([i \in 0..0 |-> <<>>], 0)
    <3>1. \A i \in 0..0 : i = 0
      OBVIOUS
    <3> QED
      BY <3>1, Zenon
  <2> HIDE DEF Solves, n
  <2> QED
    BY <1>0, <2>1
<1>3. ASSUME NEW m \in 1..n, m - 1 \in T PROVE m \in T
  <2> HIDE DEF Body
  <2>1. PICK f : Solves(f, m - 1)
    BY <1>3
  <2> DEFINE h == [i \in 0..m |-> IF i = m THEN Body(f, m) ELSE f[i]]
  <2>2. /\ m \in 0..n
        /\ \A i \in 0..m : i # m => i \in 0..(m - 1)
        /\ \A i \in 0..m : i = 0 \/ (i - 1 \in 0..m /\ i - 1 # m)
    BY <1>0
  <2>3. ASSUME NEW i \in 0..m PROVE h[i] = Body(h, i)
    <3>1. Body(h, i) = Body(f, i)
      <4>1. CASE i = 0
        BY <4>1, Zenon DEF Body
      <4>2. CASE i # 0
        <5>1. h[i - 1] = f[i - 1]
          <6> HIDE DEF n
          <6> QED
            BY <2>2, <4>2, Zenon
        <5> HIDE DEF h
        <5> QED
          BY <1>1, <5>1, Zenon
      <4> QED
        BY <4>1, <4>2, Zenon
    <3>2. CASE i = m
      <4>1. h[i] = Body(f, m)
        BY <3>2, Zenon
      <4> HIDE DEF h
      <4> QED
        BY <3>1, <3>2, <4>1, Zenon
    <3>3. CASE i # m
      <4>1. h[i] = f[i] /\ i \in 0..(m - 1)
        <5> HIDE DEF n
        <5> QED
          BY <2>2, <3>3, Zenon
      <4>2. f[i] = Body(f, i)
        BY <2>1, <4>1, Zenon
      <4> HIDE DEF h
      <4> QED
        BY <3>1, <4>1, <4>2, Zenon
    <3> QED
      BY <3>2, <3>3, Zenon
  <2>4. Solves(h, m)
    BY <2>3, Zenon
  <2> HIDE DEF Solves, h, n
  <2> QED
    BY <2>2, <2>4
<1>4. \E f : Solves(f, n)
  <2>1. 0..n \subseteq T
    <3> HIDE DEF T
    <3> QED
      BY <1>0, <1>2, <1>3, BoundedInduction
  <2> HIDE DEF Solves
  <2> QED
    BY <1>0, <2>1
<1>5. Kept(options) = CHOOSE f : Solves(f, n)
  BY Zenon DEF Kept
<1>6. Solves(Kept(options), n)
  <2> HIDE DEF Solves
  <2> QED
    BY <1>4, <1>5, Zenon
<1>7. \A i \in 0..n : Kept(options)[i] = Body(Kept(options), i)
  <2> HIDE DEF n, Body
  <2> QED
    BY <1>6, Zenon
<1> HIDE DEF Solves, T
<1> QED
  BY <1>0, <1>7, Zenon

\* After i options the form holds only words from among them that are not
\* empty, trimmed, and no more of them than i.
LEMMA KeptWords ==
    ASSUME NEW options \in Seq(Text)
    PROVE  \A i \in 0..Len(options) :
               /\ Kept(options)[i] \in Seq(Text) /\ Len(Kept(options)[i]) <= i
               /\ \A k \in DOMAIN Kept(options)[i] :
                      \E j \in 1..i : /\ options[j].word # Blank
                                      /\ Kept(options)[i][k] = TrimSpace(options[j])
<1> DEFINE n == Len(options)
           FromFirst(c, i) ==
               /\ c \in Seq(Text) /\ Len(c) <= i
               /\ \A k \in DOMAIN c :
                      \E j \in 1..i : /\ options[j].word # Blank
                                      /\ c[k] = TrimSpace(options[j])
           T == {i \in 0..n : FromFirst(Kept(options)[i], i)}
<1>1. 0 \in T
  <2>1. FromFirst(<<>>, 0) /\ 0 \in 0..n
    OBVIOUS
  <2> HIDE DEF FromFirst, n
  <2> QED
    BY <2>1, KeptIs
<1>2. ASSUME NEW i \in 1..n, i - 1 \in T PROVE i \in T
  <2>1. i \in 0..n /\ i \in Nat /\ i - 1 \in Nat /\ options[i] \in Text
    BY ElementOfSeq
  <2>2. ASSUME NEW c, FromFirst(c, i - 1) PROVE FromFirst(c, i)
    BY <2>1, <2>2
  <2>3. ASSUME NEW c, FromFirst(c, i - 1), options[i].word # Blank
        PROVE  FromFirst(Append(c, TrimSpace(options[i])), i)
    <3> DEFINE d == Append(c, TrimSpace(options[i]))
    <3>1. /\ d \in Seq(Text) /\ Len(d) = Len(c) + 1
          /\ \A k \in 1..Len(c) : d[k] = c[k]
          /\ d[Len(c) + 1] = TrimSpace(options[i])
      BY <2>1, <2>3, TrimmedText, AppendProperties
    <3>2. ASSUME NEW k \in DOMAIN d
          PROVE  \E j \in 1..i : options[j].word # Blank /\ d[k] = TrimSpace(options[j])
      <4>1. CASE k = Len(c) + 1
        BY <2>1, <2>3, <3>1, <4>1
      <4>2. CASE k # Len(c) + 1
        <5>1. k \in DOMAIN c /\ d[k] = c[k]
          <6>1. c \in Seq(Text)
            BY <2>3
          <6> HIDE DEF d
          <6> QED
            BY <3>1, <4>2, <6>1
        <5> HIDE DEF d
        <5> QED
          BY <2>1, <2>3, <5>1
      <4> QED
        BY <4>1, <4>2
    <3>3. Len(d) <= i
      <4> HIDE DEF d
      <4> QED
        BY <2>1, <2>3, <3>1
    <3>4. FromFirst(d, i)
      <4> HIDE DEF d
      <4> QED
        BY <3>1, <3>2, <3>3
    <3> QED
      BY <3>4
  <2> HIDE DEF FromFirst
  <2>4. FromFirst(Kept(options)[i - 1], i - 1)
    BY <1>2
  <2>5. FromFirst(Kept(options)[i], i)
    BY <2>2, <2>3, <2>4, KeptIs
  <2> QED
    BY <2>1, <2>5
<1>3. 0..n \subseteq T
  <2>1. n \in Nat
    OBVIOUS
  <2> HIDE DEF T, n
  <2> QED
    BY <1>1, <1>2, <2>1, BoundedInduction
<1> QED
  BY <1>3

\* What the form sends: texts, no more than were typed, none of them empty,
\* each one of those typed.
LEMMA FilledWords ==
    ASSUME NEW options \in Seq(Text)
    PROVE  /\ Filled(options) \in Seq(Text) /\ Len(Filled(options)) <= Len(options)
           /\ \A k \in DOMAIN Filled(options) :
                  /\ Filled(options)[k].word # Blank
                  /\ TrimSpace(Filled(options)[k]) = Filled(options)[k]
<1>1. Len(options) \in 0..Len(options)
  OBVIOUS
<1>2. /\ Filled(options) \in Seq(Text) /\ Len(Filled(options)) <= Len(options)
      /\ \A k \in DOMAIN Filled(options) :
             \E j \in 1..Len(options) : /\ options[j].word # Blank
                                       /\ Filled(options)[k] = TrimSpace(options[j])
  BY <1>1, KeptWords DEF Filled
<1>3. \A j \in 1..Len(options) : options[j] \in Text
  BY ElementOfSeq
<1> QED
  BY <1>2, <1>3, TrimmedText

-----------------------------------------------------------------------------
(* The form against the server *)

\* The server accepts what the form sends unless something in it is too long:
\* the form and the loop agree about empty and equal options.
THEOREM FormAgreesWithServer ==
    ASSUME NEW draft \in Draft, FormAccepts(draft), Len(draft.options) <= MaxOptions,
           ~TooLong(Sent(draft))
    PROVE  /\ ValidQuestion(Sent(draft).question)
           /\ ValidateOptions(Sent(draft).options) = Sent(draft).options
           /\ Sent(draft).options # Invalid
<1> DEFINE sent == Filled(draft.options)
<1>1. draft.question \in Text /\ draft.options \in Seq(Text)
  BY DEF Draft
<1>2. Sent(draft).question = TrimSpace(draft.question) /\ Sent(draft).options = sent
  BY DEF Sent
<1>3. ValidQuestion(Sent(draft).question)
  <2>1. TrimSpace(draft.question).word = draft.question.word
    BY <1>1, TrimmedText
  <2>2. Length[draft.question.word] \in Nat
    BY <1>1, ValidationAssumption DEF Text
  <2> QED
    BY <1>2, <2>1, <2>2 DEF ValidQuestion, FormAccepts, TooLong, MaxQuestionLen
<1>4. /\ sent \in Seq(Text) /\ Len(sent) <= Len(draft.options)
      /\ \A k \in DOMAIN sent : sent[k].word # Blank /\ TrimSpace(sent[k]) = sent[k]
  BY <1>1, FilledWords
<1>5. /\ Len(sent) >= MinOptions
      /\ \A i, j \in DOMAIN sent : ToLower(sent[i]) = ToLower(sent[j]) => i = j
  BY DEF FormAccepts
<1>6. \A i \in DOMAIN sent : ~(Length[sent[i].word] > MaxOptionLen)
  BY <1>2 DEF TooLong
<1> HIDE DEF sent
<1>7. Len(sent) \in MinOptions..MaxOptions
  <2>1. Len(draft.options) \in Nat /\ Len(sent) \in Nat
    BY <1>1, <1>4
  <2>2. Len(sent) >= MinOptions /\ Len(sent) <= Len(draft.options)
    BY <1>4, <1>5
  <2>3. \A k, m \in Nat : k >= 2 /\ k <= m /\ m <= 6 => k \in 2..6
    OBVIOUS
  <2> QED
    BY <2>1, <2>2, <2>3, Zenon DEF MinOptions, MaxOptions
<1>8. Acceptable(sent, Len(sent))
  <2> SUFFICES ASSUME NEW j \in 1..Len(sent)
               PROVE  /\ sent[j].word # Blank /\ Length[sent[j].word] <= MaxOptionLen
                      /\ \A k \in 1..(j - 1) : ToLower(TrimSpace(sent[k])) # ToLower(TrimSpace(sent[j]))
    BY DEF Acceptable
  <2>1. j \in DOMAIN sent /\ sent[j] \in Text
    BY <1>4, ElementOfSeq
  <2>2. Length[sent[j].word] \in Nat
    BY <2>1, ValidationAssumption DEF Text
  <2>3. Length[sent[j].word] <= MaxOptionLen
    BY <1>6, <2>1, <2>2 DEF MaxOptionLen
  <2>4. ASSUME NEW k \in 1..(j - 1)
        PROVE  ToLower(TrimSpace(sent[k])) # ToLower(TrimSpace(sent[j]))
    <3>1. k \in DOMAIN sent /\ k # j
      BY <1>4
    <3> QED
      BY <1>4, <1>5, <2>1, <3>1
  <2> QED
    BY <1>4, <2>1, <2>3, <2>4
<1>9. ValidateOptions(sent) = Trimmed(sent, Len(sent))
  BY <1>4, <1>7, <1>8, ValidateOptionsIs
<1>10. Trimmed(sent, Len(sent)) = sent
  <2>1. /\ Trimmed(sent, Len(sent)) \in Seq(Text) /\ Len(Trimmed(sent, Len(sent))) = Len(sent)
        /\ \A j \in 1..Len(sent) : Trimmed(sent, Len(sent))[j] = sent[j]
    BY <1>4, TrimmedSlice
  <2> QED
    BY <1>4, <2>1, SeqEqual
<1>11. sent # Invalid
  BY <1>4, <1>5 DEF Invalid, MinOptions
<1> QED
  BY <1>2, <1>3, <1>9, <1>10, <1>11

=============================================================================
