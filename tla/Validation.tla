----------------------------- MODULE Validation -----------------------------
(***************************************************************************)
(* utils/validation.go, and the checks that the form of a new poll makes    *)
(* before it sends anything.  A text is a word, in lower case or not, with  *)
(* or without white space around it.                                       *)
(***************************************************************************)
EXTENDS Naturals, Sequences

CONSTANTS
    Words,      \* what texts say, apart from case and surrounding space
    Blank,      \* the word of the empty text
    Length,     \* the bytes of each word
    Addresses   \* the words that match emailRegex and have at most 254 bytes

MaxQuestionLen == 200
MaxOptionLen == 100
MinOptions == 2
MaxOptions == 6

Text == [word : Words, upper : BOOLEAN, padded : BOOLEAN]
Draft == [question : Text, options : Seq(Text)]

ASSUME ValidationAssumption ==
    /\ Blank \in Words \ Addresses
    /\ Length \in [Words -> Nat]

TrimSpace(x) == [x EXCEPT !.padded = FALSE]
ToLower(x) == [x EXCEPT !.upper = FALSE]

-----------------------------------------------------------------------------
(* The server *)

\* What ValidateEmail returns of a valid address.
Normalise(x) == TrimSpace(ToLower(x))

ValidEmail(x) == x.word \in Addresses

ValidQuestion(x) == x.word # Blank /\ Length[x.word] <= MaxQuestionLen

Invalid == <<>>

\* The loop over the options: cleaned[i] is the slice after the i-th of them, and
\* Invalid from the first one on that is refused.  "seen" is the lowered prefix.
Cleaned(options) ==
    LET opt(i) == TrimSpace(options[i])
        cleaned[i \in 0..Len(options)] ==
            IF i = 0 THEN <<>>
            ELSE IF \/ Len(cleaned[i - 1]) # i - 1
                    \/ opt(i).word = Blank \/ Length[opt(i).word] > MaxOptionLen
                    \/ \E j \in 1..(i - 1) :
                           ToLower(cleaned[i - 1][j]) = ToLower(opt(i))
            THEN Invalid
            ELSE Append(cleaned[i - 1], opt(i))
    IN  cleaned

ValidateOptions(options) ==
    IF Len(options) \in MinOptions..MaxOptions
    THEN Cleaned(options)[Len(options)] ELSE Invalid

-----------------------------------------------------------------------------
(* The form of a new poll: what it sends, and whether it sends it *)

\* The trimmed options without the empty ones, up to the i-th.
Kept(options) ==
    LET kept[i \in 0..Len(options)] ==
            IF i = 0 THEN <<>>
            ELSE IF options[i].word = Blank THEN kept[i - 1]
            ELSE Append(kept[i - 1], TrimSpace(options[i]))
    IN  kept

Filled(options) == Kept(options)[Len(options)]

\* Variant: the options are compared as typed.
FormAcceptsByCase(draft) ==
    LET sent == Filled(draft.options)
    IN  /\ draft.question.word # Blank
        /\ Len(sent) >= MinOptions
        /\ \A i, j \in DOMAIN sent : sent[i] = sent[j] => i = j

FormAccepts(draft) ==
    LET sent == Filled(draft.options)
    IN  /\ draft.question.word # Blank
        /\ Len(sent) >= MinOptions
        /\ \A i, j \in DOMAIN sent : ToLower(sent[i]) = ToLower(sent[j]) => i = j

\* The body of the request.
Sent(draft) ==
    [question |-> TrimSpace(draft.question), options |-> Filled(draft.options)]

TooLong(draft) ==
    \/ Length[draft.question.word] > MaxQuestionLen
    \/ \E i \in DOMAIN draft.options :
           Length[draft.options[i].word] > MaxOptionLen

=============================================================================
