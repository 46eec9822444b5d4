------------------------------ MODULE Accounts ------------------------------
(***************************************************************************)
(* Who a request is: accounts, tokens and the middleware that reads them,   *)
(* with the handlers as far as they depend on it.  The handlers' own work   *)
(* on polls and votes is the subject of Backend; here, of a vote, only the  *)
(* key it is stored under matters.  A handler is given what it uses of the  *)
(* request, and "answer" is what it answers.                                *)
(***************************************************************************)
EXTENDS Validation

CONSTANTS
    Tokens,    \* signed JWTs
    VoterIds,  \* random ids of anonymous voters
    None

\* What a handler answers: a status, or the token of a login.
Codes == {"ok", "400", "401", "409"}
Answers == Codes \union Tokens

ASSUME AccountsAssumption ==
    /\ None \notin Text \union VoterIds \union Answers
    /\ VoterIds \intersect Text = {}
    /\ Codes \intersect Tokens = {}

VARIABLES
    accounts,  \* collection users, by e-mail; the index on e-mail is unique
    owner,     \* [Tokens -> the account a token was signed for]
    expired    \* tokens older than TokenTTL, or of an earlier JWT secret

accountVars == <<accounts, owner, expired>>

AccountsTypeOK ==
    /\ accounts \subseteq Text
    /\ owner \in [Tokens -> Text \union {None}]
    /\ expired \subseteq Tokens

AccountsInit ==
    /\ accounts = {}
    /\ owner = [k \in Tokens |-> None]
    /\ expired = {}

-----------------------------------------------------------------------------
(* Tokens *)

\* ParseToken succeeds.
Live(k) == k \in Tokens /\ owner[k] # None /\ k \notin expired

\* OptionalAuth: the user of the Bearer token, if it is any good.
Identity(k) == IF Live(k) THEN owner[k] ELSE None

\* Two logins of a user within one second sign the same token.
GenerateToken(k, user) ==
    /\ owner[k] \in {None, user}
    /\ k \notin expired
    /\ owner' = [owner EXCEPT ![k] = user]

Expire(k) ==
    /\ Live(k)
    /\ expired' = expired \union {k}
    /\ UNCHANGED <<accounts, owner>>

-----------------------------------------------------------------------------
(* Handlers *)

\* UserRepository.Create.  A duplicate and a store that fails, before or after
\* the insert, are answered alike.
CreateUser(email, answer) ==
    \/ /\ answer = "409"
       /\ accounts' \in {accounts, accounts \union {email}}
    \/ /\ email \notin accounts
       /\ answer = "ok"
       /\ accounts' = accounts \union {email}

\* Variant: the address is not lowered before it is stored and looked up.
SignupAsTyped(typed, answer) ==
    LET email == TrimSpace(typed)
    IN  /\ \/ ~ValidEmail(email) /\ answer = "400" /\ UNCHANGED accounts
           \/ ValidEmail(email) /\ CreateUser(email, answer)
        /\ UNCHANGED <<owner, expired>>

Signup(typed, answer) ==
    LET email == Normalise(typed)
    IN  /\ \/ ~ValidEmail(email) /\ answer = "400" /\ UNCHANGED accounts
           \/ ValidEmail(email) /\ CreateUser(email, answer)
        /\ UNCHANGED <<owner, expired>>

\* Wrong credentials may be typed for any address.
Login(typed, answer) ==
    LET email == Normalise(typed)
    IN  /\ \/ answer = "401" /\ UNCHANGED owner
           \/ /\ email \in accounts
              /\ answer \in Tokens
              /\ GenerateToken(answer, email)
        /\ UNCHANGED <<accounts, expired>>

\* AuthRequired before GetMyPolls.
GetMyPolls(sent, answer) == answer = IF Live(sent) THEN "ok" ELSE "401"

\* Variant: an invalid poll is answered as a missing token is.
CreatePollUnauthorized(sent, draft, answer) ==
    answer = IF /\ Live(sent)
                /\ ValidQuestion(draft.question)
                /\ ValidateOptions(draft.options) # Invalid
             THEN "ok" ELSE "401"

\* AuthRequired before CreatePoll.
CreatePoll(sent, draft, answer) ==
    answer = IF ~Live(sent) THEN "401"
             ELSE IF /\ ValidQuestion(draft.question)
                     /\ ValidateOptions(draft.options) # Invalid
             THEN "ok" ELSE "400"

\* voterKey: the user if there is one, else the X-Voter-Id header.
VoterKey(sent, header) ==
    IF Identity(sent) # None THEN Identity(sent) ELSE header

\* What VoteService does with the key is the subject of Backend.
Vote(sent, header, answer) ==
    /\ answer = IF VoterKey(sent, header) = None THEN "400" ELSE "ok"
    /\ UNCHANGED accountVars

=============================================================================
