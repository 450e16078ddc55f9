------------------------------ MODULE PinReset ------------------------------
(***************************************************************************)
(* Accounts and their PINs: RegisterView, LoginView, LogoutView,           *)
(* ChangePinView, the two steps of a forgotten PIN, ResetPinRequestView    *)
(* and ResetPinConfirmView with their one-time codes (PinResetOTP), and    *)
(* the command migrate_password_to_pin.                                    *)
(*                                                                         *)
(* An account is known by its phone number as it was typed.  Every         *)
(* statement commits by itself; a request keeps what it read.  A code is   *)
(* named by the reset request that created it, so that two codes differ.   *)
(***************************************************************************)
EXTENDS Naturals, Sequences, FiniteSets

CONSTANTS
    Phones,    \* the phone numbers as users type them
    Intl,      \* Intl[p]: what the reset serializers make of p ("0..." to "+234...")
    Pins,      \* the PINs users choose
    SignUps, Logins, Changes, Resets, Confirms,   \* the requests of each view
    Migrations,  \* the accounts that runs of migrate_password_to_pin come to
    Legacy,    \* the accounts that still have the password of the demo data
    NewPin,    \* the PIN the command gives them
    Mixes      \* the sets of requests that come together in one behaviour

Requests == SignUps \cup Logins \cup Changes \cup Resets \cup Confirms \cup Migrations

ASSUME PhonesAssumption == Intl \in [Phones -> Phones]
ASSUME MixesAssumption  == Mixes \subseteq SUBSET Requests
ASSUME LegacyAssumption == Legacy \subseteq Phones /\ NewPin \in Pins

NoPin == "unset"         \* the account has no PIN: no check succeeds

\* A PIN is four to six digits, and every request is of one view.
ASSUME PinsAssumption  == Pins \cap {NoPin, "absent"} = {}
ASSUME KindsAssumption ==
    /\ Changes \cap (SignUps \cup Logins \cup Resets \cup Confirms) = {}
    /\ Migrations \cap (SignUps \cup Logins \cup Changes \cup Resets \cup Confirms) = {}
    /\ SignUps \cap (Logins \cup Resets \cup Confirms) = {}
    /\ Resets \cap (Logins \cup Confirms) = {} /\ Confirms \cap Logins = {}

VARIABLES
    pin,       \* pin[p]: User.pin of the account p, "absent" if there is none
    issued,    \* issued[p]: the codes of p, in the order of created_at
    spent,     \* the codes with is_used
    expired,   \* the codes whose ten minutes are over
    request,   \* request[r]: progress of a request and what it has in hand
    uses,      \* uses[c]: how often code c has set a PIN
    raced,     \* the codes created while another request of the account was in
               \* between its update and its create, and the codes two confirmations
               \* had found valid at once
    overtaken, \* the changes whose account got another PIN after they checked it
    blind      \* the changes that replaced a PIN other than the one they were given

pinVars == <<pin, issued, spent, expired, request, uses, raced, overtaken, blind>>

Accounts == {p \in Phones : pin[p] # "absent"}

PinInit ==
    /\ pin = [p \in Phones |-> "absent"]
    /\ issued = [p \in Phones |-> <<>>]
    /\ spent = {} /\ expired = {}
    /\ \E mix \in Mixes :
         request = [r \in Requests |-> [pc |-> IF r \in mix THEN "due" ELSE "never"]]
    /\ uses = [c \in Resets |-> 0]
    /\ raced = {} /\ overtaken = {} /\ blind = {}

\* The changes of an account that have looked at its PIN and not saved theirs.
Checked(p) == {h \in Changes \cup Migrations : request[h].pc = "checked" /\ request[h].phone = p}

Goes(r, state)   == request' = [request EXCEPT ![r] = state]
Answers(r, code) == Goes(r, [pc |-> code])

\* A request writes the PIN of an account.
SetsPin(r, p, new) ==
    /\ pin' = [pin EXCEPT ![p] = new]
    /\ overtaken' = overtaken \cup (Checked(p) \ {r})

codeVars  == <<issued, spent, expired>>
traceVars == <<uses, raced, overtaken, blind>>

-----------------------------------------------------------------------------
(* RegisterView *)

\* The number is looked up as it was typed, only without its spaces.
SignUpCheck(r, p) ==
    /\ request[r].pc = "due"
    /\ IF p \in Accounts THEN Answers(r, "conflict")
                         ELSE Goes(r, [pc |-> "free", phone |-> p])
    /\ UNCHANGED <<pin, codeVars, traceVars>>

\* The PIN is optional.  The unique index on the number refuses the second of
\* two sign-ups that both found it free: an error, and no account.
SignUpSave(r, new) ==
    /\ request[r].pc = "free"
    /\ LET p == request[r].phone IN
         IF p \in Accounts THEN Answers(r, "error") /\ UNCHANGED pin
                           ELSE Answers(r, "done") /\ pin' = [pin EXCEPT ![p] = new]
    /\ UNCHANGED <<codeVars, traceVars>>

-----------------------------------------------------------------------------
(* LoginView and LogoutView *)

LoginCheck(r, p, typed) ==
    /\ request[r].pc = "due"
    /\ Answers(r, IF p \in Accounts /\ pin[p] = typed THEN "checked" ELSE "refused")
    /\ UNCHANGED <<pin, codeVars, traceVars>>

\* last_login is saved by itself, and the tokens are issued.
LoginSave(r) ==
    /\ request[r].pc = "checked"
    /\ Answers(r, "signed in")
    /\ UNCHANGED <<pin, codeVars, traceVars>>

\* The refresh token is put on the blacklist, once.
Logout(r) ==
    /\ request[r].pc = "signed in"
    /\ Answers(r, "signed out")
    /\ UNCHANGED <<pin, codeVars, traceVars>>

-----------------------------------------------------------------------------
(* ChangePinView *)

\* Mutant of Matches: the check of the current PIN is missing.
MatchesAny(p, typed) == TRUE

\* check_pin against the user that authentication has read.
Matches(p, typed) == pin[p] = typed

ChangeCheck(r, p, typed, new) ==
    /\ request[r].pc = "due"
    /\ p \in Accounts /\ typed # new
    /\ IF Matches(p, typed)
         THEN Goes(r, [pc |-> "checked", phone |-> p, typed |-> typed, new |-> new])
         ELSE Answers(r, "refused")
    /\ UNCHANGED <<pin, codeVars, traceVars>>

ChangeSave(r) ==
    /\ request[r].pc = "checked"
    /\ LET p == request[r].phone IN
         /\ SetsPin(r, p, request[r].new)
         /\ blind' = IF pin[p] = request[r].typed THEN blind ELSE blind \cup {r}
    /\ Answers(r, "done")
    /\ UNCHANGED <<codeVars, uses, raced>>

-----------------------------------------------------------------------------
(* migrate_password_to_pin, for one account *)

\* Only an account without a PIN, whose password is the known one.
MigrateCheck(r, p) ==
    /\ request[r].pc = "due"
    /\ IF p \in Accounts \cap Legacy /\ pin[p] = NoPin
         THEN Goes(r, [pc |-> "checked", phone |-> p, typed |-> NoPin, new |-> NewPin])
         ELSE Answers(r, "skipped")
    /\ UNCHANGED <<pin, codeVars, traceVars>>

\* Whatever PIN the account has got meanwhile.
MigrateSave(r) == ChangeSave(r)

-----------------------------------------------------------------------------
(* ResetPinRequestView and PinResetOTP.create_for_user *)

Unspent(p) == {c \in Resets : \E i \in DOMAIN issued[p] : issued[p][i] = c} \ spent

\* Mutant of Superseded: only the codes that are out of date anyway.
SupersededExpired(p) == Unspent(p) \cap expired

\* The codes that a new one makes useless.
Superseded(p) == Unspent(p)

\* Who asks for the code of a number nobody has gets the same answer, and no code.
ResetUpdate(r, typed) ==
    /\ request[r].pc = "due"
    /\ LET p == Intl[typed] IN
         IF p \in Accounts
           THEN /\ spent' = spent \cup Superseded(p)
                /\ Goes(r, [pc |-> "updated", phone |-> p])
           ELSE Answers(r, "unknown") /\ UNCHANGED spent
    /\ UNCHANGED <<pin, issued, expired, traceVars>>

\* The code is created, and is newer than the codes of everybody who came before.
ResetCreate(r) ==
    /\ request[r].pc = "updated"
    /\ LET p == request[r].phone
           others == {q \in Resets \ {r} : request[q].pc = "updated" /\ request[q].phone = p}
       IN /\ issued' = [issued EXCEPT ![p] = Append(@, r)]
          /\ raced' = raced \cup (IF others = {} THEN {} ELSE {r} \cup others)
    /\ Goes(r, [pc |-> "created"])
    /\ UNCHANGED <<pin, spent, expired, uses, overtaken, blind>>

\* The SMS is sent, or it is not and the code stays valid: the answer is a 503.
ResetSend(r) ==
    /\ request[r].pc = "created"
    /\ Answers(r, "sent") \/ Answers(r, "not sent")
    /\ UNCHANGED <<pin, codeVars, traceVars>>

Expire(c) ==
    /\ c \notin expired
    /\ request[c].pc \in {"created", "sent", "not sent"}
    /\ expired' = expired \cup {c}
    /\ UNCHANGED <<pin, issued, spent, request, traceVars>>

-----------------------------------------------------------------------------
(* ResetPinConfirmView *)

\* Mutant of Candidates: used codes are not left out.
CandidatesAll(p) == DOMAIN issued[p]

\* Where the unused codes of an account are in its list: the last one counts.
Candidates(p) == {i \in DOMAIN issued[p] : issued[p][i] \notin spent}

\* Somebody types code c, which an SMS brought.
ConfirmCheck(r, typed, c, new) ==
    /\ request[r].pc = "due"
    /\ request[c].pc = "sent"
    /\ LET p     == Intl[typed]
           valid == /\ p \in Accounts /\ c \notin expired
                    /\ \E i \in Candidates(p) : /\ issued[p][i] = c
                                               /\ \A j \in Candidates(p) : j <= i
           twins == {q \in Confirms \ {r} : request[q].pc = "found" /\ request[q].code = c}
       IN IF valid
            THEN /\ Goes(r, [pc |-> "found", phone |-> p, code |-> c, new |-> new])
                 /\ raced' = IF twins = {} THEN raced ELSE raced \cup {c}
            ELSE Answers(r, "refused") /\ UNCHANGED raced
    /\ UNCHANGED <<pin, codeVars, uses, overtaken, blind>>

\* The code is used up first, in a transaction of its own.
ConfirmUse(r) ==
    /\ request[r].pc = "found"
    /\ spent' = spent \cup {request[r].code}
    /\ request' = [request EXCEPT ![r].pc = "used"]
    /\ UNCHANGED <<pin, issued, expired, traceVars>>

ConfirmSet(r) ==
    /\ request[r].pc = "used"
    /\ SetsPin(r, request[r].phone, request[r].new)
    /\ uses' = [uses EXCEPT ![request[r].code] = @ + 1]
    /\ Answers(r, "done")
    /\ UNCHANGED <<codeVars, raced, blind>>

\* The process dies between two statements of a request.
PinDie(r) ==
    /\ request[r].pc \in {"free", "checked", "updated", "created", "found", "used"}
    /\ Answers(r, "dead")
    /\ UNCHANGED <<pin, codeVars, traceVars>>

-----------------------------------------------------------------------------
PinNext ==
    \/ \E r \in SignUps : \/ \E p \in Phones : SignUpCheck(r, p)
                          \/ \E new \in Pins \cup {NoPin} : SignUpSave(r, new)
    \/ \E r \in Logins :  \/ \E p \in Phones, typed \in Pins : LoginCheck(r, p, typed)
                          \/ LoginSave(r) \/ Logout(r)
    \/ \E r \in Changes : \/ \E p \in Phones, typed, new \in Pins : ChangeCheck(r, p, typed, new)
                          \/ ChangeSave(r)
    \/ \E r \in Resets :  \/ \E p \in Phones : ResetUpdate(r, p)
                          \/ ResetCreate(r) \/ ResetSend(r) \/ Expire(r)
    \/ \E r \in Confirms : \/ \E p \in Phones, c \in Resets, new \in Pins : ConfirmCheck(r, p, c, new)
                           \/ ConfirmUse(r) \/ ConfirmSet(r)
    \/ \E r \in Migrations : MigrateSave(r) \/ \E p \in Phones : MigrateCheck(r, p)
    \/ \E r \in Requests : PinDie(r)

PinSpec == PinInit /\ [][PinNext]_pinVars

-----------------------------------------------------------------------------
PinTypeOK ==
    /\ pin \in [Phones -> Pins \cup {NoPin, "absent"}]
    /\ \A p \in Phones : issued[p] \in Seq(Resets)
    /\ spent \subseteq Resets /\ expired \subseteq Resets
    /\ uses \in [Resets -> Nat]

\* users/models.py:175, "One active OTP per user at a time": of the codes of an
\* account at most one can still be used, unless two requests overlapped.
OneActiveCode ==
    \A p \in Phones : Cardinality(Unspent(p) \ raced) <= 1

\* A code sets a PIN at most once, whatever dies in between, unless two
\* confirmations had found it valid before either used it up.
CodeSetsPinOnce == \A c \in Resets : uses[c] <= 1 \/ c \in raced

\* A PIN is changed only by who knows the PIN that is replaced, and given by the
\* command only to who has none, unless another request set it after it was checked.
ChangeKnowsThePin == blind \subseteq overtaken
=============================================================================
