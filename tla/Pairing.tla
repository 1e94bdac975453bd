------------------------------ MODULE Pairing -------------------------------
(***************************************************************************)
(* homewizard_exporter pair: create a user on a device, which it allows    *)
(* only for a while after its button was pressed, check the token it       *)
(* issues, and print it or write it to a file.  The device, the network,   *)
(* the disk, the terminal and the user who presses the button are the      *)
(* environment; so is the deadline (-wait, or a signal), after which every *)
(* request fails.                                                          *)
(***************************************************************************)
EXTENDS Client, FiniteSets

CONSTANTS
    Tokens,         \* what a device issues, one per user
    Old             \* the token that is in the file before

ASSUME PairingAssumption ==
    Old \notin Tokens /\ "" \notin Tokens \cup {Old}

VARIABLES
    toFile,     \* whether -o is given
    pc,         \* where the command is
    ctx,        \* "live", or "done" after the deadline or a signal
    token,      \* Pair's token, "" before there is one
    accepted,   \* whether the device has taken it
    tick,       \* whether the ticker's channel holds a tick
    announced,  \* whether the user has been asked to press the button
    prompts,    \* how often (counted to 2)
    button,     \* whether the device now accepts new users
    users,      \* the tokens of the users on the device
    file,       \* the content of the token file, "" if it is no whole token
    printed     \* what arrived of it on standard output, likewise

asking == <<announced, prompts>>
device == <<button, users>>
output == <<toFile, file, printed>>
vars == <<pc, ctx, token, accepted, tick, asking, device, output>>

Ended == {"done", "failed", "killed"}

TypeOK ==
    /\ pc \in {"create", "sent", "info", "select", "print", "write", "fill"}
              \cup Ended
    /\ ctx \in {"live", "done"}
    /\ token \in Tokens \cup {""}
    /\ toFile \in BOOLEAN /\ accepted \in BOOLEAN /\ tick \in BOOLEAN
    /\ announced \in BOOLEAN /\ button \in BOOLEAN
    /\ prompts \in 0 .. 2
    /\ users \subseteq Tokens
    /\ file \in Tokens \cup {Old, ""}
    /\ printed \in Tokens \cup {""}

Init ==
    /\ toFile \in BOOLEAN
    /\ pc = "create" /\ ctx = "live"
    /\ token = "" /\ accepted = FALSE
    /\ tick = FALSE
    /\ announced = FALSE /\ prompts = 0
    /\ button \in BOOLEAN /\ users = {}
    /\ file = Old /\ printed = ""

-----------------------------------------------------------------------------
\* POST /api/user, unless the deadline has passed before it is sent.
Send ==
    /\ pc = "create"
    /\ pc' = IF ctx = "live" THEN "sent" ELSE "failed"
    /\ UNCHANGED <<ctx, token, accepted, tick, asking, device, output>>

\* The device creates a user if its button was pressed, and refuses otherwise.
\* Either way its answer may be lost, or come after the deadline.
Created ==
    [resp  : {NoAnswer} \cup
             (IF ctx = "live" THEN {Answer(200, "", "valid")} ELSE {}),
     token : IF button THEN Tokens \ users ELSE {}]

Refusals ==
    {Answer(403, "user:creation-not-enabled", "garbled"),
     Answer(403, "202", "garbled"), Answer(500, "", "garbled"),
     Answer(200, "", "garbled")}

Refused ==
    [resp  : {NoAnswer} \cup (IF ctx = "live" THEN Refusals ELSE {}),
     token : {""}]

\* OnWaiting, the first time the device says that it waits for its button.
AnnounceAgain ==
    /\ announced' = TRUE
    /\ prompts' = IF prompts = 2 THEN 2 ELSE prompts + 1
Announce ==
    /\ announced' = TRUE
    /\ prompts' = IF announced THEN prompts ELSE prompts + 1

\* createUser, and what Pair does with its error: anything but "not pressed
\* yet" is final.
Unchecked ==
    /\ pc = "sent"
    /\ \E r \in Created :
        /\ users' = users \cup {r.token}
        /\ token' = r.token
        /\ pc' = IF do(r.resp) = {} /\ toFile THEN "write" ELSE "failed"
    /\ UNCHANGED <<ctx, accepted, tick, asking, button, output>>
CreateUser ==
    /\ pc = "sent"
    /\ \E r \in Created \cup Refused :
        /\ users' = users \cup ({r.token} \ {""})
        /\ \/ /\ do(r.resp) = {}
              /\ pc' = "info" /\ token' = r.token
              /\ UNCHANGED asking
           \/ /\ "ErrUnauthorized" \in do(r.resp)
              /\ pc' = "select"
              /\ Announce
              /\ UNCHANGED token
           \/ /\ do(r.resp) # {} /\ "ErrUnauthorized" \notin do(r.resp)
              /\ pc' = "failed"
              /\ UNCHANGED <<token, asking>>
    /\ UNCHANGED <<ctx, accepted, tick, button, output>>

\* GET /api with the token; only if the device takes it, it is given out.
InfoReplies ==
    {NoAnswer} \cup (IF ctx = "live" THEN {Answer(200, "", "valid"),
                                          Answer(200, "", "anonymous"),
                                          Answer(401, "user:unauthorized", "garbled")}
                                    ELSE {})

GiveOut == pc' = IF toFile THEN "write" ELSE "print"

InfoUnchecked ==
    /\ pc = "info"
    /\ \E resp \in InfoReplies : accepted' = (fetchInfo(resp) = {})
    /\ GiveOut
    /\ UNCHANGED <<ctx, token, tick, asking, device, output>>
FetchInfo ==
    /\ pc = "info"
    /\ \E resp \in InfoReplies :
        \/ fetchInfo(resp) = {} /\ accepted' = TRUE /\ GiveOut
        \/ fetchInfo(resp) # {} /\ pc' = "failed" /\ UNCHANGED accepted
    /\ UNCHANGED <<ctx, token, tick, asking, device, output>>

\* The select: give up, or try again.  When both are possible, either.
Select ==
    /\ pc = "select"
    /\ \/ ctx = "done" /\ pc' = "failed" /\ UNCHANGED tick
       \/ tick /\ tick' = FALSE /\ pc' = "create"
    /\ UNCHANGED <<ctx, token, accepted, asking, device, output>>

\* fmt.Println(result.Token).  The write may fail, or end in the middle of the
\* token; nobody looks at its error, and the command ends as a success.
PrintToken ==
    /\ pc = "print" /\ pc' = "done"
    /\ printed' \in {token, ""}
    /\ UNCHANGED <<toFile, ctx, token, accepted, tick, asking, device, file>>

\* writeToken: the directory is made and the file opened, which empties it; then
\* the token is written and the file closed.  Each may fail, the last one with
\* the token in place; here the error is returned.
Truncate ==
    /\ pc = "write"
    /\ \/ pc' = "fill" /\ file' = ""
       \/ pc' = "failed" /\ UNCHANGED file
    /\ UNCHANGED <<toFile, ctx, token, accepted, tick, asking, device, printed>>

FillOrRetry ==
    /\ pc = "fill"
    /\ \/ pc' = "done" /\ file' = token
       \/ pc' = "write" /\ UNCHANGED file
    /\ UNCHANGED <<toFile, ctx, token, accepted, tick, asking, device, printed>>
FillUnchecked ==
    /\ pc = "fill"
    /\ pc' = "done" /\ file' \in {token, file}
    /\ UNCHANGED <<toFile, ctx, token, accepted, tick, asking, device, printed>>
Fill ==
    /\ pc = "fill"
    /\ \/ pc' = "done" /\ file' = token
       \/ pc' = "failed" /\ file' \in {token, file}
    /\ UNCHANGED <<toFile, ctx, token, accepted, tick, asking, device, printed>>

Pair == Send \/ CreateUser \/ FetchInfo \/ Select \/ PrintToken \/ Truncate \/ Fill

\* The ticker fires; a tick that nobody has taken yet is not doubled.
Tick ==
    /\ pc \notin Ended /\ ~tick
    /\ tick' = TRUE
    /\ UNCHANGED <<pc, ctx, token, accepted, asking, device, output>>

Expire ==
    /\ pc \notin Ended /\ ctx = "live"
    /\ ctx' = "done"
    /\ UNCHANGED <<pc, token, accepted, tick, asking, device, output>>

\* The user presses the button, and the device closes the window again.
Press ==
    /\ pc \notin Ended
    /\ button' = ~button
    /\ UNCHANGED <<pc, ctx, token, accepted, tick, asking, users, output>>

\* The process is killed (SIGKILL, a container that is stopped, SIGPIPE when it
\* prints).
Kill ==
    /\ pc \notin Ended
    /\ pc' = "killed"
    /\ UNCHANGED <<ctx, token, accepted, tick, asking, device, output>>

Next == Pair \/ Tick \/ Expire \/ Press \/ Kill

Spec == Init /\ [][Next]_vars

\* Requests time out; the ticker and the deadline belong to the runtime.
FairSpec == Spec /\ WF_vars(Pair) /\ WF_vars(Tick) /\ WF_vars(Expire)
-----------------------------------------------------------------------------
\* The command reports success only with the token of the one user it made on the
\* device, which has already accepted it: the retries leave no users behind whose
\* tokens nobody knows.  With -o the token is in its file; without, nothing else
\* is printed and the file is left alone, but whether the token was printed is
\* not certain.
SuccessIsOneUser ==
    pc = "done" =>
        /\ users = {token} /\ accepted
        /\ IF toFile THEN file = token /\ printed = ""
                     ELSE file = Old /\ printed \in {token, ""}

\* The token the daemon runs on is left alone until the device has accepted a
\* new one: no failure of the pairing itself costs a household its old token.
OldTokenSurvives == file # Old => accepted /\ token \in users

\* However long the wait, the user is asked once, and only if the device said
\* that it waits for its button.
AskedOnce == prompts = IF announced THEN 1 ELSE 0

\* Whatever the user, the device and the network do, the command ends.
PairReturns == <>(pc \in Ended)
-----------------------------------------------------------------------------
\* pair.go:29: "Creates a user on a HomeWizard device and prints the API token it
\* issues."  So a success without -o has printed it.
SuccessPrints == pc = "done" /\ ~toFile => printed = token
-----------------------------------------------------------------------------
(* The inductive invariant behind the safety properties: how far the token   *)
(* has come at each point of the command.                                    *)
TokenFitsPC ==
    /\ pc \in {"create", "sent", "select"} => users = {}
    /\ pc \in {"info", "print", "write", "fill", "done"} => users = {token}
    /\ pc \in {"print", "write", "fill", "done"} => accepted
    /\ pc \in {"write", "fill"} => toFile
    /\ pc = "print" => ~toFile
    /\ printed # "" => pc = "done"
    /\ pc \in {"create", "sent", "info", "select", "print", "write"} => file = Old

IInv == TypeOK /\ TokenFitsPC /\ SuccessIsOneUser /\ OldTokenSurvives /\ AskedOnce
=============================================================================
