--------------------------- MODULE PairingProofs ---------------------------
(***************************************************************************)
(* Proofs about Pairing, for any tokens: the command keeps the invariant   *)
(* IInv of the module, and reports success only with the token of the one  *)
(* user it made.                                                           *)
(***************************************************************************)
EXTENDS Pairing, TLAPS

LEMMA SmallNumbers == 0 \in 0 .. 2 /\ 1 \in 0 .. 2 /\ 0 + 1 = 1
OBVIOUS

\* A refusal is an error to do, whatever the device puts in its answer: the
\* empty token of a refusal is never taken for one that was issued.
LEMMA RefusedFails == \A r \in Refused : do(r.resp) # {} /\ r.token = ""
<1> SUFFICES ASSUME NEW r \in Refused PROVE do(r.resp) # {} /\ r.token = ""
  OBVIOUS
<1>1. r.token = "" /\ (r.resp = NoAnswer \/ r.resp \in Refusals)
  BY DEF Refused
<1>2. \A s, c : Answer(s, c, "garbled").body = "garbled"
  BY DEF Answer
<1>3. \A x \in Refusals : \E s, c : x = Answer(s, c, "garbled")
  BY Zenon DEF Refusals
<1>4. \A x \in Refusals : x.body = "garbled"
  BY <1>2, <1>3, Zenon
<1> QED BY <1>1, <1>4 DEF do

\* A created user has a token of its own.
LEMMA CreatedHasToken == \A r \in Created : r.token \in Tokens
BY DEF Created

\* Status 200 is no error.
LEMMA OKIsNoError == ASSUME NEW x, x.status = 200 PROVE statusError(x) = {}
BY DEF statusError

\* The answer to a creation, if it comes, is never taken for a refusal.
LEMMA CreatedIsNoRefusal == \A r \in Created : "ErrUnauthorized" \notin do(r.resp)
<1> SUFFICES ASSUME NEW r \in Created PROVE "ErrUnauthorized" \notin do(r.resp)
  OBVIOUS
<1>1. r.resp = NoAnswer \/ r.resp = Answer(200, "", "valid")
  BY DEF Created
<1>2. "ErrUnauthorized" \notin do(NoAnswer)
  BY DEF do
<1>3. Answer(200, "", "valid").body = "valid"
  BY DEF Answer
<1>4. statusError(Answer(200, "", "valid")) = {}
  <2>1. Answer(200, "", "valid").status = 200
    BY DEF Answer
  <2> QED BY <2>1, OKIsNoError
<1>5. "ErrUnauthorized" \notin do(Answer(200, "", "valid"))
  BY <1>3, <1>4 DEF do
<1> QED BY <1>1, <1>2, <1>5, Zenon

LEMMA InitEstablishes == Init => IInv
<1> SUFFICES ASSUME Init PROVE IInv
  OBVIOUS
<1>1. prompts = 0
  BY DEF Init
<1>2. TypeOK
  BY <1>1, SmallNumbers DEF Init, TypeOK, Ended
<1>3. TokenFitsPC /\ SuccessIsOneUser /\ OldTokenSurvives
  BY DEF Init, TokenFitsPC, SuccessIsOneUser, OldTokenSurvives
<1>4. AskedOnce
  BY DEF Init, AskedOnce
<1> QED BY <1>2, <1>3, <1>4 DEF IInv

LEMMA NextPreserves == IInv /\ [Next]_vars => IInv'
<1> SUFFICES ASSUME IInv, [Next]_vars PROVE IInv'
  OBVIOUS
<1> USE PairingAssumption
        DEF IInv, TypeOK, TokenFitsPC, SuccessIsOneUser, OldTokenSurvives,
            AskedOnce, Ended
<1>1. CASE Send
  BY <1>1 DEF Send, asking, device, output
<1>2. CASE CreateUser
  <2>1. PICK r \in Created \cup Refused :
            /\ users' = users \cup ({r.token} \ {""})
            /\ \/ do(r.resp) = {} /\ pc' = "info" /\ token' = r.token
                    /\ UNCHANGED asking
               \/ /\ "ErrUnauthorized" \in do(r.resp) /\ pc' = "select"
                  /\ Announce /\ UNCHANGED token
               \/ pc' = "failed" /\ UNCHANGED <<token, asking>>
    BY <1>2 DEF CreateUser
  <2>2. /\ pc = "sent"
        /\ UNCHANGED <<ctx, accepted, tick, button, toFile, file, printed>>
    BY <1>2 DEF CreateUser, output
  <2>3. r.token \in Tokens \/ (do(r.resp) # {} /\ r.token = "")
    BY <2>1, RefusedFails, CreatedHasToken
  <2>4. users \subseteq users' /\ users' \subseteq Tokens
    BY <2>1, <2>3
  <2>5. CASE do(r.resp) = {} /\ pc' = "info" /\ token' = r.token /\ UNCHANGED asking
    BY <2>1, <2>2, <2>3, <2>4, <2>5 DEF asking
  <2>6. CASE /\ "ErrUnauthorized" \in do(r.resp) /\ pc' = "select"
             /\ Announce /\ UNCHANGED token
    <3>1. announced => prompts' = 1
      BY <2>6, Zenon DEF Announce
    <3>2. ~announced => prompts' = 1
      <4>1. ~announced => prompts' = prompts + 1 /\ prompts = 0
        BY <2>6, Zenon DEF Announce
      <4> QED BY <4>1, SmallNumbers, Zenon
    <3>3. prompts' = 1 /\ prompts' \in 0 .. 2
      <4>1. prompts' = 1
        BY <3>1, <3>2, Zenon
      <4> QED BY <4>1, SmallNumbers, Zenon
    <3>4. announced' = TRUE
      BY <2>6 DEF Announce
    <3>5. users' = {}
      <4>1. r \in Refused /\ r.token = ""
        BY <2>6, CreatedIsNoRefusal, RefusedFails
      <4> QED BY <2>1, <2>2, <4>1
    <3> QED BY <2>2, <2>4, <2>6, <3>3, <3>4, <3>5
  <2>7. CASE pc' = "failed" /\ UNCHANGED <<token, asking>>
    BY <2>2, <2>4, <2>7 DEF asking
  <2> QED BY <2>1, <2>5, <2>6, <2>7
<1>3. CASE FetchInfo
  <2>1. /\ pc = "info"
        /\ UNCHANGED <<toFile, ctx, token, tick, announced, prompts, button, users,
                       file, printed>>
    BY <1>3 DEF FetchInfo, asking, device, output
  <2>2. \/ /\ accepted' = TRUE
           /\ pc' = IF toFile THEN "write" ELSE "print"
        \/ pc' = "failed" /\ accepted' = accepted
    <3>1. \E resp :
            \/ /\ fetchInfo(resp) = {}
               /\ accepted' = TRUE
               /\ pc' = IF toFile THEN "write" ELSE "print"
            \/ /\ fetchInfo(resp) # {}
               /\ pc' = "failed"
               /\ accepted' = accepted
      BY <1>3, Zenon DEF FetchInfo, GiveOut
    <3> QED BY <3>1
  <2> QED BY <2>1, <2>2
<1>4. CASE Select
  BY <1>4 DEF Select, asking, device, output
<1>5. CASE Truncate
  BY <1>5 DEF Truncate, asking, device
<1>6. CASE Fill
  BY <1>6 DEF Fill, asking, device
<1>7. CASE Tick
  BY <1>7 DEF Tick, asking, device, output
<1>8. CASE Expire
  BY <1>8 DEF Expire, asking, device, output
<1>9. CASE Press
  BY <1>9 DEF Press, asking, output
<1>10. CASE Kill
  BY <1>10 DEF Kill, asking, device, output
<1>11. CASE PrintToken
  BY <1>11 DEF PrintToken, asking, device
<1>12. CASE UNCHANGED vars
  <2>1. UNCHANGED <<pc, ctx, token, accepted, tick, announced, prompts, button,
                    users, toFile, file, printed>>
    BY <1>12 DEF vars, asking, device, output
  <2>2. TypeOK' /\ AskedOnce'
    BY <2>1, Zenon
  <2>3. TokenFitsPC' /\ SuccessIsOneUser' /\ OldTokenSurvives'
    BY <2>1, Zenon
  <2> QED BY <2>2, <2>3, Zenon
<1> QED
  BY <1>1, <1>2, <1>3, <1>4, <1>5, <1>6, <1>7, <1>8, <1>9, <1>10, <1>11,
     <1>12
  DEF Next, Pair

\* The command keeps its invariant, for any tokens and any behaviour of the
\* device, the network and the user (pair.go:88, cmd/.../pair.go:54).
THEOREM Invariant == Spec => []IInv
BY InitEstablishes, NextPreserves, PTL DEF Spec

\* The token on its way is always one of the device's or none.
THEOREM TypeCorrect == Spec => []TypeOK
<1>1. IInv => TypeOK
  BY DEF IInv
<1> QED BY Invariant, <1>1, PTL

\* Success means one user on the device and its token, which the device has
\* accepted (pair.go:93), in the file if there is to be one, and no other token on
\* standard output; that it arrived there is more than the code makes sure of.
THEOREM SuccessMeansOneUser == Spec => []SuccessIsOneUser
<1>1. IInv => SuccessIsOneUser
  BY DEF IInv
<1> QED BY Invariant, <1>1, PTL

\* The file is not touched before the device has accepted a new token.
THEOREM OldTokenIsKept == Spec => []OldTokenSurvives
<1>1. IInv => OldTokenSurvives
  BY DEF IInv
<1> QED BY Invariant, <1>1, PTL

\* The user is asked once.
THEOREM OnePrompt == Spec => []AskedOnce
<1>1. IInv => AskedOnce
  BY DEF IInv
<1> QED BY Invariant, <1>1, PTL
=============================================================================
