------------------------ MODULE MailDeliveryProofs ------------------------
(***************************************************************************)
(* Theorems about MailDelivery, for any number of attempts and any ports.  *)
(***************************************************************************)
EXTENDS MailDelivery, TLAPS

-----------------------------------------------------------------------------
(* What is true between the actions besides the properties themselves.     *)

\* Who is where: an exception is under way only on the way to its handler, and
\* a call that is not over has shown nothing.
PlaceOK ==
  /\ failures \in Nat
  /\ pc \notin {"leaving", "caught"} => error = "none"
  /\ pc = "caught" => error # "none"
  /\ pc = "leaving" /\ error = "none" => stage = "send"
  /\ pc = "connected" => stage \in {"starttls", "auth", "send"}
  /\ pc = "attempt" => attempt < MaxRetries
  /\ pc = "start" => attempt = 0
  /\ pc # "returned" => ~shown

\* What an attempt has not done yet can be counted once more.
RoomLeft ==
  /\ pc = "connected" => badQuits < attempt /\ accepted < attempt
  /\ pc = "leaving" => badQuits < attempt
  /\ pc = "connected" /\ stage # "send" =>
       /\ logins.sent <= Mechanisms * (attempt - 1)
       /\ logins.plain <= Mechanisms * (attempt - 1)
       /\ logins.denied < attempt

\* Where TLS is asked for, no stage past its own is reached without it.
TLSWanted ==
  config.ssl \/ config.tls \/ config.port \in {25, 465, 587}

SecuredOK ==
  TLSWanted =>
    /\ logins.plain = 0
    /\ pc = "connected" /\ stage \in {"auth", "send"} => encrypted

\* A login refused in every mechanism ends the call, unless a bad QUIT has hidden
\* the refusal.
RefusalsOK ==
  logins.denied <= badQuits + (IF error = "auth" \/ pc = "raised" THEN 1 ELSE 0)

MailInv ==
  /\ MailTypeOK /\ ReturnMeansDelivered
  /\ PlaceOK /\ RoomLeft /\ SecuredOK /\ RefusalsOK

-----------------------------------------------------------------------------

LEMMA MailInvInit == MailInit => MailInv
<1> SUFFICES ASSUME MailInit PROVE MailInv
  OBVIOUS
<1> USE RetryAssumption DEF MailInit
<1>1. MailTypeOK
  <2>1. logins \in [sent : 0..(Mechanisms * attempt), plain : 0..(Mechanisms * attempt),
                    denied : 0..attempt]
    BY DEF Mechanisms
  <2>2. {encrypted, shown} \subseteq BOOLEAN
    OBVIOUS
  <2>3. attempt = failures
    OBVIOUS
  <2> QED
    BY <2>1, <2>2, <2>3 DEF MailTypeOK, Ended, HandedOver, Errors
<1>2. ReturnMeansDelivered
  BY DEF ReturnMeansDelivered, HandedOver
<1>3. PlaceOK /\ RoomLeft /\ SecuredOK /\ RefusalsOK
  BY DEF PlaceOK, RoomLeft, SecuredOK, RefusalsOK
<1> QED
  BY <1>1, <1>2, <1>3 DEF MailInv

LEMMA MailInvLoadSettings == MailInv /\ LoadSettings => MailInv'
<1> SUFFICES ASSUME MailInv, LoadSettings PROVE MailInv'
  OBVIOUS
<1> USE RetryAssumption DEF MailInv, LoadSettings, server
<1>1. MailTypeOK'
  BY DEF MailTypeOK, Ended, HandedOver, PlaceOK
<1>2. ReturnMeansDelivered'
  BY DEF ReturnMeansDelivered, HandedOver, PlaceOK
<1>3. PlaceOK' /\ RoomLeft'
  BY DEF PlaceOK, RoomLeft
<1>4. SecuredOK' /\ RefusalsOK'
  BY DEF SecuredOK, RefusalsOK, TLSWanted, PlaceOK
<1> QED
  BY <1>1, <1>2, <1>3, <1>4

LEMMA MailInvConnect == MailInv /\ Connect => MailInv'
<1> SUFFICES ASSUME MailInv, Connect PROVE MailInv'
  OBVIOUS
<1> USE RetryAssumption DEF MailInv, Connect, server
<1>1. MailTypeOK'
  <2>1. attempt \in Nat /\ attempt' = attempt + 1 /\ attempt' \in 0..MaxRetries
    BY DEF MailTypeOK, PlaceOK
  <2>2. encrypted' \in BOOLEAN
    BY Zenon
  <2>3. /\ logins \in [sent : 0..(Mechanisms * attempt),
                        plain : 0..(Mechanisms * attempt), denied : 0..attempt]
        /\ {accepted, unlearned, badQuits} \subseteq 0..attempt
        /\ attempt = failures /\ shown = FALSE
    BY DEF MailTypeOK, PlaceOK, HandedOver
  <2>4. logins \in [sent : 0..(Mechanisms * attempt'),
                    plain : 0..(Mechanisms * attempt'), denied : 0..attempt']
    BY <2>1, <2>3 DEF Mechanisms
  <2>5. {accepted, unlearned, badQuits} \subseteq 0..attempt'
    BY <2>1, <2>3
  <2>6. pc' \in {"connected", "caught"} /\ stage' \in {"connect", "starttls", "auth"}
    OBVIOUS
  <2>7. error' \in Errors \cup {"none"}
    BY DEF MailTypeOK, ConnectErrors, Errors
  <2>8. /\ UNCHANGED <<config, logins, accepted, unlearned, badQuits, shown>>
        /\ UNCHANGED <<waited, failures>>
    OBVIOUS
  <2> HIDE DEF Connect
  <2> QED
    BY <2>1, <2>2, <2>3, <2>4, <2>5, <2>6, <2>7, <2>8 DEF MailTypeOK, Ended
<1>2. ReturnMeansDelivered'
  BY DEF ReturnMeansDelivered, HandedOver, PlaceOK
<1>3. PlaceOK'
  BY DEF PlaceOK, MailTypeOK, ConnectErrors
<1>4. RoomLeft'
  BY DEF RoomLeft, PlaceOK, MailTypeOK
<1>5. SecuredOK'
  <2>1. TLSWanted => Mode \in {"implicit_ssl", "starttls"}
    BY DEF TLSWanted, Mode
  <2>2. pc' = "connected" /\ stage' \in {"auth", "send"} /\ TLSWanted => encrypted'
    BY <2>1
  <2>3. UNCHANGED <<config, logins>>
    OBVIOUS
  <2> QED
    BY <2>2, <2>3 DEF SecuredOK, TLSWanted
<1>6. RefusalsOK'
  BY DEF RefusalsOK, PlaceOK, ConnectErrors
<1> QED
  BY <1>1, <1>2, <1>3, <1>4, <1>5, <1>6

LEMMA MailInvStartTLS == MailInv /\ StartTLS => MailInv'
<1> SUFFICES ASSUME MailInv, StartTLS PROVE MailInv'
  OBVIOUS
<1> USE RetryAssumption DEF MailInv, StartTLS, Raises, server
<1>1. MailTypeOK'
  BY DEF MailTypeOK, Ended, HandedOver, PlaceOK, StartTLSErrors, Errors
<1>2. ReturnMeansDelivered'
  BY DEF ReturnMeansDelivered, HandedOver, PlaceOK, StartTLSErrors
<1>3. PlaceOK'
  BY DEF PlaceOK, StartTLSErrors
<1>4. RoomLeft'
  BY DEF RoomLeft
<1>5. SecuredOK' /\ RefusalsOK'
  BY DEF SecuredOK, RefusalsOK, TLSWanted, PlaceOK, StartTLSErrors
<1> QED
  BY <1>1, <1>2, <1>3, <1>4, <1>5

LEMMA MailInvLogin == MailInv /\ Login => MailInv'
<1> SUFFICES ASSUME MailInv, Login PROVE MailInv'
  OBVIOUS
<1> USE RetryAssumption DEF MailInv, Login, Raises
<1>1. error' \in {"none"} \cup LoginErrors /\ error = "none"
  BY DEF PlaceOK
<1>2. PICK sent \in 0..Mechanisms :
        logins' = [sent |-> logins.sent + sent,
                   plain |-> logins.plain + (IF encrypted THEN 0 ELSE sent),
                   denied |-> logins.denied + (IF error' = "auth" THEN 1 ELSE 0)]
  OBVIOUS
<1>3. /\ logins.sent \in Nat /\ logins.sent <= Mechanisms * (attempt - 1)
      /\ logins.plain \in Nat /\ logins.plain <= Mechanisms * (attempt - 1)
      /\ logins.denied \in 0 .. attempt /\ logins.denied < attempt
      /\ attempt \in 0 .. MaxRetries
  BY DEF MailTypeOK, RoomLeft
<1>4. logins' \in [sent : 0..(Mechanisms * attempt), plain : 0..(Mechanisms * attempt),
                   denied : 0..attempt]
  BY <1>2, <1>3 DEF Mechanisms
<1>5. MailTypeOK'
  BY <1>1, <1>4 DEF MailTypeOK, Ended, HandedOver, LoginErrors, Errors
<1>6. ReturnMeansDelivered'
  BY <1>1 DEF ReturnMeansDelivered, HandedOver, LoginErrors
<1>7. PlaceOK'
  BY <1>1 DEF PlaceOK, LoginErrors
<1>8. RoomLeft'
  BY DEF RoomLeft
<1>9. SecuredOK'
  BY <1>2, <1>3 DEF SecuredOK, TLSWanted
<1>10. RefusalsOK'
  BY <1>1, <1>2, <1>3 DEF RefusalsOK, MailTypeOK
<1> QED
  BY <1>5, <1>6, <1>7, <1>8, <1>9, <1>10

LEMMA MailInvSend == MailInv /\ Send => MailInv'
<1> SUFFICES ASSUME MailInv, Send PROVE MailInv'
  OBVIOUS
<1> USE RetryAssumption DEF MailInv, Send, Raises
<1>1. MailTypeOK'
  BY DEF MailTypeOK, Ended, HandedOver, PlaceOK, RoomLeft, SendErrors, Errors,
         ReturnMeansDelivered
<1>2. ReturnMeansDelivered'
  BY DEF ReturnMeansDelivered, HandedOver, PlaceOK, SendErrors, MailTypeOK
<1>3. PlaceOK'
  BY DEF PlaceOK, SendErrors
<1>4. RoomLeft'
  BY DEF RoomLeft
<1>5. SecuredOK' /\ RefusalsOK'
  BY DEF SecuredOK, RefusalsOK, TLSWanted, PlaceOK, SendErrors
<1> QED
  BY <1>1, <1>2, <1>3, <1>4, <1>5

LEMMA MailInvLeave == MailInv /\ Leave => MailInv'
<1> SUFFICES ASSUME MailInv, Leave PROVE MailInv'
  OBVIOUS
<1> USE RetryAssumption DEF MailInv, Leave
<1>1. MailTypeOK'
  BY DEF MailTypeOK, Ended, HandedOver, PlaceOK, RoomLeft, Errors,
         ReturnMeansDelivered
<1>2. ReturnMeansDelivered'
  BY DEF ReturnMeansDelivered, HandedOver, PlaceOK, MailTypeOK
<1>3. PlaceOK' /\ RoomLeft'
  BY DEF PlaceOK, RoomLeft
<1>4. SecuredOK' /\ RefusalsOK'
  BY DEF SecuredOK, RefusalsOK, TLSWanted, MailTypeOK
<1> QED
  BY <1>1, <1>2, <1>3, <1>4

LEMMA MailInvCatch == MailInv /\ Catch => MailInv'
<1> SUFFICES ASSUME MailInv, Catch PROVE MailInv'
  OBVIOUS
<1> USE RetryAssumption DEF MailInv, Catch, server
<1>1. attempt \in Nat /\ attempt >= 1 /\ error \in Errors
  BY DEF MailTypeOK, PlaceOK
<1>2. waited' \in Nat
  <2>1. Backoff(attempt) \in Nat
    BY <1>1 DEF Backoff
  <2> QED
    BY <2>1 DEF MailTypeOK
<1>3. Outcome(error) \in {"returned", "attempt", "raised"}
  BY DEF Outcome
<1>4. /\ Outcome(error) = "returned" <=> error = "dns"
      /\ Outcome(error) = "attempt" => attempt < MaxRetries
      /\ error = "auth" => Outcome(error) = "raised"
  BY DEF Outcome, Retried
<1> USE <1>3, <1>4
<1>5. MailTypeOK'
  <2>1. attempt = failures + 1 /\ failures \in Nat
    BY DEF MailTypeOK, PlaceOK
  <2>2. shown' \in BOOLEAN /\ (pc' = "returned" => shown')
    BY Zenon DEF MailTypeOK
  <2>3. attempt' = failures' + 0
    BY <2>1
  <2>4. UNCHANGED <<config, attempt, stage, encrypted, logins, accepted,
                    unlearned, badQuits>>
    OBVIOUS
  <2>5. error' = "none" /\ pc' \in {"returned", "attempt", "raised"}
    OBVIOUS
  <2> HIDE DEF Catch
  <2> QED
    BY <1>2, <2>1, <2>2, <2>3, <2>4, <2>5 DEF MailTypeOK, Ended, HandedOver
<1>6. ReturnMeansDelivered'
  BY DEF ReturnMeansDelivered, HandedOver, PlaceOK
<1>7. PlaceOK'
  <2>1. pc' # "returned" => ~shown'
    BY DEF PlaceOK
  <2>2. pc' \in {"returned", "attempt", "raised"} /\ error' = "none"
    OBVIOUS
  <2>3. pc' = "attempt" => attempt' < MaxRetries
    OBVIOUS
  <2>4. failures' \in Nat
    BY DEF PlaceOK
  <2> QED
    BY <2>1, <2>2, <2>3, <2>4 DEF PlaceOK
<1>8. RoomLeft'
  BY DEF RoomLeft
<1>9. SecuredOK' /\ RefusalsOK'
  BY DEF SecuredOK, RefusalsOK, TLSWanted, MailTypeOK
<1> QED
  BY <1>5, <1>6, <1>7, <1>8, <1>9

LEMMA MailInvStep == MailInv /\ [MailStep]_mailVars => MailInv'
<1>1. MailInv /\ UNCHANGED mailVars => MailInv'
  BY DEF MailInv, mailVars, MailTypeOK, ReturnMeansDelivered, PlaceOK, RoomLeft,
         SecuredOK, RefusalsOK, HandedOver, TLSWanted, server
<1> QED
  BY <1>1, MailInvLoadSettings, MailInvConnect, MailInvStartTLS, MailInvLogin,
     MailInvSend, MailInvLeave, MailInvCatch DEF MailStep

LEMMA MailInvAlways == FairMailSpec => []MailInv
  BY MailInvInit, MailInvStep, PTL DEF FairMailSpec

-----------------------------------------------------------------------------

\* For every limit, no counter of the server outgrows the attempts, and each of
\* these but the last is a failure that was counted.
THEOREM MailTypeCorrect == FairMailSpec => []MailTypeOK
  BY MailInvAlways, PTL DEF MailInv

\* However many attempts there are, a return means a mail that was accepted or
\* shown, and only a lost reply makes a second one.
THEOREM HandedOverOnce == FairMailSpec => []ReturnMeansDelivered
  BY MailInvAlways, PTL DEF MailInv

\* The password goes out encrypted on every path through every attempt.
THEOREM PasswordSecured == FairMailSpec => []PasswordOnlyOverTLS
<1>1. MailInv => PasswordOnlyOverTLS
  BY DEF MailInv, SecuredOK, TLSWanted, PasswordOnlyOverTLS
<1> QED
  BY <1>1, MailInvAlways, PTL

\* For every limit, a login whose every mechanism was refused is the last time the
\* password is sent, except after a QUIT that went wrong.
THEOREM RefusalRespected == FairMailSpec => RefusedLoginIsLast
<1>1. ASSUME MailInv, [MailStep]_mailVars, logins'.sent > logins.sent
      PROVE  logins.denied <= badQuits
  <2>1. Login
    <3>1. logins.sent \in Nat
      BY <1>1 DEF MailInv, MailTypeOK
    <3>2. logins' # logins
      BY <1>1, <3>1
    <3> QED
      BY <1>1, <3>2 DEF MailStep, LoadSettings, Connect, StartTLS, Send, Leave,
                        Catch, server, mailVars
  <2> QED
    BY <1>1, <2>1 DEF MailInv, MailTypeOK, PlaceOK, RefusalsOK, Login
<1>2. MailInv /\ [MailStep]_mailVars =>
        [logins'.sent > logins.sent => logins.denied <= badQuits]_mailVars
  BY <1>1
<1> QED
  BY <1>2, MailInvAlways, PTL DEF FairMailSpec, RefusedLoginIsLast
=============================================================================
