---------------------------- MODULE MailDelivery ----------------------------
(***************************************************************************)
(* One call of deliver_email: the settings decide whether there is an SMTP *)
(* server and how the connection is encrypted; the attempts go through the *)
(* stages connect, starttls, auth and send; what ends a stage early        *)
(* decides between another attempt after a pause, the console, and an      *)
(* exception for the caller.                                               *)
(*                                                                         *)
(* The server is external: at each stage it answers in any way smtplib     *)
(* makes an exception of, and it may accept a mail and lose the reply.     *)
(* login() of smtplib tries the mechanisms the server offers one after the *)
(* other, and only when the last of them is refused does it raise.         *)
(* Leaving the "with" block sends QUIT, and a reply other than 221 is an   *)
(* exception of its own, which takes the place of the one under way or of  *)
(* the return.                                                             *)
(***************************************************************************)
EXTENDS Naturals

CONSTANTS
  MaxRetries,   \* max_retries, 1 unless a caller says otherwise
  Ports         \* ports an operator may configure

ASSUME RetryAssumption == MaxRetries \in Nat \ {0}

VARIABLES
  config,      \* the e-mail settings of the process
  pc,          \* where the call is
  attempt,     \* attempts begun
  stage,       \* the stage that is logged and counted
  encrypted,   \* the connection has been secured
  error,       \* class of the exception under way, or "none"
  waited,      \* seconds slept between attempts
  failures,    \* EMAIL_SEND_FAILURES
  shown,       \* the mail was written to the console
  \* history: what happened at the server
  accepted,    \* mails it accepted
  unlearned,   \* those among them whose attempt ended with an exception
  logins,      \* how often the credentials were sent, and sent unencrypted,
               \* and the logins that all mechanisms were refused in
  badQuits     \* QUIT commands it answered otherwise than 221

mailVars == <<config, pc, attempt, stage, encrypted, error, waited, failures,
              shown, accepted, unlearned, logins, badQuits>>
server == <<accepted, unlearned, logins, badQuits>>

-----------------------------------------------------------------------------
(* Settings.                                                               *)

\* What is there of host, port, username and password matters only as far as
\* "test", some of it missing, or all of it.
Configs == [fields : {"test", "missing", "complete"}, port : Ports,
            ssl : BOOLEAN, tls : BOOLEAN]

EmailSettingsAvailable == config.fields = "complete"

\* Mutant of Mode: without a flag the connection is left plain.
ModeByFlags ==
  IF config.ssl THEN "implicit_ssl" ELSE IF config.tls THEN "starttls" ELSE "plain"

\* A flag decides; without one, the port.
Mode ==
  IF config.ssl THEN "implicit_ssl"
  ELSE IF config.tls THEN "starttls"
  ELSE IF config.port = 465 THEN "implicit_ssl"
  ELSE IF config.port \in {587, 25} THEN "starttls" ELSE "plain"

-----------------------------------------------------------------------------
(* Exceptions, by the clause of the try statement that takes them.         *)

Errors == {"dns", "auth", "transient", "smtp", "unexpected"}
Retried == {"transient", "smtp"}

\* What the stages can end with besides success.  Another OSError, such as a
\* refused connection, and text that is no ASCII are unexpected.
ConnectErrors == {"dns", "transient", "unexpected"}
StartTLSErrors == {"transient", "unexpected"}
LoginErrors == {"auth", "transient", "smtp", "unexpected"}
SendErrors == {"transient", "unexpected"}

\* smtplib knows CRAM-MD5, PLAIN and LOGIN.
Mechanisms == 3

-----------------------------------------------------------------------------

MailInit ==
  /\ config \in Configs
  /\ pc = "start" /\ attempt = 0 /\ stage = "config"
  /\ encrypted = FALSE /\ error = "none"
  /\ waited = 0 /\ failures = 0 /\ shown = FALSE
  /\ accepted = 0 /\ unlearned = 0 /\ badQuits = 0
  /\ logins = [sent |-> 0, plain |-> 0, denied |-> 0]

\* _load_email_settings: without settings the mail goes to the console.
LoadSettings ==
  /\ pc = "start"
  /\ IF EmailSettingsAvailable
       THEN pc' = "attempt" /\ UNCHANGED shown
       ELSE pc' = "returned" /\ shown' = TRUE
  /\ UNCHANGED <<config, attempt, stage, encrypted, error, waited, failures, server>>

\* The next attempt connects, over TLS at once in mode implicit_ssl.  There is
\* no "with" block to leave yet when that fails.
Connect ==
  /\ pc = "attempt"
  /\ attempt' = attempt + 1
  /\ \/ /\ encrypted' = (Mode = "implicit_ssl")
        /\ stage' = IF Mode = "starttls" THEN "starttls" ELSE "auth"
        /\ pc' = "connected" /\ UNCHANGED error
     \/ /\ error' \in ConnectErrors
        /\ stage' = "connect" /\ encrypted' = FALSE /\ pc' = "caught"
  /\ UNCHANGED <<config, waited, failures, shown, server>>

\* A stage raises: the connection is closed on the way to the handlers.
Raises(e) == error' = e /\ pc' = "leaving"

StartTLS ==
  /\ pc = "connected" /\ stage = "starttls"
  /\ \/ /\ encrypted' = TRUE /\ stage' = "auth"
        /\ UNCHANGED <<pc, error>>
     \/ /\ \E e \in StartTLSErrors : Raises(e)
        /\ UNCHANGED <<encrypted, stage>>
  /\ UNCHANGED <<config, attempt, waited, failures, shown, server>>

\* The server may accept, refuse or cut short each mechanism, before or after it
\* has the credentials.  A refusal only leads to the next mechanism, and is the
\* error of the login when there is none.  Cut short, or without a mechanism to
\* try, the login has another error, whatever was refused before.
Login ==
  /\ pc = "connected" /\ stage = "auth"
  /\ \/ /\ stage' = "send" /\ UNCHANGED <<pc, error>>
     \/ /\ \E e \in LoginErrors : Raises(e)
        /\ UNCHANGED stage
  /\ \E sent \in 0..Mechanisms :
       logins' = [sent |-> logins.sent + sent,
                  plain |-> logins.plain + (IF encrypted THEN 0 ELSE sent),
                  denied |-> logins.denied + (IF error' = "auth" THEN 1 ELSE 0)]
  /\ UNCHANGED <<config, attempt, encrypted, waited, failures, shown, accepted,
                 unlearned, badQuits>>

\* The mail is accepted, or it is not, or it is and the reply does not arrive.
Send ==
  /\ pc = "connected" /\ stage = "send"
  /\ \/ /\ accepted' = accepted + 1 /\ pc' = "leaving"
        /\ UNCHANGED <<error, unlearned>>
     \/ /\ \E e \in SendErrors : Raises(e)
        /\ UNCHANGED <<accepted, unlearned>>
     \/ /\ accepted' = accepted + 1 /\ unlearned' = unlearned + 1
        /\ Raises("transient")
  /\ UNCHANGED <<config, attempt, stage, encrypted, waited, failures, shown,
                 logins, badQuits>>

\* Mutant of Leave: the return after send_message is missing.
LeaveToRetry ==
  /\ pc = "leaving"
  /\ pc' = IF error = "none" /\ attempt < MaxRetries THEN "attempt"
           ELSE IF error = "none" THEN "returned" ELSE "caught"
  /\ UNCHANGED <<config, attempt, stage, encrypted, error, waited, failures, shown,
                 server>>

\* Mutant of Leave: without a timeout, the reply of a server that is gone is
\* waited for.
LeaveWithoutTimeout ==
  /\ pc = "leaving" /\ error # "transient"
  /\ pc' = IF error = "none" THEN "returned" ELSE "caught"
  /\ UNCHANGED <<config, attempt, stage, encrypted, error, waited, failures, shown,
                 server>>

\* __exit__ of the connection, after send_message returned or a stage raised.
Leave ==
  /\ pc = "leaving"
  /\ \/ /\ pc' = IF error = "none" THEN "returned" ELSE "caught"
        /\ UNCHANGED <<error, badQuits, unlearned>>
     \/ /\ error' = "transient" /\ pc' = "caught"
        /\ badQuits' = badQuits + 1
        /\ unlearned' = IF error = "none" THEN unlearned + 1 ELSE unlearned
  /\ UNCHANGED <<config, attempt, stage, encrypted, waited, failures, shown,
                 accepted, logins>>

\* min(10.0, 2 ** (attempt - 1))
Backoff(n) == IF n > 4 THEN 10 ELSE <<1, 2, 4, 8>>[n]

\* Mutant of Outcome: a refused login is tried again like other SMTP errors.
OutcomeAuthAsOther(e) ==
  IF e = "dns" THEN "returned"
  ELSE IF e \in Retried \cup {"auth"} /\ attempt < MaxRetries THEN "attempt"
  ELSE "raised"

\* Mutant of Outcome: after the last attempt the error is only logged.
OutcomeGivenUp(e) ==
  IF e = "dns" THEN "returned"
  ELSE IF e \in Retried THEN IF attempt < MaxRetries THEN "attempt" ELSE "returned"
  ELSE "raised"

\* The except clauses, and after them the limit.
Outcome(e) ==
  IF e = "dns" THEN "returned"
  ELSE IF e \in Retried /\ attempt < MaxRetries THEN "attempt"
  ELSE "raised"

\* The failure is counted; a host without an address sends the mail to the
\* console, and another attempt waits.
Catch ==
  /\ pc = "caught"
  /\ failures' = failures + 1 /\ error' = "none"
  /\ pc' = Outcome(error)
  /\ shown' = (shown \/ error = "dns")
  /\ waited' = IF Outcome(error) = "attempt" THEN waited + Backoff(attempt) ELSE waited
  /\ UNCHANGED <<config, attempt, stage, encrypted, server>>

MailStep ==
  LoadSettings \/ Connect \/ StartTLS \/ Login \/ Send \/ Leave \/ Catch

\* Every read and write of the socket has a timeout of three seconds, after
\* which smtplib raises: no stage waits for ever for its server.
FairMailSpec == MailInit /\ [][MailStep]_mailVars /\ WF_mailVars(MailStep)

-----------------------------------------------------------------------------

Ended == {"returned", "raised"}

\* The call is over and its mail at the server.
HandedOver == pc = "returned" /\ ~shown

\* The attempts that are over with an exception are those that were counted as
\* failures; the others are the one under way and the one that was accepted.
MailTypeOK ==
  /\ config \in Configs
  /\ pc \in Ended \cup {"start", "attempt", "connected", "leaving", "caught"}
  /\ stage \in {"config", "connect", "starttls", "auth", "send"}
  /\ error \in Errors \cup {"none"} /\ {encrypted, shown} \subseteq BOOLEAN
  /\ attempt \in 0..MaxRetries /\ waited \in Nat
  /\ logins \in [sent : 0..(Mechanisms * attempt), plain : 0..(Mechanisms * attempt),
                 denied : 0..attempt]
  /\ {accepted, unlearned, badQuits} \subseteq 0..attempt
  /\ LET open == pc \in {"connected", "leaving", "caught"} IN
       attempt = failures + (IF open \/ HandedOver THEN 1 ELSE 0)

\* A call that returns has handed the mail to the server or to the console, once
\* and not to both unless a reply was lost; one that raises has lost no reply it
\* could have known of.  So at most one mail is sent too many for each attempt
\* that ended with an exception after the server had accepted.
ReturnMeansDelivered ==
  /\ pc = "returned" => accepted > 0 \/ shown
  /\ LET leaving == pc = "leaving" /\ error = "none" IN
       accepted = unlearned + (IF leaving \/ HandedOver THEN 1 ELSE 0)

\* With a flag, or on a port that is known to be for TLS or STARTTLS, no attempt
\* sends the password before the connection is secured, whatever the server
\* offers, refuses or cuts short.
PasswordOnlyOverTLS ==
  config.ssl \/ config.tls \/ config.port \in {25, 465, 587} => logins.plain = 0

\* After a login in which every mechanism was refused the password is not sent
\* again, which would lock the account of a provider that counts failures, except
\* after a QUIT that was answered badly and whose error took the place of the
\* refusal.  A mechanism that is refused alone ends nothing: the next one sends
\* the password again, and so does the next attempt if that one was cut short.
RefusedLoginIsLast ==
  [][logins'.sent > logins.sent => logins.denied <= badQuits]_mailVars

\* A call comes to its end.
DeliveryEnds == <>(pc \in Ended)
=============================================================================
