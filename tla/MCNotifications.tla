--------------------------- MODULE MCNotifications ---------------------------
(***************************************************************************)
(* An instance of Notifications for TLC.  Liveness is checked, so there is *)
(* no symmetry.                                                            *)
(***************************************************************************)
EXTENDS Notifications

\* A caller that leaves the channel open, and one that insists on SMS.
AutoOrSms == {"auto", "sms"}

\* WhatsApp with SMS to fall back to, WhatsApp alone, everything off.
SomeSettings == {[channels |-> Channels, fallback |-> TRUE],
                 [channels |-> {"whatsapp"}, fallback |-> TRUE],
                 [channels |-> {}, fallback |-> TRUE]}

\* One worker as the server starts it, with two messages, or with one while
\* the settings change; and two workers by mistake.
OneOrTwoWorkers ==
    LET first(S) == {CHOOSE x \in S : TRUE}
        Deploy(W, R, retry, configure) ==
            [workers |-> W, rows |-> R, faults |-> 1, retries |-> retry,
             configures |-> configure]
    IN  {Deploy(first(Workers), Rows, 1, 0), Deploy(first(Workers), first(Rows), 1, 1),
         Deploy(Workers, first(Rows), 0, 1)}
=============================================================================
