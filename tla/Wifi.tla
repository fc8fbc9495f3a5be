--------------------------------- MODULE Wifi ---------------------------------
(***************************************************************************)
(* The WiFi link (User/wifi_service.c, Drivers/esp_uart.c) and the ESP     *)
(* module it drives with AT commands.                                      *)
(*                                                                         *)
(* The service sends a command, forgets what it has received, and looks    *)
(* for words in what comes from then on.  The module answers in the order  *)
(* of the commands, late or never; what it sends may get lost in the UART  *)
(* or behind the end of the response buffer; and it loses its network when *)
(* it likes.  Asking for power again does not restart a module that is on. *)
(***************************************************************************)
EXTENDS Naturals, Sequences

CONSTANTS
  WifiTimeout,  \* bound: ticks every wait lasts at most
  WifiQueue,    \* bound: words the module is behind with
  WifiSwitches  \* bound: times the link is switched or configured

ASSUME WifiAssumption ==
  WifiTimeout \in Nat \ {0} /\ WifiQueue \in Nat /\ WifiSwitches \in Nat

VARIABLES
  wifistate,    \* stat.state
  wifienabled,  \* cfg.enabled
  configured,   \* whether cfg has a network and a host
  wifitimer,    \* ticks to the deadline, or to backoff_until
  uploaddue,    \* whether a period has passed since last_upload
  phase,        \* send_phase
  response,     \* the words received since the last clear_resp
  uart,         \* the words in the receive ring
  answers,      \* the words still on their way from the module
  switches,     \* history: times the link was switched or configured
  prompted,     \* history: the prompt the last request was sent on
  counted       \* history: the word that upload_ok was counted for in the last
                \* step

wifiVars == <<wifistate, wifienabled, configured, wifitimer, uploaddue, phase,
              response, uart, answers, switches, prompted, counted>>

Waiting == {"BOOTING", "AT_SYNC", "JOINING", "SENDING", "BACKOFF"}

\* What strstr finds a word in: itself, and the longer ones.  A word "of before"
\* reads like the other.
Within(word) ==
  {word} \cup
  CASE word = "OK"      -> {"SEND OK", "SEND OK of before"}
    [] word = "SEND OK" -> {"SEND OK of before"}
    [] word = ">"       -> {"> of before"}
    [] word = "CONNECT" -> {"ALREADY CONNECTED", "WIFI CONNECTED",
                             "WIFI DISCONNECT"}
    [] OTHER            -> {}

\* The module's answers to a command.
Answers(command) ==
  CASE command \in {"AT", "ATE0"} -> {<<"OK">>}
    [] command = "CWJAP"   -> {<<"WIFI CONNECTED", "WIFI GOT IP", "OK">>, <<"FAIL">>}
    [] command = "CIPSTART" -> {<<"CONNECT", "OK">>, <<"ERROR">>,
                                <<"ALREADY CONNECTED", "ERROR">>}
    [] command = "CIPSEND" -> {<<"OK", ">">>, <<"ERROR">>}
    [] OTHER               -> {<<"SEND OK">>, <<"ERROR">>}

\* The module takes a command, or is busy, or absent.
Sent(before, commands) ==
  answers' \in {before} \cup
    {before \o a : a \in {b \in UNION {Answers(c) : c \in commands} :
                            Len(before) + Len(b) <= WifiQueue}}

NoCount == counted' = "none" /\ UNCHANGED prompted

\* The word as one of before.
OfBefore(word) ==
  CASE word = "SEND OK" -> "SEND OK of before"
    [] word = ">"       -> "> of before"
    [] OTHER            -> word

\* Mutant: what was heard stays, and is of before from here on.
ClearedNot == response' = {OfBefore(w) : w \in response \cup uart} /\ uart' = {}

\* clear_resp, behind a collect of the same poll.
Cleared == response' = {} /\ uart' = {}
Deadline == wifitimer' = WifiTimeout
TimedOut == wifitimer = 0

\* power(): boots the module, or turns it off.
Power(on) ==
  /\ wifistate' = IF on THEN "BOOTING" ELSE "OFF"
  /\ Deadline
  /\ answers' = IF on THEN answers ELSE <<>>
  /\ UNCHANGED <<uploaddue, phase, response, uart>>

Switched == switches < WifiSwitches /\ switches' = switches + 1 /\ NoCount

\* WIFI POWER, by wifi_service_power.
WifiPower(on) ==
  Switched /\ wifienabled' = on /\ Power(on) /\ UNCHANGED configured

\* wifi_service_configure with valid values, which no command calls yet.
WifiConfigure ==
  /\ Switched /\ configured' = TRUE /\ UNCHANGED wifienabled
  /\ IF wifienabled THEN Power(TRUE)
     ELSE UNCHANGED <<wifistate, wifitimer, uploaddue, phase, response, uart,
                      answers>>

\* Every poll begins with collect.
Heard == response \cup uart
Has(word) == Heard \cap Within(word) # {}
Collected == response' = Heard /\ uart' = {}

In(state) ==
  wifistate = state /\ wifienabled /\ UNCHANGED <<wifienabled, configured, switches>>

Boot ==
  /\ In("BOOTING") /\ TimedOut /\ NoCount
  /\ Cleared /\ Sent(answers, {"AT"}) /\ Deadline
  /\ wifistate' = "AT_SYNC"
  /\ UNCHANGED <<uploaddue, phase>>

\* ATE0, and right behind it the command to join; without a network to join the
\* link counts as ready.
Sync ==
  /\ In("AT_SYNC") /\ Has("OK") /\ NoCount
  /\ Cleared /\ Deadline
  /\ \E echo \in {<<>>, <<"OK">>} :
       IF configured THEN Sent(answers \o echo, {"CWJAP"}) /\ wifistate' = "JOINING"
                     ELSE answers' = answers \o echo /\ wifistate' = "READY"
  /\ UNCHANGED <<uploaddue, phase>>

\* Mutant: a module that is not there is told by an ERROR.
SyncFailedOnError ==
  /\ In("AT_SYNC") /\ ~Has("OK") /\ Has("ERROR") /\ NoCount
  /\ wifistate' = "NO_AT" /\ Collected
  /\ UNCHANGED <<wifitimer, uploaddue, phase, answers>>

SyncFailed ==
  /\ In("AT_SYNC") /\ ~Has("OK") /\ TimedOut /\ NoCount
  /\ wifistate' = "NO_AT" /\ Collected
  /\ UNCHANGED <<wifitimer, uploaddue, phase, answers>>

\* The OK may still be the one of ATE0.
Joined ==
  /\ In("JOINING") /\ (Has("WIFI GOT IP") \/ Has("OK"))
  /\ wifistate' = "READY" /\ uploaddue' = FALSE /\ Collected /\ NoCount
  /\ UNCHANGED <<wifitimer, phase, answers>>

Backoff ==
  /\ wifistate' = "BACKOFF" /\ Deadline /\ Collected /\ NoCount
  /\ UNCHANGED <<uploaddue, phase, answers>>

JoinFailed ==
  /\ In("JOINING") /\ ~Has("WIFI GOT IP") /\ ~Has("OK")
  /\ Has("FAIL") \/ TimedOut
  /\ Backoff

\* http_send: from here on an earlier SEND OK or prompt is one of before.
HttpSend ==
  /\ In("READY") /\ configured /\ uploaddue
  /\ counted' = "none" /\ prompted' = "none"
  /\ uploaddue' = FALSE
  /\ Cleared /\ Deadline
  /\ Sent([i \in DOMAIN answers |-> OfBefore(answers[i])], {"CIPSTART"})
  /\ wifistate' = "SENDING" /\ phase' = 0

Opened  == phase = 0 /\ Has("CONNECT")

Done == phase = 2 /\ Has("SEND OK")
Prompted == phase = 1 /\ Has(">")

\* The next phase of SENDING, with the command it sends.
SendPhase ==
  /\ In("SENDING") /\ (Opened \/ Prompted)
  /\ Cleared /\ Deadline
  /\ counted' = "none"
  /\ IF Opened
       THEN Sent(answers, {"CIPSEND"}) /\ UNCHANGED prompted
       ELSE /\ Sent(answers, {"request"})
            /\ prompted' = IF ">" \in Heard THEN ">" ELSE "> of before"
  /\ phase' = phase + 1
  /\ UNCHANGED <<wifistate, uploaddue>>

Uploaded ==
  /\ In("SENDING") /\ Done
  /\ wifistate' = "READY" /\ Collected
  /\ counted' = IF "SEND OK" \in Heard THEN "SEND OK" ELSE "SEND OK of before"
  /\ UNCHANGED <<prompted, wifitimer, uploaddue, phase, answers>>

SendFailed ==
  /\ In("SENDING") /\ ~Opened /\ ~Prompted /\ ~Done
  /\ Has("ERROR") \/ Has("FAIL") \/ TimedOut
  /\ Backoff

Retry == In("BACKOFF") /\ TimedOut /\ Power(TRUE) /\ NoCount

\* wifi_service_poll
WifiPoll ==
  \/ Boot \/ Sync \/ SyncFailed \/ Joined \/ JoinFailed \/ HttpSend \/ SendPhase
  \/ Uploaded \/ SendFailed \/ Retry

WifiTick ==
  /\ wifitimer' = IF wifitimer = 0 THEN 0 ELSE wifitimer - 1
  /\ NoCount
  /\ uploaddue' \in {uploaddue, TRUE}
  /\ UNCHANGED <<wifistate, wifienabled, configured, phase, response, uart,
                 answers, switches>>

\* USART2_IRQHandler takes in the next word, or it is lost.
ModuleWord ==
  /\ answers # <<>> /\ answers' = Tail(answers)
  /\ uart' \in {uart, uart \cup {Head(answers)}} /\ NoCount
  /\ UNCHANGED <<wifistate, wifienabled, configured, wifitimer, uploaddue,
                 phase, response, switches>>

NetworkLost ==
  /\ wifistate \notin {"OFF", "BOOTING"} /\ Len(answers) < WifiQueue
  /\ answers' = Append(answers, "WIFI DISCONNECT") /\ NoCount
  /\ UNCHANGED <<wifistate, wifienabled, configured, wifitimer, uploaddue,
                 phase, response, uart, switches>>

WifiInit ==
  /\ wifistate = "OFF" /\ wifienabled = FALSE /\ configured = FALSE
  /\ wifitimer = 0 /\ uploaddue = FALSE /\ phase = 0
  /\ response = {} /\ uart = {} /\ answers = <<>>
  /\ switches = 0 /\ prompted = "none" /\ counted = "none"

WifiNext ==
  \/ WifiPoll \/ WifiTick \/ ModuleWord \/ NetworkLost \/ WifiConfigure
  \/ \E on \in BOOLEAN : WifiPower(on)
-------------------------------------------------------------------------------
\* An upload that was sent on the module's prompt to this very upload counts as
\* done only on its SEND OK to it, however late answers come and whichever are
\* lost: the module answers in order, and the service forgets what came before
\* the prompt (wifi_service_poll).  What it cannot tell is a prompt to an earlier
\* upload, which needs a module that is at least six words behind.
UploadIsConfirmed == counted = "SEND OK of before" => prompted = "> of before"

\* No wait of the service lasts for ever, whatever the module answers or loses:
\* either the link comes to rest where it waits for nothing, or its state keeps
\* changing.
WifiMoves ==
  <>[](wifistate \notin Waiting) \/ []<><<wifistate' # wifistate>>_wifiVars
===============================================================================
