-------------------------------- MODULE WdaUi --------------------------------
(***************************************************************************)
(* The iOS driver: one WebDriverAgent session per device, cached and       *)
(* handed out under an asyncio lock (infrastructure/wda_factory.py), and   *)
(* the repository that re-handshakes once when an operation meets a dead   *)
(* session (data/repositories/wda_ui_repository.py).                       *)
(*                                                                         *)
(* A session is known by the incarnation of the WDA server that opened it: *)
(* it is dead as soon as the server runs again under another number.       *)
(***************************************************************************)
EXTENDS UiCalls

CONSTANTS MaxEpoch,  \* incarnations of the WDA server
          Nobody

ASSUME NobodyIsNoClient == Nobody \notin Clients

VARIABLES
    epoch,     \* the running, or last, incarnation of the WDA server
    serving,   \* it runs
    session,   \* _clients[udid]: the incarnation it belongs to, 0: none
    lock,      \* the holder of the factory's lock
    booted,    \* the simulator runs, so simctl lists it
    simCache   \* _simctl_cache: "unread", or whether it holds the simulator

server == <<epoch, serving, booted>>
factory == <<session, lock, simCache>>
wda == <<server, factory>>

WdaInit ==
    /\ epoch = 1
    /\ serving \in BOOLEAN
    /\ booted \in BOOLEAN
    /\ serving => booted
    /\ session = 0
    /\ lock = Nobody
    /\ simCache = "unread"
-----------------------------------------------------------------------------
(* get: the cached session, or the lock is kept for a handshake.            *)
Get(c) ==
    /\ At(c, "get")
    /\ lock = Nobody
    /\ IF session # 0
       THEN /\ Become(c, [call[c] EXCEPT !.at = "send", !.sess = session])
            /\ UNCHANGED lock
       ELSE Goto(c, "connect") /\ lock' = c
    /\ UNCHANGED <<screen, faults, server, session, simCache>>

(* _booted_sim_udids: simctl is asked once in the life of the process.      *)
Known == IF simCache # "unread" THEN simCache ELSE IF booted THEN "yes" ELSE "no"

(* Leaving the `async with', also by an exception.                          *)
Release == lock' = Nobody

(* _connect_simulator, _connect_device: a simulator is reached over TCP     *)
(* when it is known as one, its port is probed first; anything else goes    *)
(* over usbmux, where no simulator answers.                                 *)
Connect(c) ==
    /\ At(c, "connect")
    /\ simCache' = Known
    /\ \/ /\ Known = "yes"
          /\ serving
          /\ Become(c, [call[c] EXCEPT !.at = "settle", !.sess = epoch])
          /\ UNCHANGED <<lock, faults>>
       \/ /\ ~(Known = "yes" /\ serving)
          /\ Got(c, "err")
          /\ Release
          /\ UNCHANGED faults
       \/ Fail(c, "reply", "err") /\ Release
    /\ UNCHANGED <<screen, server, session>>

(* The settings are sent, whatever comes of it, and the session is kept.    *)
Settle(c) ==
    /\ At(c, "settle")
    /\ session' = call[c].sess
    /\ Release
    /\ Goto(c, "send")
    /\ UNCHANGED <<screen, faults, server, simCache>>
-----------------------------------------------------------------------------
Alive(c) == serving /\ call[c].sess = epoch

(* op(s) on a worker thread.  An action may have been carried out when its  *)
(* session breaks; a tap on a missing label, an absent or a stale element   *)
(* are not session errors.                                                  *)
Send(c) ==
    /\ At(c, "send")
    /\ \/ ~Alive(c) /\ Goto(c, "broken") /\ UNCHANGED <<screen, faults>>
       \/ /\ Alive(c)
          /\ \/ /\ Op(c) \in Acts
                /\ \/ Strike(c, "reply", "ok")
                   \/ StrikeAndFail(c, "broken", "none")
             \/ /\ Op(c) \in {"tap_text"}
                /\ Got(c, "err") /\ UNCHANGED <<screen, faults>>
             \/ /\ Op(c) = "find"
                /\ \E r \in {"present", "absent"} : Got(c, r)
                /\ UNCHANGED <<screen, faults>>
             \/ /\ Op(c) = "dump_ui"
                /\ Become(c, [call[c] EXCEPT !.at = "reply", !.got = "ok", !.saw = screen])
                /\ UNCHANGED <<screen, faults>>
             \/ Fail(c, "broken", "none")
             \/ Fail(c, "reply", "err")
    /\ UNCHANGED wda

(* Mutant: the session is not dropped before the retry. *)
Drop_keep(c) == Become(c, [call[c] EXCEPT !.at = "get", !.tries = 1]) /\ UNCHANGED session

(* invalidate, whatever session is cached by now.                           *)
Drop(c) == Become(c, [call[c] EXCEPT !.at = "get", !.tries = 1]) /\ session' = 0

(* _run recovers from a broken session once; dump_ui does not go through it. *)
Recover(c) ==
    /\ At(c, "broken")
    /\ IF Op(c) = "dump_ui" \/ call[c].tries = 1
       THEN Got(c, "err") /\ UNCHANGED session
       ELSE lock = Nobody /\ Drop(c)
    /\ UNCHANGED <<screen, faults, server, lock, simCache>>
-----------------------------------------------------------------------------
(* The WDA server ends, or is started again; the simulator boots.           *)
WdaStops == serving /\ serving' = FALSE /\ UNCHANGED <<epoch, booted>>

WdaStarts ==
    /\ booted
    /\ epoch < MaxEpoch
    /\ epoch' = epoch + 1
    /\ serving' = TRUE
    /\ UNCHANGED booted

SimBoots == ~booted /\ booted' = TRUE /\ UNCHANGED <<epoch, serving>>

WdaStep(c) == Get(c) \/ Connect(c) \/ Settle(c) \/ Send(c) \/ Recover(c)
=============================================================================
