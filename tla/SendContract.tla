---------------------------- MODULE SendContract ----------------------------
(***************************************************************************)
(* What lanpipe promises the one who sends, without addresses, requests,   *)
(* timers or prompts: a send of some files goes into one session at the    *)
(* receiver, which nobody has sent into before, and stays with it; nothing *)
(* arrives that was not put into a session, and nothing twice; a send is   *)
(* told once how it ended, and told "ok" only when all its files have      *)
(* arrived.  (TECHNICAL_ROUTE.md sections 5.2 and 5.5, as SendClient and   *)
(* ReceiveService carry them out.)                                         *)
(***************************************************************************)
CONSTANTS Devices, Files, SessionIds, NoSession

VARIABLES
    asked,      \* the files each device was last asked to send
    told,       \* how that send ended, "none" until it has
    into,       \* the session it goes into, once there is one
    sent,       \* <<d, s, f>>: d has put f into session s
    arrived     \* <<s, f>>: f is in the receive directory, out of session s

sendVars == <<asked, told, into, sent, arrived>>

Endings == {"ok", "failed", "cancelled"}

SendInit ==
    /\ asked = [d \in Devices |-> {}]
    /\ told = [d \in Devices |-> "none"]
    /\ into = [d \in Devices |-> NoSession]
    /\ sent = {}
    /\ arrived = {}

\* A device is asked to send, for the first time or after its last send ended.
Ask(d, fs) ==
    /\ asked[d] = {} \/ told[d] # "none"
    /\ asked' = [asked EXCEPT ![d] = fs]
    /\ told' = [told EXCEPT ![d] = "none"]
    /\ into' = [into EXCEPT ![d] = NoSession]
    /\ UNCHANGED <<sent, arrived>>

InProgress(d) == asked[d] # {} /\ told[d] = "none"

\* The receiver has agreed: the send has a session that is its own, and the
\* first file goes out or cannot be read.
Join(d, s) ==
    /\ InProgress(d) /\ into[d] = NoSession
    /\ \A e \in Devices : into[e] # s
    /\ \A x \in sent : x[2] # s
    /\ into' = [into EXCEPT ![d] = s]
    /\ \/ UNCHANGED sent
       \/ \E f \in asked[d] : sent' = sent \cup {<<d, s, f>>}
    /\ UNCHANGED <<asked, told, arrived>>

\* Another file goes out.
Put(d, f) ==
    /\ InProgress(d) /\ into[d] # NoSession
    /\ f \in asked[d]
    /\ sent' = sent \cup {<<d, into[d], f>>}
    /\ UNCHANGED <<asked, told, into, arrived>>

\* A file that was put is renamed into the receive directory, whether or not
\* its sender still waits for it.
Arrive(s, f) ==
    /\ \E d \in Devices : <<d, s, f>> \in sent
    /\ <<s, f>> \notin arrived
    /\ arrived' = arrived \cup {<<s, f>>}
    /\ UNCHANGED <<asked, told, into, sent>>

\* The user is told how the send ended.
Tell(d, ending) ==
    /\ InProgress(d)
    /\ ending = "ok" =>
         \A f \in asked[d] : <<d, into[d], f>> \in sent /\ <<into[d], f>> \in arrived
    /\ told' = [told EXCEPT ![d] = ending]
    /\ UNCHANGED <<asked, into, sent, arrived>>

SendNext ==
    \/ \E d \in Devices :
         \/ \E fs \in (SUBSET Files) \ {{}} : Ask(d, fs)
         \/ \E s \in SessionIds : Join(d, s)
         \/ \E f \in Files : Put(d, f)
         \/ \E ending \in Endings : Tell(d, ending)
    \/ \E s \in SessionIds, f \in Files : Arrive(s, f)

SendSpec == SendInit /\ [][SendNext]_sendVars
=============================================================================
