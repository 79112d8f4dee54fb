--------------------------- MODULE PairingContract ---------------------------
(***************************************************************************)
(* What pairing promises, without connections that break, timers, slots or *)
(* dialogs: two devices end up saving each other only after the users of   *)
(* both have typed the code of one and the same ping, the receiver's first *)
(* (TECHNICAL_ROUTE.md section 4, as PingService and PingClient carry it   *)
(* out).                                                                   *)
(***************************************************************************)
CONSTANTS Pings, Devices, NoPing, NoDevice

VARIABLES
    from,       \* the device that has sent each ping
    typed,      \* pings whose code the receiver's user has typed
    saved,      \* the devices the receiver has saved
    granted,    \* pings that were answered with 200
    paired      \* the ping each device has saved its peer by, as long as it
                \* has not begun to pair once more

pairingVars == <<from, typed, saved, granted, paired>>

PairingInit ==
    /\ from = [c \in Pings |-> NoDevice]
    /\ typed = {} /\ saved = {} /\ granted = {}
    /\ paired = [d \in Devices |-> NoPing]

\* A device pings the receiver; its user has seen no code of that ping before.
SendPing(d, c) ==
    /\ from[c] = NoDevice
    /\ from' = [from EXCEPT ![c] = d]
    /\ UNCHANGED <<typed, saved, granted, paired>>

\* The receiver's user types the code of a ping, once.  The device that sent it
\* is saved and told so, or neither, where the trust store cannot be written.
ReceiverConfirms(c) ==
    /\ from[c] # NoDevice /\ c \notin typed
    /\ typed' = typed \cup {c}
    /\ \/ saved' = saved \cup {from[c]} /\ granted' = granted \cup {c}
       \/ UNCHANGED <<saved, granted>>
    /\ UNCHANGED <<from, paired>>

\* The sender's user types the code of the ping that was granted to this device.
SenderConfirms(d, c) ==
    /\ from[c] = d /\ c \in granted
    /\ paired' = [paired EXCEPT ![d] = c]
    /\ UNCHANGED <<from, typed, saved, granted>>

\* The device is asked to pair again.
PairAgain(d) ==
    /\ paired[d] # NoPing
    /\ paired' = [paired EXCEPT ![d] = NoPing]
    /\ UNCHANGED <<from, typed, saved, granted>>

PairingNext ==
    \/ \E c \in Pings : ReceiverConfirms(c)
    \/ \E d \in Devices :
         \/ PairAgain(d)
         \/ \E c \in Pings : SendPing(d, c) \/ SenderConfirms(d, c)

PairingSpec == PairingInit /\ [][PairingNext]_pairingVars
=============================================================================
