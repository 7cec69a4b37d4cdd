------------------------------ MODULE MCClient ------------------------------
(* The Groovy client on small instances: its session and, beside it, the    *)
(* parts of it that the session abstracts from: the send path, the receive  *)
(* path and the servo that follows the raster.  They share no state, so     *)
(* each is explored on its own: a behaviour is one of the part it starts    *)
(* with, the others rest in an initial state.                               *)
EXTENDS GroovySession, SendPath, ReceivePath, RasterServo

VARIABLE part

clientPartVars == <<part, vars, sendVars, receiveVars, rasterVars>>

ClientInit ==
  /\ part \in {"session", "send", "receive", "raster"}
  /\ Init /\ SendInit /\ ReceiveInit /\ RasterInit
  /\ part # "session" =>
       coreUp /\ selected = CHOOSE mode \in Modes \ Refused : TRUE

ClientNext ==
  \/ /\ part = "session" /\ Next
     /\ UNCHANGED <<part, sendVars, receiveVars, rasterVars>>
  \/ /\ part = "send" /\ SendNext
     /\ UNCHANGED <<part, vars, receiveVars, rasterVars>>
  \/ /\ part = "receive" /\ ReceiveNext
     /\ UNCHANGED <<part, vars, sendVars, rasterVars>>
  \/ /\ part = "raster" /\ RasterNext
     /\ UNCHANGED <<part, vars, sendVars, receiveVars>>

ClientSpec == ClientInit /\ [][ClientNext]_clientPartVars

\* The types of all four parts.
ClientTypeOK == TypeOK /\ SendTypeOK /\ ReceiveTypeOK /\ RasterTypeOK
=============================================================================
