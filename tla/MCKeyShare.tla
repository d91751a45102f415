------------------------------ MODULE MCKeyShare ------------------------------
(* KeyShare with bounds: the requests are of one device.                    *)
EXTENDS KeyShare
CONSTANTS d1
MCMaxCommands == <<2, 1>>
MCDeviceOf == [k \in KeyRequests |-> d1]
=============================================================================
