---------------------------- MODULE ExtentServer ----------------------------
(***************************************************************************)
(* extent_server.cc: the maps extents and extent_attrs and the handlers    *)
(* put, get, getattr and remove.  Contents are opaque values; the          *)
(* attributes of an extent are represented by the contents they were       *)
(* computed for (size and times are functions of a put), so that an extent *)
(* whose attributes describe other contents is told apart from one whose   *)
(* attributes are right.  setattr has no caller and is not registered.     *)
(***************************************************************************)
CONSTANTS
    Eid,    \* extent ids
    Data,   \* contents an application writes
    NoData  \* an entry that a map does not have

ASSUME ExtentAssumption == NoData \notin Data

VARIABLES
    store,     \* extents at the server
    storeAttr  \* extent_attrs at the server

serverVars == <<store, storeAttr>>

Contents == Data \cup {NoData}

ServerInit ==
    /\ store = [e \in Eid |-> NoData]
    /\ storeAttr = [e \in Eid |-> NoData]

ServerTypeOK ==
    /\ store \in [Eid -> Contents]
    /\ storeAttr \in [Eid -> Contents]

put(e, d, a) ==
    /\ store' = [store EXCEPT ![e] = d]
    /\ storeAttr' = [storeAttr EXCEPT ![e] = a]

getOK(e) == store[e] # NoData /\ storeAttr[e] # NoData

getattrOK(e) == storeAttr[e] # NoData

removeOK(e) == store[e] # NoData

remove(e) ==
    IF removeOK(e)
    THEN /\ store' = [store EXCEPT ![e] = NoData]
         /\ storeAttr' = [storeAttr EXCEPT ![e] = NoData]
    ELSE UNCHANGED serverVars
=============================================================================
