---------------------------- MODULE MCLocalDevice ----------------------------
(***************************************************************************)
(* Instances of LocalDevice for TLC.                                       *)
(***************************************************************************)
EXTENDS LocalDevice

AllKinds == DOMAIN Expected \ (FromDialog \cup {"Reauthenticate"})
PairKinds == {"Authenticate", "GetFriendlyName"}
WithExt == {TRUE}
AnyPaired == SUBSET Devices
OnePaired == {{CHOOSE d \in Devices : TRUE}}
Refusable == {"REMOTE_NAME_REQUEST", "CREATE_CONN"}
NoRefusal == {}
=============================================================================
