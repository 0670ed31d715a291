------------------------------ MODULE MCSeatEnv ------------------------------
(* Two users, one of them root; one passphrase that is right for both and    *)
(* one that is right for nobody until the shadow file is edited.             *)
EXTENDS SeatEnv

CONSTANTS root, alice, uid0, uid1, right, wrong

MCUsers == {root, alice}
MCUids == {uid0, uid1}
MCSecrets == {right, wrong}
MCShadow == [u \in MCUsers |-> [pass |-> right, account |-> "Ok"]]
MCPasswd == [u \in MCUsers |-> IF u = root THEN uid0 ELSE uid1]
===============================================================================
