---------------------------- MODULE MCUbiVolumes ----------------------------
(* Instances of UbiVolumes for TLC. *)
EXTENDS UbiVolumes, TLC

\* A flash as ubinize writes it: no volume, or one that is to take all the room.
CONSTANTS va, vb
NoVolumes == {EmptyTable}
OneVolume == {[EmptyTable EXCEPT ![0] = [EmptyRec EXCEPT !.pebs = 1, !.type = "dynamic",
                                                        !.name = va]]}
AutoVolume == {[EmptyTable EXCEPT ![0] = [EmptyRec EXCEPT !.pebs = 1, !.type = "dynamic",
                                                         !.name = va, !.auto = TRUE]]}
AnyFlash == NoVolumes \cup OneVolume \cup AutoVolume
=============================================================================
