---------------------------- MODULE MCRxReorder ----------------------------
(* Small instance: a window of four that crosses the wrap from 4095 to 0,  *)
(* four reorder entries that other streams may take, and frames half the   *)
(* sequence space ahead and behind.                                        *)
EXTENDS RxReorder

MCStarts == {4092}
MCFrames == 4091..4104 \cup 6140..6146
MCOffsets == {-2048, -3, -1} \cup 0..6 \cup {2047}
=============================================================================
