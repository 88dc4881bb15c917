------------------------------ MODULE MCServer ------------------------------
(***************************************************************************)
(* The environments TLC starts Server in: every set of entries, with a     *)
(* blank one and a name that is no checkpoint's; and a key.                *)
(***************************************************************************)
EXTENDS Server

MCEnvironments ==
    [preload : SUBSET (Names \cup {Blank}), integers : {TRUE}, key : {FALSE}]
    \cup [preload : {{}, Checkpoints}, integers : BOOLEAN, key : {TRUE}]
=============================================================================
