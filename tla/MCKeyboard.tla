----------------------------- MODULE MCKeyboard -----------------------------
(***************************************************************************)
(* Each platform with the keys it treats in a way of its own.              *)
(***************************************************************************)
EXTENDS Keyboard

MCKeys ==
    [p \in Platforms |->
        CASE p = "windows" -> {"ControlLeft", "AltRight", "ShiftLeft", "ShiftRight", "KeyA", "Lang1"}
          [] p = "mac" -> {"MetaLeft", "CapsLock", "KeyA"}
          [] p = "other" -> {"CapsLock", "KeyA", "Unidentified"}
          [] p = "legacy" -> {"ShiftLeft", "ShiftRight", "MetaLeft", "KeyA"}]

MCReported ==
    [p \in Platforms |->
        CASE p = "windows" -> {}
          [] p = "mac" -> {"CapsLock"}
          [] p = "other" -> {"CapsLock"}
          [] p = "legacy" -> {"NumLock"}]
=============================================================================
