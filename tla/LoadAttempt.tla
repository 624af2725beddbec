----------------------------- MODULE LoadAttempt -----------------------------
(***************************************************************************)
(* What one attempt at a two-stage load promises to the load session that  *)
(* makes it: a success means that the launch is committed, from verified   *)
(* RAM and with the EEPROM programmed if that was asked for, and "a lower  *)
(* baud rate might help" means that nothing has happened yet that a second *)
(* attempt would repeat.                                                   *)
(***************************************************************************)
VARIABLES LoadType,   \* subset of {"run", "program"}, fixed before the attempt
          result,     \* "pending", or "ok", "fatal", "stepDown": 0, -1, -2
          loader,     \* "rx" while the micro-loader runs, then "run", "reset", "wild"
          committed,  \* the image is verified in RAM and will be launched
          eeprom      \* "old", "torn" or "programmed"

attempt == <<result, loader, committed, eeprom>>

Init == result = "pending" /\ loader = "rx" /\ committed = FALSE /\ eeprom = "old"

\* The Propeller may still act after the host has given up.
Running == loader = "rx" /\ result \in {"pending", "fatal"} /\ ~committed

ProgramEEPROM ==
  /\ Running /\ "program" \in LoadType /\ eeprom = "old"
  /\ eeprom' \in {"torn", "programmed"}
  /\ UNCHANGED <<result, loader, committed>>

Commit ==
  /\ Running /\ ("program" \in LoadType => eeprom = "programmed")
  /\ committed' = TRUE
  /\ UNCHANGED <<result, loader, eeprom>>

\* Damage may lead the Propeller astray at any time.
Leave ==
  /\ loader = "rx"
  /\ loader' \in {"reset", "wild"} \/ (committed /\ loader' = "run")
  /\ UNCHANGED <<result, committed, eeprom>>

Return ==
  /\ result = "pending"
  /\ \/ result' = "ok" /\ committed
     \/ result' = "fatal"
     \/ result' = "stepDown" /\ ~committed /\ eeprom = "old"
  /\ UNCHANGED <<loader, committed, eeprom>>

Next == ProgramEEPROM \/ Commit \/ Leave \/ Return

Spec == Init /\ [][Next]_attempt
=============================================================================
