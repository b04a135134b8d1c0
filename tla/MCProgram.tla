----------------------------- MODULE MCProgram -----------------------------
(***************************************************************************)
(* An instance of Program: five command lines, and four bar codes of which *)
(* two pass the filter.                                                    *)
(***************************************************************************)
EXTENDS Program

MCCommandLines ==
  { [stresstest |-> TRUE, bc_thres_stop |-> 70],
    <<>>,
    [bc_thres_start |-> 100, bc_thres_step |-> 30, bc_clahe |-> TRUE],
    [bc_thres_stop |-> 200, bc_thres_step |-> 120, debugwindow |-> TRUE, name |-> TRUE],
    [bc_thres_step |-> 0, debugwindow |-> TRUE] }

MCSymbols ==
  { [type |-> "I2/5", digits |-> TRUE, zeros |-> FALSE, uncut |-> FALSE,
     thresholds |-> 80..160],
    [type |-> "CODE-39", digits |-> FALSE, zeros |-> FALSE, uncut |-> TRUE,
     thresholds |-> 60..100],
    [type |-> "I2/5", digits |-> FALSE, zeros |-> FALSE, uncut |-> TRUE,
     thresholds |-> 60..160],
    [type |-> "CODE-128", digits |-> TRUE, zeros |-> TRUE, uncut |-> TRUE,
     thresholds |-> 60..160] }

MCViews == {{}, MCSymbols}

=============================================================================
