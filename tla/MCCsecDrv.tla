------------------------------- MODULE MCCsecDrv -------------------------------
(***************************************************************************)
(* The C driver with a handful of calls: inputs of one, two and three      *)
(* parts, a MAC that fits behind its message and one that does not.        *)
(***************************************************************************)
EXTENDS CsecDrvInv

ThreadCallsDef == {Long("DEC_ECB", 8), Long("GENERATE_MAC", 7), Long("VERIFY_MAC", 6),
                   Long("MP_COMPRESS", 8), LoadKey}
IsrCallsDef == {Long("ENC_ECB", 1)}
AsyncCallsDef == {Long("ENC_CBC", 14), Long("VERIFY_MAC", 3)}

\* Spec lets the thread go on while the engine's interrupt is pending, as it does with
\* interrupts masked.  The counterexamples do not need that: here it is taken at once.
Pending == irq /\ ccif /\ at["isr"] = "idle" /\ at["handler"] = "idle"
PromptNext == Next /\ (Pending => FTFC_IRQHandler \/ HandlerForNothing)
PromptSpec == CSEC_DRV_Init /\ [][PromptNext]_vars
=============================================================================
