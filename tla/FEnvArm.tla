------------------------------ MODULE FEnvArm ------------------------------
(***************************************************************************)
(* The floating-point environment of aarch64, from                         *)
(* src/__support/FPUtil/aarch64/FEnvImpl.h and, where macOS differs,       *)
(* fenv_darwin_impl.h.  It is two registers, the control word fpcr and the *)
(* status word fpsr, each the set of the numbers of its bits that are 1.   *)
(* A processor need not implement trapping: then the enable bits of fpcr   *)
(* read as 0 whatever is written.                                          *)
(***************************************************************************)
EXTENDS Integers, Sequences, SequencesExt

\* Flags and enables on Linux: adjacent bits in the same order, from bit 0 of
\* the status word and from bit 8 of the control word.
LinuxStatusBit ==
    [INVALID |-> 0, DIVBYZERO |-> 1, OVERFLOW |-> 2, UNDERFLOW |-> 3, INEXACT |-> 4]

LinuxControlBit == [x \in DOMAIN LinuxStatusBit |-> LinuxStatusBit[x] + 8]

\* macOS counts flush-to-zero as an exception.  Its flag is bit 7 of fpsr;
\* what enabling it sets is bit 24 of fpcr, the flush-to-zero mode.
exception_value_to_status ==
    [INVALID |-> 0, DIVBYZERO |-> 1, OVERFLOW |-> 2, UNDERFLOW |-> 3, INEXACT |-> 4,
     FLUSHTOZERO |-> 7]

exception_value_to_control ==
    [INVALID |-> 8, DIVBYZERO |-> 9, OVERFLOW |-> 10, UNDERFLOW |-> 11, INEXACT |-> 12,
     FLUSHTOZERO |-> 24]

StatusBit(m) == IF m = "darwin" THEN exception_value_to_status ELSE LinuxStatusBit

ControlBit(m) == IF m = "darwin" THEN exception_value_to_control ELSE LinuxControlBit

getStatusValueForExcept(bit, excepts) == {bit[x] : x \in excepts}

exceptionStatusToMacro(bit, word) == {x \in DOMAIN bit : bit[x] \in word}

----------------------------------------------------------------------------

writeControlWord(m, hw, w) ==
    IF hw.trap THEN hw
    ELSE [hw EXCEPT !.fpcr = IF m = "aarch64_no_traps" THEN w \ 8..12 ELSE w]

writeStatusWord(hw, w) == IF hw.trap THEN hw ELSE [hw EXCEPT !.fpsr = w]

PowerOn == [fpcr |-> {}, fpsr |-> {}, trap |-> FALSE]

\* An instruction signals the exceptions xs.  An exception whose enable bit is
\* set traps and is not flagged; the others are.  A result flushed to zero is
\* an underflow that is neither inexact nor trapped.
Signal(hw, xs) ==
    IF hw.trap THEN hw
    ELSE IF \E x \in xs : LinuxControlBit[x] \in hw.fpcr THEN [hw EXCEPT !.trap = TRUE]
    ELSE [hw EXCEPT !.fpsr = @ \cup {LinuxStatusBit[x] : x \in xs}]

Compute(hw, xs) ==
    IF "UNDERFLOW" \in xs /\ 24 \in hw.fpcr
    THEN LET other == Signal(hw, xs \ {"UNDERFLOW", "INEXACT"})
         IN  IF other.trap THEN other ELSE [other EXCEPT !.fpsr = @ \cup {3}]
    ELSE Signal(hw, xs)

----------------------------------------------------------------------------

enable_except(m, hw, excepts) ==
    [hw  |-> writeControlWord(m, hw, hw.fpcr \cup getStatusValueForExcept(ControlBit(m), excepts)),
     ret |-> exceptionStatusToMacro(ControlBit(m), hw.fpcr)]

disable_except(m, hw, excepts) ==
    [hw  |-> writeControlWord(m, hw, hw.fpcr \ getStatusValueForExcept(ControlBit(m), excepts)),
     ret |-> exceptionStatusToMacro(ControlBit(m), hw.fpcr)]

get_except(m, hw) == exceptionStatusToMacro(ControlBit(m), hw.fpcr)

clear_except(m, hw, excepts) ==
    writeStatusWord(hw, hw.fpsr \ getStatusValueForExcept(StatusBit(m), excepts))

test_except(m, hw, excepts) ==
    exceptionStatusToMacro(StatusBit(m),
                           hw.fpsr \cap getStatusValueForExcept(StatusBit(m), excepts))

set_except(m, hw, excepts) ==
    writeStatusWord(hw, hw.fpsr \cup getStatusValueForExcept(StatusBit(m), excepts))

\* The division that provokes each exception, and all that it signals.
divfunc ==
    [INVALID |-> {"INVALID"}, DIVBYZERO |-> {"DIVBYZERO"},
     OVERFLOW |-> {"OVERFLOW", "INEXACT"}, UNDERFLOW |-> {"UNDERFLOW", "INEXACT"},
     INEXACT |-> {"INEXACT"}]

RaiseOrder == <<"INVALID", "DIVBYZERO", "OVERFLOW", "UNDERFLOW", "INEXACT">>

\* One division after the other; the result says whether its flag came up.
raise_one(done, x) ==
    LET hw == Compute(done.hw, divfunc[x])
    IN  [hw |-> hw, ret |-> IF LinuxStatusBit[x] \in hw.fpsr THEN done.ret ELSE -1]

raise_all(hw, excepts) ==
    FoldLeft(raise_one, [hw |-> hw, ret |-> 0], SelectSeq(RaiseOrder, LAMBDA x : x \in excepts))

\* Raising flush-to-zero is not implemented on macOS and reported so.
raise_except_darwin(hw, excepts) ==
    LET done == raise_all(hw, excepts)
    IN  IF "FLUSHTOZERO" \in excepts THEN [done EXCEPT !.ret = -1] ELSE done

raise_except(m, hw, excepts) ==
    IF m = "darwin" THEN raise_except_darwin(hw, excepts) ELSE raise_all(hw, excepts)

RoundingControl ==
    [TONEAREST |-> {}, UPWARD |-> {0}, DOWNWARD |-> {1}, TOWARDZERO |-> {0, 1}]

get_round(hw) ==
    CHOOSE mode \in DOMAIN RoundingControl :
        {bit + 22 : bit \in RoundingControl[mode]} = hw.fpcr \cap {22, 23}

set_round(m, hw, mode) ==
    IF mode \notin DOMAIN RoundingControl THEN [hw |-> hw, ret |-> 1]
    ELSE [hw  |-> writeControlWord(m, hw, (hw.fpcr \ {22, 23})
                                          \cup {bit + 22 : bit \in RoundingControl[mode]}),
          ret |-> 0]

get_env(hw) == [hw |-> hw, env |-> [fpcr |-> hw.fpcr, fpsr |-> hw.fpsr]]

\* A pointer to an fenv_t, and the one that points to none.
FE_DFL_ENV == <<>>

set_env(m, hw, envp) ==
    IF envp = FE_DFL_ENV THEN writeControlWord(m, writeStatusWord(hw, {}), {})
    ELSE writeStatusWord(writeControlWord(m, hw, envp[1].fpcr), envp[1].fpsr)

=============================================================================
