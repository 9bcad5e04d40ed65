------------------------------ MODULE FEnvX86 ------------------------------
(***************************************************************************)
(* The floating-point environment of x86_64, from                          *)
(* src/__support/FPUtil/x86_64/FEnvImpl.h.  The processor has two units,   *)
(* and the environment is spread over three registers: the control word    *)
(* cw and the status word sw of the x87, and the mxcsr of SSE.  A register *)
(* is the set of the numbers of its bits that are 1.                       *)
(*                                                                         *)
(* The FE_* macros are the host's: an argument `excepts' is a set of names *)
(* and __FE_DENORM is not defined.                                         *)
(***************************************************************************)
EXTENDS Integers, Sequences, SequencesExt

Shift(word, by) == {bit + by : bit \in word}

----------------------------------------------------------------------------
(* The instructions the header wraps.  An x87 instruction other than the   *)
(* fn* ones first waits: it traps when an exception is flagged and not     *)
(* masked.  After a trap nothing runs.                                     *)

Masks == 0..5

Pending(hw) == ((hw.sw \cap Masks) \ hw.cw) # {}

Waiting(hw, result) ==
    IF hw.trap THEN hw
    ELSE IF Pending(hw) THEN [hw EXCEPT !.trap = TRUE] ELSE result

write_x87_control_word(hw, w) == Waiting(hw, [hw EXCEPT !.cw = w])

write_mxcsr(hw, w) == IF hw.trap THEN hw ELSE [hw EXCEPT !.mxcsr = w]

\* fnstenv stores the environment, and then masks every x87 exception.
get_x87_state_descriptor(hw) ==
    IF hw.trap THEN hw ELSE [hw EXCEPT !.cw = @ \cup Masks]

write_x87_state_descriptor(hw, cw, sw) ==
    Waiting(hw, [hw EXCEPT !.cw = cw, !.sw = sw])

fwait(hw) == Waiting(hw, hw)

\* An SSE instruction raises the exceptions xs, an x87 one does, and one
\* pushes on the x87 stack: its top is kept in bits 11 to 13 of sw.
FlagBit == [INVALID |-> 0, DIVBYZERO |-> 2, OVERFLOW |-> 3, UNDERFLOW |-> 4,
            INEXACT |-> 5]

Flags(xs) == {FlagBit[x] : x \in xs}

SseCompute(hw, xs) ==
    IF hw.trap THEN hw
    ELSE [hw EXCEPT !.mxcsr = @ \cup Flags(xs),
                    !.trap = \E bit \in Flags(xs) : bit + 7 \notin hw.mxcsr]

X87Compute(hw, xs) == Waiting(hw, [hw EXCEPT !.sw = @ \cup Flags(xs)])

X87Push(hw) == Waiting(hw, [hw EXCEPT !.sw = @ \cup {11, 12, 13}])

\* What the kernel starts a thread with.
PowerOn == [cw |-> Masks \cup {8, 9}, sw |-> {}, mxcsr |-> 7..12, trap |-> FALSE]

----------------------------------------------------------------------------

get_status_value_for_except(excepts) == {FlagBit[x] : x \in excepts}

exception_status_to_macro(status) == {x \in DOMAIN FlagBit : FlagBit[x] \in status}

enable_except_bits(hw, bits) ==
    LET x87 == write_x87_control_word(hw, hw.cw \ bits)
    IN  write_mxcsr(x87, x87.mxcsr \ Shift(bits, 7))

enable_except(hw, excepts) ==
    [hw  |-> enable_except_bits(hw, get_status_value_for_except(excepts)),
     ret |-> exception_status_to_macro(Masks \ hw.cw)]

disable_except_bits(hw, bits) ==
    LET x87 == write_x87_control_word(hw, hw.cw \cup bits)
    IN  write_mxcsr(x87, x87.mxcsr \cup Shift(bits, 7))

disable_except(hw, excepts) ==
    [hw  |-> disable_except_bits(hw, get_status_value_for_except(excepts)),
     ret |-> exception_status_to_macro(Masks \ hw.cw)]

get_except(hw) == exception_status_to_macro(Masks \ Shift(hw.mxcsr, -7))

\* The descriptor is stored, its status word replaced, and loaded again: the
\* control word that comes back is the one from before fnstenv's masking.
clear_except(hw, excepts) ==
    LET bits == get_status_value_for_except(excepts)
        x87  == write_x87_state_descriptor(get_x87_state_descriptor(hw), hw.cw, hw.sw \ bits)
    IN  write_mxcsr(x87, x87.mxcsr \ bits)

test_except(hw, excepts) ==
    exception_status_to_macro(get_status_value_for_except(excepts) \cap hw.mxcsr)

set_except(hw, excepts) ==
    LET bits == get_status_value_for_except(excepts)
        x87  == write_x87_state_descriptor(get_x87_state_descriptor(hw), hw.cw, hw.sw \cup bits)
    IN  write_mxcsr(x87, x87.mxcsr \cup bits)

raise_helper(hw, single) ==
    LET x87 == write_x87_state_descriptor(get_x87_state_descriptor(hw), hw.cw, hw.sw \cup {single})
    IN  fwait(write_mxcsr(x87, x87.mxcsr \cup {single}))

RaiseOrder == <<"INVALID", "DIVBYZERO", "OVERFLOW", "UNDERFLOW", "INEXACT">>

raise_except(hw, excepts) ==
    LET raised == SelectSeq(RaiseOrder, LAMBDA x : x \in excepts)
    IN  [hw  |-> FoldLeft(LAMBDA h, x : raise_helper(h, FlagBit[x]), hw, raised),
         ret |-> 0]

RoundingControlValue ==
    [TONEAREST |-> {}, DOWNWARD |-> {0}, UPWARD |-> {1}, TOWARDZERO |-> {0, 1}]

get_round(hw) ==
    CHOOSE mode \in DOMAIN RoundingControlValue :
        RoundingControlValue[mode] = Shift(hw.mxcsr, -13) \cap {0, 1}

\* Mutant: the x87 is left in its old mode.
set_round_sse_only(hw, mode) ==
    IF mode \notin DOMAIN RoundingControlValue THEN [hw |-> hw, ret |-> 1]
    ELSE [hw  |-> write_mxcsr(hw, (hw.mxcsr \ {13, 14})
                                  \cup Shift(RoundingControlValue[mode], 13)),
          ret |-> 0]

set_round(hw, mode) ==
    LET value == RoundingControlValue[mode]
        x87   == write_x87_control_word(hw, (hw.cw \ {10, 11}) \cup Shift(value, 10))
    IN  IF mode \notin DOMAIN RoundingControlValue THEN [hw |-> hw, ret |-> 1]
        ELSE [hw  |-> write_mxcsr(x87, (x87.mxcsr \ {13, 14}) \cup Shift(value, 13)),
              ret |-> 0]

\* The x87 is not loaded again: get_env leaves its exceptions masked.
get_env(hw) ==
    [hw  |-> get_x87_state_descriptor(hw),
     env |-> [cw |-> hw.cw, sw |-> hw.sw, mxcsr |-> hw.mxcsr]]

\* A pointer to an fenv_t, and the one that points to none.
FE_DFL_ENV == <<>>

\* Of the status word only the flags are the caller's; the top of the stack
\* stays.  The default environment also resets precision, denormals-are-zero
\* and flush-to-zero.
set_env(hw, envp) ==
    LET stored == get_x87_state_descriptor(hw)
    IN  IF envp = FE_DFL_ENV
        THEN write_mxcsr(
                 write_x87_state_descriptor(
                     stored, ((hw.cw \cup Masks) \ {10, 11}) \cup {8, 9}, hw.sw \ Masks),
                 (hw.mxcsr \ (Masks \cup {6, 13, 14, 15})) \cup 7..12)
        ELSE write_mxcsr(
                 write_x87_state_descriptor(
                     stored, envp[1].cw, (hw.sw \ Masks) \cup (envp[1].sw \cap Masks)),
                 envp[1].mxcsr)

----------------------------------------------------------------------------
(* Windows keeps a control and a status word of its own format.            *)

Move(word, bits, by) == Shift(word \cap bits, by)

Twice(low) == low \cup Shift(low, 24)

Xor(a, b) == (a \cup b) \ (a \cap b)

get_env_win(mxcsr) ==
    [status  |-> Twice(Move(mxcsr, {0, 1}, 4) \cup Move(mxcsr, {2}, 1)
                       \cup Move(mxcsr, {3}, -1) \cup Move(mxcsr, {4}, -3)
                       \cup Move(mxcsr, {5}, -5)),
     control |-> Twice(Move(mxcsr, {7, 8}, -3) \cup Move(mxcsr, {9}, -6)
                       \cup Move(mxcsr, {10}, -8) \cup Move(mxcsr, {11}, -10)
                       \cup Move(mxcsr, {12}, -12))
                 \cup Move(mxcsr, {13, 14}, -5) \cup Move(mxcsr, {13, 14}, 17)
                 \cup Move(mxcsr, {15}, -5)
                 \cup Shift(Xor(Move(mxcsr, {15}, -9), mxcsr \cap {6}), 5)]

set_env_win(env) ==
    Move(env.status, {28, 29}, -28) \cup Move(env.status, {27}, -25)
    \cup Move(env.status, {26}, -23) \cup Move(env.status, {25}, -21)
    \cup Move(env.status, {24}, -19)
    \cup Shift(Xor(Move(env.control, {11}, -1), env.control \cap {10}), -4)
    \cup Move(env.control, {28, 29}, -21) \cup Move(env.control, {27}, -18)
    \cup Move(env.control, {26}, -16) \cup Move(env.control, {25}, -14)
    \cup Move(env.control, {24}, -12)
    \cup Move(env.control, {30, 31}, -17) \cup Move(env.control, {10}, 5)

=============================================================================
