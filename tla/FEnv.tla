-------------------------------- MODULE FEnv --------------------------------
(***************************************************************************)
(* The functions of src/fenv over the environments of the processors, and  *)
(* the environment the C standard describes: a set of flags, a set of      *)
(* enabled exceptions and a rounding mode.  A program is a sequence of     *)
(* calls and of floating-point instructions; the registers must show what  *)
(* the abstract environment shows after every step of every program.       *)
(***************************************************************************)
EXTENDS Integers, Sequences, SequencesExt

X == INSTANCE FEnvX86
A == INSTANCE FEnvArm

Machines == {"x86_64", "aarch64", "aarch64_no_traps", "darwin"}

X86(m) == m = "x86_64"

AllExcept(m) == IF X86(m) THEN DOMAIN X!FlagBit ELSE DOMAIN A!StatusBit(m)

PowerOn(m) == IF X86(m) THEN X!PowerOn ELSE A!PowerOn

----------------------------------------------------------------------------
(* FEnvImpl.h of the machine.                                              *)

enable_except(m, hw, e) == IF X86(m) THEN X!enable_except(hw, e) ELSE A!enable_except(m, hw, e)
disable_except(m, hw, e) == IF X86(m) THEN X!disable_except(hw, e) ELSE A!disable_except(m, hw, e)
get_except(m, hw) == IF X86(m) THEN X!get_except(hw) ELSE A!get_except(m, hw)
clear_except(m, hw, e) == IF X86(m) THEN X!clear_except(hw, e) ELSE A!clear_except(m, hw, e)
test_except(m, hw, e) == IF X86(m) THEN X!test_except(hw, e) ELSE A!test_except(m, hw, e)
set_except(m, hw, e) == IF X86(m) THEN X!set_except(hw, e) ELSE A!set_except(m, hw, e)
raise_except(m, hw, e) == IF X86(m) THEN X!raise_except(hw, e) ELSE A!raise_except(m, hw, e)
get_round(m, hw) == IF X86(m) THEN X!get_round(hw) ELSE A!get_round(hw)
set_round(m, hw, mode) == IF X86(m) THEN X!set_round(hw, mode) ELSE A!set_round(m, hw, mode)
get_env(m, hw) == IF X86(m) THEN X!get_env(hw) ELSE A!get_env(hw)
set_env(m, hw, envp) == IF X86(m) THEN X!set_env(hw, envp) ELSE A!set_env(m, hw, envp)

----------------------------------------------------------------------------
(* src/fenv.  The program's state s has the registers hw, one fenv_t env,  *)
(* one fexcept_t flag, and ret, what the last call returned.               *)

feclearexcept(m, s, e) == [s EXCEPT !.hw = clear_except(m, s.hw, e), !.ret = 0]

fetestexcept(m, s, e) == [s EXCEPT !.ret = test_except(m, s.hw, e)]

Returned(s, result) == [s EXCEPT !.hw = result.hw, !.ret = result.ret]

feraiseexcept(m, s, e) == Returned(s, raise_except(m, s.hw, e))

feenableexcept(m, s, e) == Returned(s, enable_except(m, s.hw, e))

fedisableexcept(m, s, e) == Returned(s, disable_except(m, s.hw, e))

fegetexcept(m, s) == [s EXCEPT !.ret = get_except(m, s.hw)]

fegetround(m, s) == [s EXCEPT !.ret = get_round(m, s.hw)]

fesetround(m, s, mode) == Returned(s, set_round(m, s.hw, mode))

fegetexceptflag(m, s, e) ==
    [s EXCEPT !.flag = test_except(m, s.hw, AllExcept(m)) \cap e, !.ret = 0]

\* All the flags are cleared, also those that `excepts' does not name.
fesetexceptflag(m, s, e) ==
    [s EXCEPT !.hw = set_except(m, clear_except(m, s.hw, AllExcept(m)), s.flag \cap e),
              !.ret = 0]

Stored(s, result) == [s EXCEPT !.hw = result.hw, !.env = result.env, !.ret = 0]

fegetenv(m, s) == Stored(s, get_env(m, s.hw))

fesetenv(m, s, envp) == [s EXCEPT !.hw = set_env(m, s.hw, envp), !.ret = 0]

hold(m, hw) == disable_except(m, clear_except(m, hw, AllExcept(m)), AllExcept(m)).hw

quiet_after(m, stored) == [stored EXCEPT !.hw = hold(m, stored.hw)]

feholdexcept(m, s) == Stored(s, quiet_after(m, get_env(m, s.hw)))

\* Mutant: the flags are read after they have been replaced.
feupdateenv_late(m, s, envp) ==
    LET hw == set_env(m, s.hw, envp)
    IN  Returned(s, raise_except(m, hw, test_except(m, hw, AllExcept(m))))

feupdateenv(m, s, envp) ==
    Returned(s, raise_except(m, set_env(m, s.hw, envp), test_except(m, s.hw, AllExcept(m))))

----------------------------------------------------------------------------
(* Programs.  A step names a function and its argument; "sse" and "x87"    *)
(* are arithmetic in the unit of that name (aarch64 has one unit), "push"  *)
(* loads the x87 stack.                                                    *)

Some == {{"INVALID"}, {"UNDERFLOW", "INEXACT"}, {"OVERFLOW"}}

Takes(fs, args) == {<<f, arg>> : f \in fs, arg \in args}

Steps(m) ==
    Takes({"feclearexcept", "fetestexcept", "feraiseexcept", "feenableexcept",
           "fedisableexcept", "fegetexceptflag", "fesetexceptflag"},
          {{"INVALID"}, {"OVERFLOW"}, AllExcept(m)})
    \cup Takes({"fesetround"}, {"DOWNWARD", "UPWARD", "OTHER"})
    \cup Takes({"fesetenv", "feupdateenv"}, {"env", "FE_DFL_ENV"})
    \cup Takes({"fegetexcept", "fegetround", "fegetenv", "feholdexcept", "push"}, {"none"})
    \cup Takes({"sse", "x87"}, Some)

Compute(m, s, unit, xs) ==
    [s EXCEPT !.hw = IF ~X86(m) THEN A!Compute(s.hw, xs)
                     ELSE IF unit = "sse" THEN X!SseCompute(s.hw, xs)
                     ELSE X!X87Compute(s.hw, xs),
              !.ret = 0]

Push(m, s) == [s EXCEPT !.hw = IF X86(m) THEN X!X87Push(@) ELSE @, !.ret = 0]

Env(s, arg) == IF arg = "env" THEN <<s.env>> ELSE X!FE_DFL_ENV

Exec(m, s, f, arg) ==
    CASE f = "feclearexcept" -> feclearexcept(m, s, arg)
      [] f = "fetestexcept" -> fetestexcept(m, s, arg)
      [] f = "feraiseexcept" -> feraiseexcept(m, s, arg)
      [] f = "feenableexcept" -> feenableexcept(m, s, arg)
      [] f = "fedisableexcept" -> fedisableexcept(m, s, arg)
      [] f = "fegetexceptflag" -> fegetexceptflag(m, s, arg)
      [] f = "fesetexceptflag" -> fesetexceptflag(m, s, arg)
      [] f = "fegetexcept" -> fegetexcept(m, s)
      [] f = "fegetround" -> fegetround(m, s)
      [] f = "fesetround" -> fesetround(m, s, arg)
      [] f = "fegetenv" -> fegetenv(m, s)
      [] f = "fesetenv" -> fesetenv(m, s, Env(s, arg))
      [] f = "feholdexcept" -> feholdexcept(m, s)
      [] f = "feupdateenv" -> feupdateenv(m, s, Env(s, arg))
      [] f = "push" -> Push(m, s)
      [] OTHER -> Compute(m, s, f, arg)

\* The program has saved the environment it was started with.
Start(m) == [hw |-> PowerOn(m), env |-> get_env(m, PowerOn(m)).env, flag |-> {}, ret |-> 0]

----------------------------------------------------------------------------
(* The environment of the C standard, and what a step does to it.  What    *)
(* raising an exception raises besides is the machine's: on aarch64 an     *)
(* overflow or an underflow is inexact too.                                *)

Abstract(m, s) ==
    [flags   |-> test_except(m, s.hw, AllExcept(m)),
     enabled |-> get_except(m, s.hw),
     round   |-> get_round(m, s.hw)]

Started == [now |-> [flags |-> {}, enabled |-> {}, round |-> "TONEAREST"],
            env |-> [flags |-> {}, enabled |-> {}, round |-> "TONEAREST"],
            flag |-> {}, ret |-> 0]

\* What can be enabled, and what raising e flags while z are enabled.
Enableable(m) == IF m = "aarch64_no_traps" THEN {} ELSE AllExcept(m)

Raises(m, e, z) ==
    (e \ {"FLUSHTOZERO"})
    \cup (IF ~X86(m) /\ ("OVERFLOW" \in e \/ ("UNDERFLOW" \in e /\ "FLUSHTOZERO" \notin z))
          THEN {"INEXACT"} ELSE {})

Result(e) == IF "FLUSHTOZERO" \in e THEN -1 ELSE 0

Computes(m, unit, e, z) ==
    IF X86(m) THEN (IF unit = "sse" THEN e ELSE {})
    ELSE IF "UNDERFLOW" \in e /\ "FLUSHTOZERO" \in z THEN e \ {"INEXACT"} ELSE e

\* fesetexceptflag follows the code: the standard would leave the flags that
\* its argument does not name alone.
Should(m, a, f, arg) ==
    CASE f = "feclearexcept" -> [a EXCEPT !.now.flags = @ \ arg, !.ret = 0]
      [] f = "fetestexcept" -> [a EXCEPT !.ret = a.now.flags \cap arg]
      [] f = "feraiseexcept" ->
             [a EXCEPT !.now.flags = @ \cup Raises(m, arg, a.now.enabled), !.ret = Result(arg)]
      [] f = "feenableexcept" ->
             [a EXCEPT !.now.enabled = @ \cup (arg \cap Enableable(m)), !.ret = a.now.enabled]
      [] f = "fedisableexcept" -> [a EXCEPT !.now.enabled = @ \ arg, !.ret = a.now.enabled]
      [] f = "fegetexceptflag" -> [a EXCEPT !.flag = a.now.flags \cap arg, !.ret = 0]
      [] f = "fesetexceptflag" -> [a EXCEPT !.now.flags = a.flag \cap arg, !.ret = 0]
      [] f = "fegetexcept" -> [a EXCEPT !.ret = a.now.enabled]
      [] f = "fegetround" -> [a EXCEPT !.ret = a.now.round]
      [] f = "fesetround" -> IF arg = "OTHER" THEN [a EXCEPT !.ret = 1]
                             ELSE [a EXCEPT !.now.round = arg, !.ret = 0]
      [] f = "fegetenv" -> [a EXCEPT !.env = a.now, !.ret = 0]
      [] f = "fesetenv" -> [a EXCEPT !.now = IF arg = "env" THEN a.env ELSE Started.now, !.ret = 0]
      [] f = "feholdexcept" ->
             [a EXCEPT !.env = a.now, !.now.flags = {}, !.now.enabled = {}, !.ret = 0]
      [] f = "feupdateenv" ->
             LET env == IF arg = "env" THEN a.env ELSE Started.now
             IN  [a EXCEPT !.now = [env EXCEPT !.flags =
                                        @ \cup Raises(m, a.now.flags, env.enabled)],
                           !.ret = Result(a.now.flags)]
      [] f = "push" -> [a EXCEPT !.ret = 0]
      [] OTHER -> [a EXCEPT !.now.flags = @ \cup Computes(m, f, arg, a.now.enabled), !.ret = 0]

----------------------------------------------------------------------------
(* What holds after a step, of the program's state s and the abstract a.   *)

\* The two units of x86_64 round alike, and the x87 traps nothing that
\* fegetexcept does not report.
UnitsAgree(m, hw) ==
    X86(m) =>
        /\ X!Shift(hw.cw \cap {10, 11}, 3) = hw.mxcsr \cap {13, 14}
        /\ X!Shift(X!Masks \ hw.cw, 7) \cap hw.mxcsr = {}

\* What a call returns: enabling and disabling report the exceptions the x87
\* traps, of which fegetenv lets none remain.
Reported(m, steps, f, s, a) ==
    IF X86(m) /\ f \in {"feenableexcept", "fedisableexcept"}
              /\ \E i \in 1..Len(steps) : steps[i][1] = "fegetenv"
    THEN s.ret \subseteq a.ret ELSE s.ret = a.ret

\* A trap needs an exception that the program had enabled.
Shows(m, steps, f, s, a) ==
    IF s.hw.trap THEN \E i \in 1..Len(steps) : steps[i][1] = "feenableexcept"
    ELSE /\ Abstract(m, s) = a.now
         /\ s.flag = a.flag
         /\ Reported(m, steps, f, s, a)
         /\ UnitsAgree(m, s.hw)

\* An instruction that is signalled an enabled exception does trap, and so does
\* raising one, unless fegetenv has masked the x87.
Trapped(m, steps, step, s, a) ==
    (step[1] = "feraiseexcept"
        /\ a.now.enabled \cap step[2] \cap DOMAIN X!FlagBit # {}
        /\ (m = "darwin" => "FLUSHTOZERO" \notin a.now.enabled)
        /\ \A i \in 1..Len(steps) : steps[i][1] # "fegetenv")
    => s.hw.trap

\* What no call of the library changes: the top of the x87 stack, which only
\* the push moves.
Keeps(m, step, old, new) == X86(m) /\ step[1] # "push" => old.hw.sw \ X!Masks = new.hw.sw \ X!Masks

\* The flags that a program clears are clear in both units.
Clears(m, step, s) ==
    X86(m) /\ step[1] = "feclearexcept" /\ ~s.hw.trap =>
        (s.hw.sw \cup s.hw.mxcsr) \cap X!Flags(step[2]) = {}

StepShows(m, steps, step, old, new, a, b) ==
    /\ Shows(m, Append(steps, step), step[1], new, b)
    /\ Trapped(m, steps, step, new, a)
    /\ Keeps(m, step, old, new)
    /\ Clears(m, step, new)

Both(m, both, step) ==
    IF both.s.hw.trap THEN both
    ELSE [s |-> Exec(m, both.s, step[1], step[2]), a |-> Should(m, both.a, step[1], step[2])]

After(m, steps) ==
    FoldLeft(LAMBDA both, step : Both(m, both, step), [s |-> Start(m), a |-> Started], steps)

ShowsNext(m, steps, step, before, after) ==
    StepShows(m, steps, step, before.s, after.s, before.a, after.a)

ShowsAll(m, steps, before) ==
    before.s.hw.trap
    \/ \A step \in Steps(m) : ShowsNext(m, steps, step, before, Both(m, before, step))

\* Whatever the steps, the next one shows what the standard says of it.
Environments(m, steps) == ShowsAll(m, steps, After(m, steps))

----------------------------------------------------------------------------
(* Windows: the bits of a fenv_t and of mxcsr.                             *)

\* An fenv_t whose two copies of the masks, the mode and the flags agree.
WinEnv(masks, mode, kind, flags) ==
    [control |-> masks \cup X!Shift(masks, 24) \cup X!Shift(mode, 8) \cup X!Shift(mode, 30)
                 \cup X!Shift(kind, 10),
     status  |-> flags \cup X!Shift(flags, 24)]

\* Writing an fenv_t and reading it back gives the same, and each of its
\* flags and masks names the same exception as the bit of mxcsr: "almost
\* reversed bit positions".
WinBit == [INEXACT |-> 0, UNDERFLOW |-> 1, OVERFLOW |-> 2, DIVBYZERO |-> 3, INVALID |-> 4]

WinShows(env, mxcsr) ==
    /\ X!get_env_win(mxcsr) = env
    /\ \A x \in DOMAIN WinBit :
          /\ X!FlagBit[x] \in mxcsr <=> WinBit[x] \in env.status
          /\ X!FlagBit[x] + 7 \in mxcsr <=> WinBit[x] \in env.control
    /\ 15 \in mxcsr <=> 10 \in env.control
    /\ 6 \in mxcsr <=> (10 \in env.control) # (11 \in env.control)

WinRoundTrip(env) == WinShows(env, X!set_env_win(env))

WinEnvironments ==
    \A mode, kind \in SUBSET {0, 1} :
        \A bits \in SUBSET (0..5) :
            /\ WinRoundTrip(WinEnv(bits, mode, kind, {}))
            /\ WinRoundTrip(WinEnv({}, mode, kind, bits))

=============================================================================
