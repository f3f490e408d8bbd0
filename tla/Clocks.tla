------------------------------- MODULE Clocks -------------------------------
(***************************************************************************)
(* How the accelerant turns the pixel clock of a mode into the settings of *)
(* a clock generator (src/display/pll.cpp, TigerLakePLL.cpp, the clock     *)
(* parts of Pipes.cpp and the link parts of Ports.cpp): the divisor search *)
(* of the analog generations, the Haswell and Skylake searches, the Tiger  *)
(* Lake dividers with the programming of the PLL, and the M/N pair of a    *)
(* DisplayPort or FDI link.                                                *)
(*                                                                         *)
(* A machine has one family of generators for as long as it runs.  Every   *)
(* search is a loop, and one iteration of the loop that keeps the best     *)
(* candidate is one step.  Clocks are in units of 100 kHz; the float       *)
(* errors the code compares are compared as exact fractions.               *)
(***************************************************************************)
EXTENDS Integers, Sequences, SequencesExt, FiniteSets, FiniteSetsExt

CONSTANTS
  Families,      \* the generators to look at, out of AllFamilies
  Clocks,        \* pixel clocks asked for, in 100 kHz
  WrpllClocks,   \* those the Haswell search is asked for
  Budgets,       \* error budgets of the Haswell table, parts of WrpllScale
  WrpllScale,    \* what the code calls a million
  RefMin,        \* REF_MIN, the slowest reference of the Haswell PLL, in MHz
  PMax,          \* P_MAX, its largest post divider
  NMax           \* the cap on N of a link, 0x800000 in the code

PllFamilies == {"83x", "85x", "pineview", "9xx", "96x", "g4x", "ironlake"}
AllFamilies == PllFamilies \union {"haswell", "skylake", "tigerlake", "link"}

ASSUME ClocksAssumption ==
  /\ Families \subseteq AllFamilies
  /\ \A c \in Clocks \union WrpllClocks : c \in 200 .. 5400
  /\ \A n \in {WrpllScale, RefMin, PMax, NMax} : n \in Nat \ {0}
  /\ RefMin <= 385 /\ PMax >= 2      \* 48 and 64 in the code: R2Range, PostDividers have members
  /\ Budgets \subseteq Nat

VARIABLES
  family,  \* which generator this machine has
  pc,      \* "ready", "search", "program" (Tiger Lake), "done"
  job,     \* what was asked for
  at,      \* where the loop is
  best,    \* the best candidate so far, Nothing before the first
  dpll     \* the Tiger Lake PLL of the port: what was written, what it reports

clockVars == <<family, pc, job, at, best, dpll>>

Nothing == [p |-> 0]
Abs(x) == IF x < 0 THEN -x ELSE x

\* a/b < c/d for naturals, without products that leave 32 bits.
Less(x, y) ==
  \/ x[1] \div x[2] < y[1] \div y[2]
  \/ /\ x[1] \div x[2] = y[1] \div y[2]
     /\ (x[1] % x[2]) * y[2] < (y[1] % y[2]) * x[2]

-----------------------------------------------------------------------------
(* The divisor search of generations 2 to 7 *)

Limits(p, p1, p2, n, mm, m1, m2, dot, vco) ==
  [p |-> p, p1 |-> p1, p2 |-> p2, n |-> n, m |-> mm, m1 |-> m1, m2 |-> m2,
   dot |-> dot, vco |-> vco]

kLimits85x == Limits(<<4, 128>>, <<2, 33>>, <<2, 4>>, <<4, 18>>, <<96, 140>>,
                     <<20, 28>>, <<8, 18>>, 165000, <<908000, 1512000>>)
kLimits9xxSdvo == Limits(<<5, 80>>, <<1, 8>>, <<5, 10>>, <<3, 8>>, <<70, 120>>,
                     <<10, 20>>, <<5, 9>>, 200000, <<1400000, 2800000>>)
kLimits9xxLvds == Limits(<<7, 98>>, <<1, 8>>, <<7, 14>>, <<3, 8>>, <<70, 120>>,
                     <<10, 20>>, <<5, 9>>, 112000, <<1400000, 2800000>>)
kLimitsG4xSdvo == Limits(<<10, 80>>, <<1, 8>>, <<10, 10>>, <<3, 8>>,
                     <<104, 138>>, <<19, 25>>, <<7, 13>>, 270000,
                     <<1750000, 3500000>>)
kLimitsG4xLvdsSingle == Limits(<<28, 112>>, <<2, 8>>, <<14, 14>>, <<3, 8>>,
                     <<104, 138>>, <<19, 25>>, <<7, 13>>, 0,
                     <<1750000, 3500000>>)
kLimitsG4xLvdsDual == Limits(<<14, 42>>, <<2, 6>>, <<7, 7>>, <<3, 8>>,
                     <<104, 138>>, <<19, 25>>, <<7, 13>>, 0,
                     <<1750000, 3500000>>)
kLimitsIlkDac == Limits(<<5, 80>>, <<1, 8>>, <<5, 10>>, <<3, 7>>, <<79, 127>>,
                     <<14, 24>>, <<7, 11>>, 225000, <<1760000, 3510000>>)
kLimitsIlkLvdsSingle == Limits(<<28, 112>>, <<2, 8>>, <<14, 14>>, <<3, 5>>,
                     <<79, 118>>, <<14, 24>>, <<7, 11>>, 225000,
                     <<1760000, 3510000>>)
kLimitsIlkLvdsDual == Limits(<<14, 56>>, <<2, 8>>, <<7, 7>>, <<3, 5>>,
                     <<79, 127>>, <<14, 24>>, <<7, 11>>, 225000,
                     <<1760000, 3510000>>)
kLimitsPinSdvo == Limits(<<5, 80>>, <<1, 8>>, <<5, 10>>, <<3, 6>>, <<2, 256>>,
                     <<0, 0>>, <<0, 254>>, 200000, <<1700000, 3500000>>)
kLimitsPinLvds == Limits(<<7, 112>>, <<1, 8>>, <<14, 14>>, <<3, 6>>, <<2, 256>>,
                     <<0, 0>>, <<0, 254>>, 112000, <<1700000, 3500000>>)

\* What the kernel driver says of the generator: reference, slowest and
\* fastest output in kHz.  No family has the 100 MHz reference that two more
\* tables of the code are for.
PllInfo(f) ==
  CASE f = "ironlake"          -> [ref |-> 120000, min |-> 20000, max |-> 350000]
    [] f \in {"83x", "85x"}    -> [ref |-> 48000, min |-> 25000, max |-> 350000]
    [] OTHER                   -> [ref |-> 96000, min |-> 20000, max |-> 400000]

lvds_dual_link(j) == j.clock * 100 > 112999 \/ j.channelB

LimitsOf(j) ==
  CASE family = "g4x" /\ ~j.lvds      -> kLimitsG4xSdvo
    [] family = "g4x" /\ j.lvds       ->
         IF lvds_dual_link(j) THEN kLimitsG4xLvdsDual ELSE kLimitsG4xLvdsSingle
    [] family = "ironlake" /\ ~j.lvds -> kLimitsIlkDac
    [] family = "ironlake" /\ j.lvds  ->
         IF lvds_dual_link(j) THEN kLimitsIlkLvdsDual ELSE kLimitsIlkLvdsSingle
    [] family = "pineview"            ->
         IF j.lvds THEN kLimitsPinLvds ELSE kLimitsPinSdvo
    [] family = "85x"                 -> kLimits85x
    [] OTHER                          ->
         IF j.lvds THEN kLimits9xxLvds ELSE kLimits9xxSdvo

\* The fast divider serves two channels of a panel, or a clock above the limit.
compute_pll_p2(j, l) ==
  IF (j.lvds /\ lvds_dual_link(j)) \/ (~j.lvds /\ j.clock * 100 >= l.dot)
  THEN l.p2[1] ELSE l.p2[2]

compute_pll_m(m1, m2) == IF family = "pineview" THEN m2 ELSE 5 * m1 + m2

valid_pll_divisors(d, l) ==
  LET info == PllInfo(family)
      vco == (info.ref * d.m) \div d.n
      frequency == vco \div d.p
  IN  /\ d.p \in l.p[1] .. l.p[2]
      /\ d.m \in l.m[1] .. l.m[2]
      /\ vco \in l.vco[1] .. l.vco[2]
      /\ frequency \in info.min .. info.max

\* How far the clock of these divisors is from the one asked for, in kHz.
PllError(j, d) ==
  << Abs(j.clock * 100 * d.n * d.p - PllInfo(family).ref * d.m), d.n * d.p >>

G4xSearch == family \in {"g4x", "ironlake"}

\* compute_dpll_g4x loops over N on the outside and counts the others down;
\* compute_dpll_9xx loops over M1 outside and counts up.
OuterRange(l) == IF G4xSearch THEN l.n ELSE l.m1

PllCandidates(j, l, outer) ==
  LET p2 == compute_pll_p2(j, l)
      Divisors(n, m1, m2, p1) ==
        [n |-> n, m1 |-> m1, m2 |-> m2, p1 |-> p1, p2 |-> p2,
         m |-> compute_pll_m(m1, m2), p |-> p1 * p2]
  IN  {Divisors(n, m1, m2, p1) :
         n  \in IF G4xSearch THEN {outer} ELSE l.n[1] .. l.n[2],
         m1 \in IF G4xSearch THEN l.m1[1] .. l.m1[2] ELSE {outer},
         m2 \in IF G4xSearch \/ family = "pineview"
                THEN l.m2[1] .. l.m2[2]
                ELSE l.m2[1] .. Min({l.m2[2], outer - 1}),
         p1 \in l.p1[1] .. l.p1[2]}

\* The place of a candidate in the inner loops.
Turn(d) == IF G4xSearch THEN -((d.m1 * 1000 + d.m2) * 1000 + d.p1)
                        ELSE (d.m2 * 1000 + d.n) * 1000 + d.p1

\* One iteration of the outer loop: a candidate replaces the best one only
\* when it is strictly closer, and the first best is the clock asked for.
KeepBelow(j, l, outer, b, bar) ==
  LET closer == {d \in PllCandidates(j, l, outer) :
                   valid_pll_divisors(d, l) /\ Less(PllError(j, d), bar)}
  IN  IF closer = {} THEN b
      ELSE LET d0 == CHOOSE d \in closer : \A e \in closer :
                       ~Less(PllError(j, e), PllError(j, d))
               ties == {d \in closer : ~Less(PllError(j, d0), PllError(j, d))}
           IN  CHOOSE d \in ties : \A e \in ties : Turn(d) <= Turn(e)

\* Variant with a bug: the best error is not remembered.
KeepAny(j, l, outer, b) == KeepBelow(j, l, outer, b, <<j.clock * 100, 1>>)

KeepCloser(j, l, outer, b) ==
  KeepBelow(j, l, outer, b,
            IF b = Nothing THEN <<j.clock * 100, 1>> ELSE PllError(j, b))

AskPll ==
  /\ family \in PllFamilies
  /\ pc \in {"ready", "done"}
  /\ \E c \in Clocks, lvds, channelB \in BOOLEAN :
        /\ channelB => lvds
        /\ job' = [clock |-> c, lvds |-> lvds, channelB |-> channelB]
  /\ at' = <<OuterRange(LimitsOf(job'))[1]>>
  /\ best' = Nothing
  /\ pc' = "search"
  /\ UNCHANGED <<family, dpll>>

SearchPll ==
  /\ family \in PllFamilies
  /\ pc = "search"
  /\ LET l == LimitsOf(job) IN
     \/ /\ at[1] <= OuterRange(l)[2]
        /\ best' = KeepCloser(job, l, at[1], best)
        /\ at' = <<at[1] + 1>>
        /\ pc' = pc
     \/ /\ at[1] > OuterRange(l)[2]
        /\ pc' = "done"
        /\ UNCHANGED <<at, best>>
  /\ UNCHANGED <<family, job, dpll>>

(* What Pipe::ConfigureClocks writes of the divisors, field by field. *)
Generation ==
  CASE family \in {"83x", "85x"}     -> 2
    [] family \in {"pineview", "9xx"} -> 3
    [] family \in {"96x", "g4x"}     -> 4
    [] OTHER                         -> 5

PllFields(d, clock) ==
  LET pin == family = "pineview" IN
  [n      |-> IF pin THEN (2 ^ d.n) % 256 ELSE (d.n - 2) % 32,
   m1     |-> IF pin THEN 0 ELSE (d.m1 - 2) % 32,
   m2     |-> (d.m2 - 2) % (IF pin THEN 256 ELSE 32),
   p1     |-> IF Generation >= 3
              THEN (2 ^ (d.p1 - 1)) % (IF pin THEN 512 ELSE 256)
              ELSE IF d.p1 > 2 THEN (d.p1 - 2) % 32 ELSE 0,
   high   |-> Generation >= 3 /\ d.p2 \in {5, 7},
   by4    |-> Generation = 2 /\ d.p2 \notin {5, 7},
   repeat |-> IF family = "96x"
              THEN (((PllInfo(family).ref * d.m) \div (d.n * d.p * clock * 100)) - 1)
                   % (2 ^ 24)
              ELSE 0]

\* The generator the registers describe, for generation 3 and later.
DecodedDivisors(r, lvds) ==
  LET Bit(x, offset) == CHOOSE k \in 0 .. 16 : 2 ^ k = x * (2 ^ offset)
      pin == family = "pineview"
  IN  [n |-> IF pin THEN Bit(r.n, 0) ELSE r.n + 2,
       m |-> IF pin THEN r.m2 + 2 ELSE 5 * (r.m1 + 2) + r.m2 + 2,
       p |-> Bit(r.p1, 1) * (IF r.high THEN IF lvds THEN 7 ELSE 5
                                       ELSE IF lvds THEN 14 ELSE 10)]

-----------------------------------------------------------------------------
(* Haswell: reference divider r2, feedback divider n2, post divider p *)

LC_FREQ == 2700      \* MHz
LC_FREQ_2K == 2 * LC_FREQ
REF_MAX == 400
VCO_MIN == 2400
VCO_MAX == 4800

R2Range == (LC_FREQ * 2) \div REF_MAX + 1 .. (LC_FREQ * 2) \div RefMin
N2First(r2) == (VCO_MIN * r2) \div LC_FREQ + 1
N2Last(r2) == (VCO_MAX * r2) \div LC_FREQ
PostDividers == [k \in 1 .. PMax \div 2 |-> 2 * k]

\* How far a candidate is off, scaled by its own divisors.
Off(j, x) == Abs(j.clock * x.p * x.r2 - LC_FREQ_2K * x.n2)
WithinBudget(j, x) == j.clock * j.budget * x.p * x.r2 >= WrpllScale * Off(j, x)

Weight(x) == x.r2 * x.r2
hsw_wrpll_update_rnp(j, b, x) ==
  IF \/ b = Nothing
     \/ /\ ~WithinBudget(j, x) /\ ~WithinBudget(j, b)
        /\ b.p * b.r2 * Off(j, x) < x.p * x.r2 * Off(j, b)
     \/ WithinBudget(j, x) /\ ~WithinBudget(j, b)
     \/ /\ WithinBudget(j, x) /\ WithinBudget(j, b)
        /\ x.n2 * Weight(b) > b.n2 * Weight(x)
  THEN x ELSE b

AskWrpll ==
  /\ family = "haswell"
  /\ pc \in {"ready", "done"}
  /\ \E c \in WrpllClocks, budget \in Budgets :
        job' = [clock |-> c, budget |-> budget]
  /\ at' = <<Min(R2Range), N2First(Min(R2Range))>>
  /\ \/ /\ job'.clock = 5400                       \* passes the LC PLL through
        /\ best' = [p |-> 1, n2 |-> 2, r2 |-> 2]
        /\ pc' = "done"
     \/ /\ job'.clock # 5400
        /\ best' = Nothing
        /\ pc' = "search"
  /\ UNCHANGED <<family, dpll>>

\* One pair of r2 and n2, with every post divider.
SearchWrpll ==
  /\ family = "haswell"
  /\ pc = "search"
  /\ best' = FoldLeft(LAMBDA b, p : hsw_wrpll_update_rnp(job, b,
                        [p |-> p, n2 |-> at[2], r2 |-> at[1]]),
                      best, PostDividers)
  /\ \/ /\ at[2] < N2Last(at[1])
        /\ at' = <<at[1], at[2] + 1>>
        /\ pc' = pc
     \/ /\ at[2] = N2Last(at[1])
        /\ at[1] < Max(R2Range)
        /\ at' = <<at[1] + 1, N2First(at[1] + 1)>>
        /\ pc' = pc
     \/ /\ at = <<Max(R2Range), N2Last(Max(R2Range))>>
        /\ pc' = "done"
        /\ at' = at
  /\ UNCHANGED <<family, job, dpll>>

-----------------------------------------------------------------------------
(* Skylake: a divider that brings the oscillator near a central frequency *)

CentralFrequencies == <<84000, 90000, 96000>>
EvenDividers == <<4, 6, 8, 10, 12, 14, 16, 18, 20, 24, 28, 30, 32, 36, 40, 42,
                  44, 48, 52, 54, 56, 60, 64, 66, 68, 70, 72, 76, 78, 80, 84,
                  88, 90, 92, 96, 98>>
OddDividers == <<3, 5, 7, 9, 15, 21, 35>>
Dividers == <<EvenDividers, OddDividers>>

\* In parts of ten thousand; six hundred stands for that and more.
Deviation(dco, central) ==
  LET off == Abs(dco - central)
  IN  IF off * 100 >= 6 * central THEN 600 ELSE (10000 * off) \div central

Allowed(dco, central) ==
  Deviation(dco, central) < (IF dco >= central THEN 100 ELSE 600)

skl_wrpll_try_divider(b, central, dco, divider) ==
  IF /\ Allowed(dco, central)
     /\ b = Nothing \/ Deviation(dco, central) < b.deviation
  THEN [p |-> divider, central |-> central, dco |-> dco,
        deviation |-> Deviation(dco, central)]
  ELSE b

AskSkylake ==
  /\ family = "skylake"
  /\ pc \in {"ready", "done"}
  /\ \E c \in Clocks, ref \in {240, 192, 384} : job' = [clock |-> c, ref |-> ref]
  /\ at' = <<1, 1, 1>>
  /\ best' = Nothing
  /\ pc' = "search"
  /\ UNCHANGED <<family, dpll>>

SearchSkylake ==
  /\ family = "skylake"
  /\ pc = "search"
  /\ LET divider == Dividers[at[1]][at[3]]
         last == at[2] = 3 /\ at[3] = Len(Dividers[at[1]])
     IN  /\ best' = skl_wrpll_try_divider(best, CentralFrequencies[at[2]],
                                          divider * 5 * job.clock, divider)
         /\ LET through == last \/ (best' # Nothing /\ best'.deviation = 0) IN
            \/ /\ ~through
               /\ at' = IF at[3] < Len(Dividers[at[1]])
                        THEN <<at[1], at[2], at[3] + 1>>
                        ELSE <<at[1], at[2] + 1, 1>>
               /\ pc' = pc
            \/ /\ through /\ at[1] = 1 /\ best' = Nothing
               /\ at' = <<2, 1, 1>>
               /\ pc' = pc
            \/ /\ through /\ (at[1] = 2 \/ best' # Nothing)
               /\ pc' = "done"
               /\ at' = at
  /\ UNCHANGED <<family, job, dpll>>

\* The three stages a divider is made of.
skl_wrpll_get_multipliers(p) ==
  LET half == p \div 2 IN
  IF p % 2 = 0
  THEN CASE half \in {1, 2, 3, 5} -> <<2, 1, half>>
         [] half \notin {1, 2, 3, 5} /\ half % 2 = 0 -> <<2, half \div 2, 2>>
         [] half \notin {1, 2, 3, 5} /\ half % 2 # 0 /\ half % 3 = 0 ->
              <<3, half \div 3, 2>>
         [] half \notin {1, 2, 3, 5} /\ half % 2 # 0 /\ half % 3 # 0 ->
              <<7, half \div 7, 2>>
  ELSE CASE p \in {3, 9} -> <<3, 1, p \div 3>>
         [] p \in {5, 7} -> <<p, 1, 1>>
         [] p = 15       -> <<3, 1, 5>>
         [] p = 21       -> <<7, 1, 3>>
         [] p = 35       -> <<7, 1, 5>>

\* A field no case of a switch sets keeps what the stack held.
Garbage == 8
skl_wrpll_params_populate(j, b) ==
  LET stage == skl_wrpll_get_multipliers(b.p)
      dco == stage[1] * stage[2] * stage[3] * 5 * j.clock
      whole == dco \div j.ref
      mhz == j.ref \div 10
      \* The whole frequency over the reference in MHz, and of it the millionths.
      millionths == (dco \div mhz) * 100000 + ((dco % mhz) * 100000) \div mhz
                    - whole * 1000000
      Field(table, x) == IF x \in DOMAIN table THEN table[x] ELSE Garbage
  IN  [pdiv  |-> Field([k \in {1, 2, 3, 7} |-> CASE k = 1 -> 0 [] k = 2 -> 1
                                            [] k = 3 -> 2 [] k = 7 -> 4], stage[1]),
       kdiv  |-> Field([k \in {1, 2, 3, 5} |-> CASE k = 5 -> 0 [] k = 2 -> 1
                                            [] k = 3 -> 2 [] k = 1 -> 3], stage[3]),
       qdiv  |-> stage[2],
       dco_integer  |-> whole,
       dco_fraction |-> (millionths * 512) \div 15625] \* 512 / 15625 = 2^15 / 10^6

-----------------------------------------------------------------------------
(* Tiger Lake: dividers around the middle of the oscillator, then the PLL *)

DividerList == <<2, 4, 6, 8, 10, 12, 14, 16, 18, 20, 24, 28, 30, 32, 36, 40, 42,
                 44, 48, 50, 52, 54, 56, 60, 64, 66, 68, 70, 72, 76, 78, 80, 84,
                 88, 90, 92, 96, 98, 100, 102, 3, 5, 7, 9, 15, 21>>
DcoMin == 7998
DcoMax == 10000
DcoMid == (DcoMin + DcoMax) \div 2

\* The symbol clock times five in MHz; the code divides integers here.
AfeClock(clock) == (5 * clock * 100) \div 1000

AskTigerLake ==
  /\ family = "tigerlake"
  /\ pc \in {"ready", "done"}
  /\ \E c \in Clocks, hdmi \in BOOLEAN :
        job' = [clock |-> c, hdmi |-> hdmi]
  /\ at' = <<1>>
  /\ \/ /\ job'.hdmi
        /\ best' = Nothing
        /\ pc' = "search"
     \/ /\ ~job'.hdmi                          \* ComputeDisplayPortDpll
        /\ best' = [p |-> 6, dco |-> 8090]
        /\ pc' = "program"
  /\ UNCHANGED <<family, dpll>>

\* One entry of the list of ComputeHdmiDpll; no entry at all is an error.
SearchTigerLake ==
  /\ family = "tigerlake"
  /\ pc = "search"
  /\ LET dco == AfeClock(job.clock) * DividerList[at[1]]
         closer == /\ dco \in DcoMin .. DcoMax
                   /\ best = Nothing \/ Abs(dco - DcoMid) < Abs(best.dco - DcoMid)
     IN  best' = IF closer THEN [p |-> DividerList[at[1]], dco |-> dco] ELSE best
  /\ IF at[1] < Len(DividerList)
     THEN at' = <<at[1] + 1>> /\ pc' = pc
     ELSE at' = at /\ pc' = IF best' = Nothing THEN "done" ELSE "program"
  /\ UNCHANGED <<family, job, dpll>>

\* Variant with a bug: every divider is made with a first stage of two.
StagesOfTwo(div) == IF div % 2 = 0 THEN <<2, div \div 4, 2>> ELSE <<div, 1, 1>>

\* P, Q and K of a divider of the list.
TglStages(div) ==
  CASE div = 2 -> <<2, 1, 1>>
    [] div % 4 = 0 -> <<2, div \div 4, 2>>
    [] div # 2 /\ div % 4 = 2 /\ div % 6 = 0 -> <<3, div \div 6, 2>>
    [] div # 2 /\ div % 4 = 2 /\ div % 6 # 0 /\ div % 5 = 0 ->
         <<5, div \div 10, 2>>
    [] div # 2 /\ div % 4 = 2 /\ div % 6 # 0 /\ div % 5 # 0 ->
         <<7, div \div 14, 2>>
    [] div \in {3, 5, 7} -> <<div, 1, 1>>
    [] div \in {9, 15, 21} -> <<div \div 3, 1, 3>>

\* What ProgramPLL wants in the two configuration registers.
TglSettings(b, ref) ==
  LET stage == IF job.hdmi THEN TglStages(b.p) ELSE <<3, 1, 2>>
      rest == ((b.dco * 10) % ref) * 32768
  IN  [whole |-> (b.dco * 10) \div ref, fraction |-> (rest + ref - 1) \div ref,
       stages |-> stage]

Pll == dpll.pll
WithPll(p) == dpll' = [dpll EXCEPT !.pll = p]

\* Nothing to do when the PLL is locked on these very settings, otherwise it
\* is told to stop.
ProgramPLL ==
  /\ family = "tigerlake"
  /\ pc = "program"
  /\ LET same == Pll.locked /\ Pll.set = TglSettings(best, dpll.ref) IN
     /\ pc' = IF same THEN "done" ELSE "wait_unlock"
     /\ WithPll(IF same THEN Pll ELSE [Pll EXCEPT !.on = FALSE])
  /\ UNCHANGED <<family, job, at, best>>

\* Variant with a bug: nobody waits for the lock to go.
UnlockedAtOnce ==
  /\ pc = "wait_unlock"
  /\ WithPll([Pll EXCEPT !.power = TRUE])
  /\ pc' = "wait_power"
  /\ UNCHANGED <<family, job, at, best>>

Unlocked ==
  /\ pc = "wait_unlock"
  /\ ~Pll.locked
  /\ WithPll([Pll EXCEPT !.power = TRUE])
  /\ pc' = "wait_power"
  /\ UNCHANGED <<family, job, at, best>>

Configure ==
  /\ pc = "wait_power"
  /\ Pll.powered
  /\ WithPll([Pll EXCEPT !.set = TglSettings(best, dpll.ref), !.on = TRUE])
  /\ pc' = "wait_lock"
  /\ UNCHANGED <<family, job, at, best>>

Locked ==
  /\ pc = "wait_lock"
  /\ Pll.locked
  /\ pc' = "done"
  /\ UNCHANGED <<family, job, at, best, dpll>>

\* The PLL answers: it locks while it is on and powered, and powers up.
PllAnswers ==
  /\ family = "tigerlake"
  /\ LET q == [Pll EXCEPT !.locked = Pll.on /\ Pll.powered, !.powered = Pll.power]
     IN  q # Pll /\ WithPll(q)
  /\ UNCHANGED <<family, pc, job, at, best>>

-----------------------------------------------------------------------------
(* The M/N pair of a link of lanes octets wide, bandwidth in MHz *)

\* The powers of two up to the cap, and what fits the 24 bits of a field.
LinkN(speed) == Min({NMax} \union {2 ^ k : k \in {i \in 0 .. 14 : 2 ^ i >= speed}})
LinkM(clock, bits, n, speed) == (clock * n * bits) \div speed
Shifted(mn) ==
  LET k == CHOOSE i \in 0 .. 16 :
             /\ mn[1] \div (2 ^ i) < 2 * NMax /\ mn[2] \div (2 ^ i) < 2 * NMax
             /\ \A h \in 0 .. i - 1 : mn[1] \div (2 ^ h) >= 2 * NMax
  IN  <<mn[1] \div (2 ^ k), mn[2] \div (2 ^ k)>>

LinkPair(clock, bandwidth, lanes, bits) ==
  LET data == lanes * bandwidth * 8
  IN  [p |-> 1,
       data |-> Shifted(<<LinkM(clock, bits, LinkN(data), data), LinkN(data)>>),
       link |-> Shifted(<<LinkM(clock, 1, LinkN(bandwidth), bandwidth),
                          LinkN(bandwidth)>>)]

\* Variant with a bug: rounds down and keeps no margin.
LanesRoundedDown(j) == (j.clock * j.bits) \div (j.bandwidth * 8)

\* The lanes a mode needs with five per cent kept for spread spectrum.
RequiredLanes(j) ==
  LET rate == (j.clock * j.bits * 21) \div 20
  IN  (rate + j.bandwidth * 8 - 1) \div (j.bandwidth * 8)

\* The colour depth the BIOS left in the hardware; zero is an illegal one.
ColourDepths == {0, 18, 24, 30, 36}

_SetPortLinkGen4(j) == LinkPair(j.clock, 270, 4, 24)

_SetPortLinkGen6(j) ==
  IF j.bits = 0 \/ j.lanes > 4 \/ RequiredLanes(j) > j.lanes
  THEN Nothing ELSE LinkPair(j.clock, j.bandwidth, j.lanes, j.bits)

_SetPortLinkGen8(j) ==
  IF j.bits = 0 THEN Nothing ELSE LinkPair(j.clock, j.bandwidth, j.lanes, j.bits)

\* PreTrain overwrites the lanes it computed with those the link runs on.
SetFDILink(j) ==
  IF j.bits = 0 \/ j.lanes > 4
  THEN Nothing ELSE LinkPair(j.clock, j.bandwidth, j.lanes, j.bits)

AskLink ==
  /\ family = "link"
  /\ pc \in {"ready", "done"}
  /\ \E c \in Clocks, bits \in ColourDepths, lanes \in 1 .. 8,
        kind \in {"gen4", "gen6", "gen8", "fdi"}, bandwidth \in {162, 270, 540} :
        /\ kind \in {"gen4", "gen6", "fdi"} => bandwidth = 270
        /\ kind = "gen4" => bits = 24 /\ lanes = 4
        /\ job' = [kind |-> kind, clock |-> c \div 10, bits |-> bits,
                   lanes |-> lanes, bandwidth |-> bandwidth]
  /\ best' = CASE job'.kind = "gen4" -> _SetPortLinkGen4(job')
               [] job'.kind = "gen6" -> _SetPortLinkGen6(job')
               [] job'.kind = "gen8" -> _SetPortLinkGen8(job')
               [] job'.kind = "fdi"  -> SetFDILink(job')
  /\ pc' = "done"
  /\ UNCHANGED <<family, at, dpll>>

-----------------------------------------------------------------------------
(* The machine *)

\* The BIOS leaves a PLL off, or running for its own DisplayPort link.
Bios(ref) ==
  { [on |-> FALSE, locked |-> FALSE, power |-> FALSE, powered |-> FALSE,
     set |-> [whole |-> 0, fraction |-> 0, stages |-> <<0, 0, 0>>]],
    [on |-> TRUE, locked |-> TRUE, power |-> TRUE, powered |-> TRUE,
     set |-> [whole |-> 80900 \div ref,
              fraction |-> (((80900 % ref) * 32768) + ref - 1) \div ref,
              stages |-> <<3, 1, 2>>]] }

ClocksInit ==
  /\ family \in Families
  /\ pc = "ready"
  /\ job = Nothing
  /\ at = <<0>>
  /\ best = Nothing
  /\ \E ref \in {240, 192} : \E pll \in Bios(ref) :
       /\ family = "tigerlake" \/ (ref = 240 /\ ~pll.on)
       /\ dpll = [ref |-> ref, pll |-> pll]

ClocksNext ==
  \/ AskPll \/ SearchPll
  \/ AskWrpll \/ SearchWrpll
  \/ AskSkylake \/ SearchSkylake
  \/ AskTigerLake \/ SearchTigerLake
  \/ ProgramPLL \/ Unlocked \/ Configure \/ Locked \/ PllAnswers
  \/ AskLink

ClocksSpec == ClocksInit /\ [][ClocksNext]_clockVars

-----------------------------------------------------------------------------
(* Properties *)

Answered(f) == pc = "done" /\ family = f

\* What the divisor search ends with is within the limits of the generator,
\* and nothing within them is closer to the clock of the mode, whichever way M
\* is split: a comment in pll.cpp says that every M of the range is reachable,
\* which is so for the generators compute_dpll_g4x serves.
NothingCloser ==
  (pc = "done" /\ family \in PllFamilies) =>
    LET l == LimitsOf(job)
        p2 == compute_pll_p2(job, l)
        ms == IF G4xSearch THEN l.m[1] .. l.m[2]
              ELSE {compute_pll_m(m1, m2) : m1 \in l.m1[1] .. l.m1[2],
                                            m2 \in l.m2[1] .. l.m2[2]}
        all == {d \in [n : l.n[1] .. l.n[2], m : ms,
                       p : {p1 * p2 : p1 \in l.p1[1] .. l.p1[2]}] :
                  valid_pll_divisors(d, l)}
        bar == IF best = Nothing THEN <<job.clock * 100, 1>> ELSE PllError(job, best)
    IN  /\ best # Nothing => valid_pll_divisors(best, l)
        /\ \A d \in all : ~Less(PllError(job, d), bar)

\* From generation 3 on the registers ConfigureClocks writes describe the
\* divisors the search chose: no field is too narrow for them.
ProgrammedDivisors ==
  (pc = "done" /\ family \in PllFamilies /\ best # Nothing /\ Generation >= 3) =>
    DecodedDivisors(PllFields(best, job.clock), job.lvds)
      = [n |-> best.n, m |-> best.m, p |-> best.p]

\* The Haswell search ends within the error budget of the clock if anything
\* is, with the highest n2/(r2*r2) of all that are, and with the smallest
\* error otherwise.
WrpllBest ==
  (Answered("haswell") /\ job.clock # 5400) =>
    LET all == {x \in [p : Range(PostDividers), r2 : R2Range,
                       n2 : 1 .. N2Last(Max(R2Range))] :
                  x.n2 \in N2First(x.r2) .. N2Last(x.r2)}
        good == {x \in all : WithinBudget(job, x)}
    IN  /\ best \in all
        /\ good # {} => /\ best \in good
                        /\ \A x \in good : x.n2 * best.r2 * best.r2
                                             <= best.n2 * x.r2 * x.r2
        /\ good = {} => \A x \in all : best.p * best.r2 * Off(job, x)
                                         >= x.p * x.r2 * Off(job, best)

\* The Skylake search ends with the divider whose oscillator frequency
\* deviates least, an even one if any even one is allowed at all.
SkylakeNearest ==
  Answered("skylake") =>
    LET Allows(list) == {x \in Range(list) \X Range(CentralFrequencies) :
                           Allowed(x[1] * 5 * job.clock, x[2])}
        from == IF Allows(EvenDividers) # {} THEN Allows(EvenDividers)
                                            ELSE Allows(OddDividers)
    IN  /\ best = Nothing <=> from = {}
        /\ best # Nothing =>
             /\ <<best.p, best.central>> \in from
             /\ \A x \in from : best.deviation <= Deviation(x[1] * 5 * job.clock, x[2])

\* The fields of the Skylake registers multiply to the divider that was found
\* and to its oscillator frequency.  Two things the code cannot express are
\* left out: the divider five, and a reference that is not a whole number of MHz.
SkylakeFields(j, b) ==
  LET f == skl_wrpll_params_populate(j, b)
      stage == skl_wrpll_get_multipliers(b.p)
  IN  /\ f.pdiv # Garbage /\ f.kdiv # Garbage /\ f.qdiv < 256
      /\ stage[1] * stage[2] * stage[3] = b.p
      /\ f.dco_fraction \in Nat /\ f.dco_fraction < 32768
      /\ Abs(f.dco_integer * j.ref + (f.dco_fraction * j.ref) \div 32768 - b.dco) <= 1
SkylakeProgrammed ==
  (Answered("skylake") /\ best # Nothing /\ best.p # 5 /\ job.ref = 240) =>
    SkylakeFields(job, best)
\* Tiger Lake runs an HDMI port at the divider nearest to the middle of the
\* oscillator's range, its three stages multiply to it, only a second stage of
\* two goes with a ratio, and the PLL of the port is locked on it.
TigerLakeRuns ==
  (Answered("tigerlake") /\ best # Nothing) =>
    LET s == Pll.set.stages IN
    /\ Pll.locked /\ Pll.set = TglSettings(best, dpll.ref)
    /\ s[1] * s[2] * s[3] = best.p
    /\ s[1] \in {2, 3, 5, 7} /\ s[3] \in 1 .. 3 /\ (s[2] = 1 \/ s[3] = 2)
    /\ Pll.set.fraction < 32768 /\ Pll.set.whole < 1024
    /\ job.hdmi => \A d \in Range(DividerList) :
         AfeClock(job.clock) * d \in DcoMin .. DcoMax =>
           Abs(best.dco - DcoMid) <= Abs(AfeClock(job.clock) * d - DcoMid)

\* The settings of a PLL change only while it is stopped and powered.
ChangedOnlyWhileStopped ==
  [][Pll'.set # Pll.set => ~Pll.locked /\ ~Pll.on /\ Pll.powered]_clockVars

\* A DisplayPort link of generation 6 that is set up carries the mode: its
\* data ratio is at most one.  "we *must* abort as otherwise the PIPE/DP-link
\* hangs forever", Ports.cpp:1963.
LinkCarriesMode ==
  (Answered("link") /\ best # Nothing /\ job.kind = "gen6") =>
    best.data[1] <= best.data[2]

\* What each search ends with is the best of what its generator can be set to:
\* compute_dpll_9xx and compute_dpll_g4x, hsw_ddi_calculate_wrpll and
\* skl_ddi_calculate_wrpll.
NearestDividers == NothingCloser /\ WrpllBest /\ SkylakeNearest

\* The registers are told what the search found: Pipe::ConfigureClocks,
\* skl_wrpll_params_populate and ProgramPLL of Tiger Lake.
RegistersDescribe == ProgrammedDivisors /\ SkylakeProgrammed /\ TigerLakeRuns
=============================================================================
