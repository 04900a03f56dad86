----------------------------- MODULE ValidationProofs -----------------------------
(***************************************************************************)
(* What is accepted by the oracle, for any limits, lengths and periods:    *)
(* with lists shorter than 256 dr_validate keeps the limits its messages   *)
(* state, and no answer is staked on that the request does not ask for.    *)
(***************************************************************************)
EXTENDS Validation, TLAPS

\* What is decided about a request, and the checks that the answers to it passed.
DecidedByChecks ==
  status # "submitted" => (status = "accepted" <=> DrValidate /\ SourcesGiven)

StakedPassed ==
  \A answer \in staked : answer \in Answers /\ ValidOutcome(answer) /\ ValidOutcomeType(answer)

Inv ==
  /\ args \in Args
  /\ DecidedByChecks
  /\ StakedPassed

---------------------------------------------------------------------------
(***************************************************************************)
(* Lemmas                                                                  *)
(***************************************************************************)

\* A short length survives the conversion to u8.
LEMMA ShortAsU8 ==
  ASSUME NEW n \in Nat, n < 256
  PROVE  AsU8(n) = n
BY DEF AsU8

\* The fields of a request.
LEMMA ArgsFields ==
  ASSUME args \in Args
  PROVE  /\ args.described \in BOOLEAN
         /\ args.tags \in Nat
         /\ LengthOf(args.sources) \in Nat
         /\ args.outcomes # None =>
              /\ args.outcomes.length \in Nat
              /\ args.outcomes.texts \subseteq Texts
         /\ args.data_type \in DataTypes
<1>1. /\ args.described \in BOOLEAN
      /\ args.tags \in Lengths
      /\ args.sources \in Lengths \union {None}
      /\ args.outcomes \in OutcomeLists \union {None}
      /\ args.data_type \in DataTypes
  BY DEF Args
<1>2. LengthOf(args.sources) \in Nat
  BY <1>1, ValidationAssumption DEF LengthOf
<1>3. \A list \in OutcomeLists : list.length \in Nat /\ list.texts \subseteq Texts
  BY ValidationAssumption DEF OutcomeLists
<1>4. QED
  BY <1>1, <1>2, <1>3, ValidationAssumption

\* For short lists the checks are the stated limits.
LEMMA ChecksAreLimits ==
  ASSUME args \in Args, Short
  PROVE  DrValidate /\ SourcesGiven <=>
           /\ WithinLimits
           /\ args.sources # None
           /\ config.default_challenge_window_duration * MinPeriodMultiplier <= MaxTimestamp
<1> DEFINE longest == config.default_challenge_window_duration * MinPeriodMultiplier
           sources == LengthOf(args.sources)
<1>1. AsU8(sources) = sources /\ AsU8(args.tags) = args.tags /\ sources \in Nat
  BY ArgsFields, ShortAsU8 DEF Short
<1>2. args.outcomes # None => AsU8(args.outcomes.length) = args.outcomes.length
  BY ArgsFields, ShortAsU8 DEF Short
<1> HIDE DEF longest, sources
<1>3. DescribedOrSourced <=> (sources = 0 => args.described)
  BY <1>1, ArgsFields DEF DescribedOrSourced, sources
<1>4. SourcesFit <=> sources <= MaxSources
  BY <1>1 DEF SourcesFit, sources
<1>5. TagsFit <=> args.tags <= MaxTags
  BY <1>1 DEF TagsFit
<1>6. OutcomesFit <=>
        (args.outcomes # None =>
           MinOutcomes <= args.outcomes.length /\ args.outcomes.length <= MaxOutcomes)
  BY <1>2, ArgsFields, ValidationAssumption DEF OutcomesFit
<1>7. PeriodFits <=>
        /\ args.challenge_period >= config.min_initial_challenge_window_duration
        /\ longest <= MaxTimestamp
        /\ args.challenge_period <= longest
  BY DEF PeriodFits, longest
<1>8. WithinLimits <=>
        /\ sources <= MaxSources
        /\ args.tags <= MaxTags
        /\ args.outcomes # None =>
             MinOutcomes <= args.outcomes.length /\ args.outcomes.length <= MaxOutcomes
        /\ sources = 0 => args.described
        /\ args.challenge_period >= config.min_initial_challenge_window_duration
        /\ args.challenge_period <= longest
  BY DEF WithinLimits, longest, sources
<1>9. DrValidate /\ SourcesGiven <=> WithinLimits /\ args.sources # None /\ longest <= MaxTimestamp
  BY <1>3, <1>4, <1>5, <1>6, <1>7, <1>8 DEF DrValidate, SourcesGiven
<1>10. QED
  BY <1>9 DEF longest

\* An answer that passed both checks is one the request asks for.
LEMMA PassedAsAsked ==
  ASSUME args \in Args, NEW answer \in Answers \ {Invalid},
         ValidOutcome(answer), ValidOutcomeType(answer)
  PROVE  /\ args.data_type = StringType => answer \in Texts
         /\ args.data_type # StringType => answer = args.data_type /\ answer \in Multipliers
         /\ args.outcomes # None => answer \in args.outcomes.texts
<1>1. CASE answer \in Texts
  <2>1. answer \notin Multipliers
    BY <1>1, ValidationAssumption
  <2>2. args.data_type = StringType
    BY <1>1, <2>1 DEF ValidOutcomeType
  <2>3. QED
    BY <1>1, <2>2 DEF ValidOutcome
<1>2. CASE answer \in Multipliers
  <2>1. answer \notin Texts
    BY <1>2, ValidationAssumption
  <2>2. args.data_type = answer
    BY <1>2, <2>1 DEF ValidOutcomeType
  <2>3. answer # StringType
    BY <1>2, ValidationAssumption
  <2>4. QED
    BY <1>2, <2>2, <2>3 DEF ValidOutcome
<1>3. QED
  BY <1>1, <1>2 DEF Answers

---------------------------------------------------------------------------
(***************************************************************************)
(* The invariant                                                           *)
(***************************************************************************)

\* Nothing is decided and nothing staked at first.
LEMMA InitInv ==
  ASSUME Init
  PROVE  Inv
BY DEF Init, Inv, DecidedByChecks, StakedPassed

\* A decision follows the checks, and only answers that pass them are staked on.
LEMMA NextInv ==
  ASSUME Inv, [Next]_vars
  PROVE  Inv'
<1>1. CASE Submit
  <2>1. UNCHANGED << config, args, staked >>
    BY <1>1 DEF Submit
  <2>2. DecidedByChecks'
    BY <1>1, <2>1 DEF Submit, DecidedByChecks, DrValidate, DescribedOrSourced, SourcesFit,
       PeriodFits, TagsFit, OutcomesFit, SourcesGiven
  <2>3. StakedPassed'
    BY <2>1 DEF Inv, StakedPassed, ValidOutcome, ValidOutcomeType
  <2>4. QED
    BY <2>1, <2>2, <2>3 DEF Inv
<1>2. ASSUME NEW answer \in Answers, Stake(answer)
      PROVE  Inv'
  <2>1. UNCHANGED << config, args, status >>
    BY <1>2 DEF Stake
  <2>2. DecidedByChecks'
    BY <2>1 DEF Inv, DecidedByChecks, DrValidate, DescribedOrSourced, SourcesFit,
       PeriodFits, TagsFit, OutcomesFit, SourcesGiven
  <2>3. StakedPassed'
    BY <1>2, <2>1 DEF Inv, Stake, StakedPassed, ValidOutcome, ValidOutcomeType
  <2>4. QED
    BY <2>1, <2>2, <2>3 DEF Inv
<1>3. CASE UNCHANGED vars
  BY <1>3 DEF vars, Inv, DecidedByChecks, DrValidate, DescribedOrSourced, SourcesFit, PeriodFits,
     TagsFit, OutcomesFit, SourcesGiven, StakedPassed, ValidOutcome, ValidOutcomeType
<1>4. QED
  BY <1>1, <1>2, <1>3 DEF Next

\* The invariant holds in every behaviour.
THEOREM Invariance == Spec => []Inv
<1>1. Init => Inv
  BY InitInv
<1>2. Inv /\ [Next]_vars => Inv'
  BY NextInv
<1>3. QED
  BY <1>1, <1>2, PTL DEF Spec

(***************************************************************************)
(* Below 256 entries the truncation to u8 in dr_validate is harmless,      *)
(* whatever the limits are: what is accepted is what the messages allow,   *)
(* but for sources that are missing and a maximal period that overflows.   *)
(***************************************************************************)
THEOREM LimitsKept == Spec => []AcceptedWithinLimits
<1>1. Inv => AcceptedWithinLimits
  BY ChecksAreLimits DEF Inv, DecidedByChecks, AcceptedWithinLimits
<1>2. QED
  BY <1>1, Invariance, PTL

(***************************************************************************)
(* Stakes are on answers of the type and of the list that was asked for.   *)
(***************************************************************************)
THEOREM OnlyAnswersAsked == Spec => []AnswersAsAsked
<1>1. ASSUME Inv
      PROVE  AnswersAsAsked
  <2>1. \A answer \in staked \ {Invalid} :
          /\ args.data_type = StringType => answer \in Texts
          /\ args.data_type # StringType => answer = args.data_type /\ answer \in Multipliers
          /\ args.outcomes # None => answer \in args.outcomes.texts
    BY <1>1, PassedAsAsked DEF Inv, StakedPassed
  <2>2. args.outcomes # None => args.outcomes.texts \intersect Multipliers = {}
    BY <1>1, ArgsFields, ValidationAssumption DEF Inv
  <2>3. QED
    BY <2>1, <2>2 DEF AnswersAsAsked
<1>2. QED
  BY <1>1, Invariance, PTL
=================================================================================
