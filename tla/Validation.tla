-------------------------------- MODULE Validation --------------------------------
(***************************************************************************)
(* Which requests the oracle takes, and which answers to them: dr_validate *)
(* of oracle/src/callback_args.rs, the unwrapping of the sources in        *)
(* ActiveDataRequest::new, and assert_valid_outcome and                    *)
(* assert_valid_outcome_type of data_request.rs.                           *)
(*                                                                         *)
(* One request: it is submitted, and accepted or rejected, as the whole    *)
(* call panics; then answers to it are staked on.  Lists are their lengths,*)
(* which are compared as u8, and the texts in the list of outcomes.        *)
(***************************************************************************)
EXTENDS Naturals, FiniteSets

CONSTANTS
  Lengths,      \* the lengths of lists
  Periods,      \* the challenge periods asked for
  Windows,      \* the durations a configuration may have
  Texts,        \* the string answers
  Multipliers,  \* the multipliers of numeric answers
  MaxOutcomes,  \* max_outcomes of the configuration
  MaxSources, MaxTags, MinOutcomes, MinPeriodMultiplier,  \* constants of flux_sdk
  MaxTimestamp, \* u64::MAX
  None, Invalid, StringType

VARIABLES
  config,  \* the current configuration
  args,    \* NewDataRequestArgs
  status,  \* of the request: submitted, accepted or rejected
  staked   \* the answers staked on

vars == << config, args, status, staked >>

ASSUME ValidationAssumption ==
  /\ Lengths \subseteq Nat
  /\ Periods \subseteq Nat
  /\ Windows \subseteq Nat
  /\ MaxTimestamp \in Nat
  /\ {MaxOutcomes, MaxSources, MaxTags, MinOutcomes} \subseteq 0 .. 255
  /\ None \notin Nat
  /\ Texts \intersect Multipliers = {}
  /\ {Invalid, StringType} \intersect (Texts \union Multipliers) = {}

\* DataRequestDataType: String, or Number with its multiplier.
DataTypes == {StringType} \union Multipliers

\* A list of outcomes may name a text more than once.
OutcomeLists ==
  {list \in [length : Lengths, texts : SUBSET Texts] :
     /\ Cardinality(list.texts) <= list.length
     /\ list.length > 0 => list.texts # {}}

Args ==
  [ described : BOOLEAN, sources : Lengths \union {None}, tags : Lengths,
    outcomes : OutcomeLists \union {None}, challenge_period : Periods, data_type : DataTypes ]

\* Outcome::Answer(String), Outcome::Answer(Number) and Outcome::Invalid
Answers == Texts \union Multipliers \union {Invalid}

---------------------------------------------------------------------------
\* n as u8
AsU8(n) == n % 256

\* unwrap_or(&vec![]).len()
LengthOf(sources) == IF sources = None THEN 0 ELSE sources

DescribedOrSourced == args.described \/ AsU8(LengthOf(args.sources)) # 0

SourcesFit == AsU8(LengthOf(args.sources)) <= MaxSources

\* Mutated form: the period may be shorter than the minimum.
PeriodBelowMaximum ==
  args.challenge_period <= config.default_challenge_window_duration * MinPeriodMultiplier

\* The product is a checked u64.
PeriodFits ==
  /\ args.challenge_period >= config.min_initial_challenge_window_duration
  /\ config.default_challenge_window_duration * MinPeriodMultiplier <= MaxTimestamp
  /\ args.challenge_period <= config.default_challenge_window_duration * MinPeriodMultiplier

TagsFit == AsU8(args.tags) <= MaxTags

OutcomesFit ==
  args.outcomes # None =>
    /\ AsU8(args.outcomes.length) <= MaxOutcomes
    /\ AsU8(args.outcomes.length) >= MinOutcomes

DrValidate == DescribedOrSourced /\ SourcesFit /\ PeriodFits /\ TagsFit /\ OutcomesFit

\* ActiveDataRequest::new unwraps the sources.
SourcesGiven == args.sources # None

---------------------------------------------------------------------------
\* assert_valid_outcome: with a list of outcomes, only the strings in it.
ValidOutcome(answer) ==
  args.outcomes # None /\ answer # Invalid => answer \in args.outcomes.texts

\* Mutated form: a string is of any type.
ValidOutcomeForStrings(answer) == answer \in Multipliers => args.data_type = answer

\* assert_valid_outcome_type
ValidOutcomeType(answer) ==
  CASE answer \in Texts       -> args.data_type = StringType
    [] answer \in Multipliers -> args.data_type = answer
    [] OTHER                  -> TRUE

---------------------------------------------------------------------------
Submit ==
  /\ status = "submitted"
  /\ status' = IF DrValidate /\ SourcesGiven THEN "accepted" ELSE "rejected"
  /\ UNCHANGED << config, args, staked >>

Stake(answer) ==
  /\ status = "accepted"
  /\ ValidOutcome(answer)
  /\ ValidOutcomeType(answer)
  /\ staked' = staked \union {answer}
  /\ UNCHANGED << config, args, status >>

Init ==
  /\ config \in [ default_challenge_window_duration : Windows,
                  min_initial_challenge_window_duration : Windows ]
  /\ args \in Args
  /\ status = "submitted"
  /\ staked = {}

Next == Submit \/ \E answer \in Answers : Stake(answer)

Spec == Init /\ [][Next]_vars

---------------------------------------------------------------------------
\* The limits as the messages of dr_validate state them, on the lists themselves.
WithinLimits ==
  /\ LengthOf(args.sources) <= MaxSources
  /\ args.tags <= MaxTags
  /\ args.outcomes # None =>
       MinOutcomes <= args.outcomes.length /\ args.outcomes.length <= MaxOutcomes
  /\ LengthOf(args.sources) = 0 => args.described
  /\ args.challenge_period >= config.min_initial_challenge_window_duration
  /\ args.challenge_period <= config.default_challenge_window_duration * MinPeriodMultiplier

Short ==
  /\ LengthOf(args.sources) < 256
  /\ args.tags < 256
  /\ args.outcomes # None => args.outcomes.length < 256

(***************************************************************************)
(* While no list has 256 entries, a request is accepted exactly when it is *)
(* within the stated limits, it names its sources, be it an empty list, and*)
(* the largest period of its configuration fits a u64 (dr_validate).       *)
(***************************************************************************)
AcceptedWithinLimits ==
  Short /\ status # "submitted" =>
    (status = "accepted" <=>
       /\ WithinLimits
       /\ args.sources # None
       /\ config.default_challenge_window_duration * MinPeriodMultiplier <= MaxTimestamp)

(***************************************************************************)
(* No answer is staked on that those who read the request would not expect:*)
(* with a list of outcomes only its texts, and only if the answers are     *)
(* texts, so that a list and a numeric data type leave nothing but Invalid;*)
(* without a list, texts or numbers of the one multiplier, never both      *)
(* (assert_valid_outcome, assert_valid_outcome_type).                      *)
(***************************************************************************)
AnswersAsAsked ==
  LET given == staked \ {Invalid}
  IN  /\ args.data_type = StringType => given \subseteq Texts
      /\ args.data_type # StringType => given \subseteq {args.data_type}
      /\ args.outcomes # None => given \subseteq args.outcomes.texts
      /\ args.outcomes # None /\ args.data_type # StringType => given = {}

(***************************************************************************)
(* "Too many sources provided, max sources is": no request that is accepted*)
(* has more sources than that (dr_validate).                               *)
(***************************************************************************)
SourcesLimited == status = "accepted" => LengthOf(args.sources) <= MaxSources
=================================================================================
