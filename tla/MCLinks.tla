------------------------------ MODULE MCLinks -------------------------------
(* What crosses the links: units of the link, merged with losses and every
   misreading; requests and replies on a control port that three processes
   open; records, encoded and decoded, of small blocks; and the spectrum engine
   behind the decoder.  They do not share state; one of them acts in a behaviour. *)
EXTENDS MCReorder, ControlPort, Spectrum

VARIABLE block
Codec == INSTANCE RecordCodec WITH Width <- 3, MaxQuotient <- 2, BlockPairs <- 3, UnitBits <- 2,
                                   Pairs <- {-4, -1, 0, 1, 3} \X {-4, 2}

SpectrumChoices == {[size |-> 2, pairs |-> 3, averaging |-> 0], [size |-> 2, pairs |-> 4, averaging |-> 3],
                    [size |-> 3, pairs |-> 1, averaging |-> 2]}

VARIABLE part
parts == <<part, vars, line, block, spectrum>>

InitParts ==
    /\ part \in {"merge", "control", "codec", "spectrum"}
    /\ Init /\ ControlInit /\ Codec!CodecInit /\ SpectrumInit
    /\ part # "control" => device = "esp"
    /\ part # "spectrum" => wanted.size = 3
MergeAlone   == part = "merge" /\ Next /\ UNCHANGED <<part, line, block, spectrum>>
ControlAlone == part = "control" /\ ControlNext /\ UNCHANGED <<part, vars, block, spectrum>>
CodecAlone   == part = "codec" /\ Codec!AddPair /\ UNCHANGED <<part, vars, line, spectrum>>
SpectrumAlone == part = "spectrum" /\ SpectrumNext /\ UNCHANGED <<part, vars, line, block>>
NextParts == MergeAlone \/ ControlAlone \/ CodecAlone \/ SpectrumAlone
SpecParts == InitParts /\ [][NextParts]_parts

(* Every block comes back from its record, in every mode, and the mode chosen
   always fits. *)
CodecExact == Codec!CodecExact
=============================================================================
