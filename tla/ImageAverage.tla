---------------------------- MODULE ImageAverage ----------------------------
(***************************************************************************)
(* average_images(filenames) of the sample pipeline (major_tom.py): take   *)
(* the data-set string from the first name, then accumulate every image    *)
(* into sum_array, then save sum_array // n_images. np.array(png_file) of  *)
(* a PNG is uint8, and np.copy keeps the dtype, so `sum_array += png_array` *)
(* is uint8 arithmetic: it wraps modulo 2^8. An image is modelled as its   *)
(* pixel values, a file name by whether the set-pattern regex matches it. *)
(***************************************************************************)
EXTENDS Naturals, Sequences, SequencesExt

CONSTANTS
    Batches,   \* the filename lists average_images may be called with
    PixelBits  \* bit width of a PNG sample: 8 (uint8)

ASSUME PixelBits \in Nat \ {0}

\* Values of a PNG sample and of a sum_array cell: uint8 wraps here.
Modulus == 2 ^ PixelBits

VARIABLES
    filenames,   \* the argument
    i_image,     \* images accumulated so far
    sum_array,   \* the accumulator (uint8 pixels)
    mean_array,  \* the image saved
    pc,          \* "start", "loop", "saved" or "raised"
    err          \* the exception raised, or "none"

vars == <<filenames, i_image, sum_array, mean_array, pc, err>>

Init ==
    /\ filenames \in Batches
    /\ i_image = 0
    /\ sum_array = <<>>
    /\ mean_array = <<>>
    /\ pc = "start"
    /\ err = "none"

(***************************************************************************)
(* re.search(pattern, filenames[0]).group(2): an empty list raises         *)
(* IndexError, a first name the pattern misses gives None, whose .group    *)
(* raises AttributeError.                                                  *)
(***************************************************************************)
MatchSetString ==
    /\ pc = "start"
    /\ CASE filenames = <<>>        -> pc' = "raised" /\ err' = "IndexError"
         [] ~filenames[1].matches   -> pc' = "raised" /\ err' = "AttributeError"
         [] OTHER                   -> pc' = "loop" /\ UNCHANGED err
    /\ UNCHANGED <<filenames, i_image, sum_array, mean_array>>

\* One pass of the for loop: copy the first image, add the others in uint8.
Accumulate ==
    /\ pc = "loop"
    /\ i_image < Len(filenames)
    /\ LET png == filenames[i_image + 1].px IN
       sum_array' = IF i_image = 0 THEN png
                    ELSE [k \in DOMAIN png |-> (sum_array[k] + png[k]) % Modulus]
    /\ i_image' = i_image + 1
    /\ UNCHANGED <<filenames, mean_array, pc, err>>

\* mean_array = sum_array // n_images, then the image is saved.
SaveMean ==
    /\ pc = "loop"
    /\ i_image = Len(filenames)
    /\ mean_array' = [k \in DOMAIN sum_array |-> sum_array[k] \div Len(filenames)]
    /\ pc' = "saved"
    /\ UNCHANGED <<filenames, i_image, sum_array, err>>

Next == MatchSetString \/ Accumulate \/ SaveMean

Spec == Init /\ [][Next]_vars

-----------------------------------------------------------------------------
\* The true mean of pixel k over the batch, in unbounded integers.
TrueMean(k) ==
    FoldLeft(LAMBDA acc, f : acc + f.px[k], 0, filenames) \div Len(filenames)

\* The saved image is the (floored) mean of the input images, as the
\* comment "Takes the mean of a series of PNG images" says, whatever the
\* pixel values: the uint8 accumulation in average_images must not lose it.
AverageIsMean ==
    pc = "saved" => \A k \in DOMAIN mean_array : mean_array[k] = TrueMean(k)
=============================================================================
