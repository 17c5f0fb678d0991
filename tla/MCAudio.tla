------------------------------ MODULE MCAudio ------------------------------
(* The audio path: the chunk buffer, the DSP with its transforms, and the  *)
(* filters' coefficients.  They share no state: each behaviour is that of  *)
(* one part.                                                               *)
(*                                                                         *)
(* The buffer: two tracks, two sample values, chunks of two samples in     *)
(* three bytes, a ring of two chunks: a full ring, a truncated write, a    *)
(* flush forced by a track change and a refused write all happen.          *)
EXTENDS CentralAudioBuffer, Dsp, Biquad

VARIABLE part

SomePipelines ==
  [loud |-> << <<"Gain", [gain |-> <<0, 3, 6>>, channels |-> <<0, 1>>]>>,
               <<"BiquadCombo", [combo_type |-> <<"lr_lowpass">>, frequency |-> <<80, 120>>,
                                 order |-> <<4, 6>>, channel |-> <<0>>]>>,
               <<"Compressor", [threshold |-> <<-20, -10>>, factor |-> <<4>>,
                                channels |-> <<0, 1>>]>> >>,
   bad |-> << <<"Biquad", [biquad_type |-> <<"peaking">>, gain |-> <<0, 6>>, q |-> <<1>>,
                           channel |-> <<1>>]>>,
              <<"BiquadCombo", [frequency |-> <<80, 120>>, order |-> <<4, 6>>,
                                channel |-> <<0>>]>>,
              <<"Gain", [gain |-> <<0, 3>>, channel |-> <<1>>]>> >>]

ASSUME SomeAreMeaningful == AllMeaningful

SomeParameters ==
  [one : {2, 3}, A : {1, 2, 3}, c : {-1, 0, 1}, alpha : {1, 3}, beta : {1, 5},
   k : {1, 2, 4}, slope : {0, 12, 60}]
OneParameter == CHOOSE p \in SomeParameters : TRUE

MCInit ==
  /\ part \in {"buffer", "dsp", "filter"}
  /\ Init /\ DspInit
  /\ IF part = "filter" THEN FilterInit
     ELSE filter = [type |-> "Allpass", p |-> OneParameter, coeffs |-> allPassCoEffs(OneParameter)]

MCNext ==
  /\ UNCHANGED part
  /\ \/ part = "buffer" /\ Next /\ UNCHANGED <<dspVars, filter>>
     \/ part = "dsp" /\ DspNext /\ UNCHANGED <<bufferVars, filter>>
     \/ part = "filter" /\ FilterNext /\ UNCHANGED <<bufferVars, dspVars>>

MCSpec ==
  /\ MCInit /\ [][MCNext]_<<part, bufferVars, dspVars, filter>>
  /\ WF_dspVars(part = "dsp" /\ Processing) /\ WF_dspVars(part = "dsp" /\ Updating)
=============================================================================
