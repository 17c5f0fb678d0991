----------------------------- MODULE Transforms -----------------------------
(***************************************************************************)
(* The transforms of audio-dsp/: their configuration, which may depend on  *)
(* the volume (TransformConfig, JSONTransformConfig), and what reconfigure *)
(* makes of it in each of them.                                            *)
(*                                                                         *)
(* A transform is a record of its kind, its json, the volume its config    *)
(* has, uses, the settings it processes with, and cache, those it compares *)
(* new ones with.  A json maps the fields it has to sequences of values, a *)
(* field that is no array to one value.                                    *)
(***************************************************************************)
EXTENDS Integers, Sequences, SequencesExt, TLC

Invalid == -124             (* invalidInt                                   *)

(***************************************************************************)
(* TransformConfig                                                         *)
(***************************************************************************)
rawValues(t, field) == IF field \in DOMAIN t.json THEN t.json[field] ELSE <<Invalid>>

(* The index for a volume from 0 to 100.                                   *)
ValueIndex(volume, size) ==
  LET index == (volume * size) \div 100
  IN  IF index >= size THEN size - 1 ELSE index

getRawValue(t, field) ==
  rawValues(t, field)[ValueIndex(t.volume, Len(rawValues(t, field))) + 1]

(* getFloat and getInt of a field that is not required.                    *)
getNumber(t, field, default) ==
  IF getRawValue(t, field) = Invalid THEN default ELSE getRawValue(t, field)

getString(t, field) ==
  IF field \in DOMAIN t.json THEN t.json[field][1] ELSE "invalid"

getChannels(t) ==
  LET channel == getNumber(t, "channel", Invalid)
  IN  IF channel # Invalid THEN <<channel>>
      ELSE IF "channels" \in DOMAIN t.json THEN t.json.channels ELSE <<>>

(***************************************************************************)
(* reconfigure, of each kind.                                              *)
(***************************************************************************)
Numbers(t, fields, default) == [f \in fields |-> getNumber(t, f, default)]

reconfigureGain(t) ==
  [t EXCEPT !.uses = [channels |-> getChannels(t), gain |-> getNumber(t, "gain", 0)]]

CompressorFields == {"attack", "release", "threshold", "factor", "makeup_gain"}

reconfigureCompressor(t) ==
  LET new == Numbers(t, CompressorFields, 0)
  IN  IF t.cache = new THEN t
      ELSE [t EXCEPT !.cache = new, !.uses = [channels |-> getChannels(t), settings |-> new]]

(* The Q factors of a Butterworth filter by their number, and -1.          *)
calculateBWQ(order) ==
  [n \in 1..(order \div 2) |-> n] \o (IF order % 2 > 0 THEN <<-1>> ELSE <<>>)

Half == 0                   (* a Q of 0.5                                   *)

(* Twice the filter of half the order; two of the first order are one of   *)
(* the second.                                                             *)
calculateLRQ(order) ==
  LET q == calculateBWQ(order \div 2)
      paired == SubSeq(q, 1, Len(q) - 1)
  IN  IF order % 4 > 0 THEN paired \o paired \o <<Half>> ELSE q \o q

ComboType(name) == IF name = "lr_lowpass" THEN "Lowpass" ELSE "Highpass"

(* A Butterworth filter's factors are calculated and nothing done with.    *)
Biquads(t) ==
  LET name == getString(t, "combo_type")
  IN  [q |-> IF name \in {"lr_lowpass", "lr_highpass"}
             THEN calculateLRQ(getNumber(t, "order", 0)) ELSE <<>>,
       type |-> ComboType(name), frequency |-> getNumber(t, "frequency", 0)]

NoBiquads == [q |-> <<>>, type |-> "none", frequency |-> 0]

IsComboType(name) == name \in {"lr_lowpass", "lr_highpass", "bw_lowpass", "bw_highpass"}

(* An unknown type throws with the new settings noted and no filter.       *)
reconfigureBiquadCombo(t) ==
  LET new == Numbers(t, {"frequency", "order"}, 0)
  IN  IF t.cache = new THEN t
      ELSE [t EXCEPT !.cache = new,
                     !.uses = [channels |-> SubSeq(getChannels(t), 1, 1),
                               biquads |-> IF IsComboType(getString(t, "combo_type"))
                                           THEN Biquads(t) ELSE NoBiquads]]

BiquadFields == {"bandwidth", "slope", "gain", "frequency", "q"}

(* currentConfig has the frequency under another name than reconfigure     *)
(* looks for: what it compares with is 0.                                  *)
Unchanged(cache, new) ==
  \A f \in BiquadFields :
    new[f] = IF f \in DOMAIN cache /\ f # "frequency" THEN cache[f] ELSE 0

reconfigureBiquad(t) ==
  LET new == Numbers(t, BiquadFields, Invalid)
      type == getString(t, "biquad_type")
      given == [f \in {f \in BiquadFields : new[f] # Invalid} |-> new[f]]
      free == IF type = "free" THEN Numbers(t, {"a1", "a2", "b0", "b1", "b2"}, 0) ELSE <<>>
      at == [t EXCEPT !.uses.channels = SubSeq(getChannels(t), 1, 1)]
  IN  IF Unchanged(t.cache, new) \/ type = "invalid" THEN at
      ELSE [at EXCEPT !.cache = given,
                      !.uses.filter = [type |-> type, config |-> given @@ free]]

reconfigure(t) ==
  CASE t.kind = "Gain"        -> reconfigureGain(t)
    [] t.kind = "Compressor"  -> reconfigureCompressor(t)
    [] t.kind = "BiquadCombo" -> reconfigureBiquadCombo(t)
    [] t.kind = "Biquad"      -> reconfigureBiquad(t)

(* Whether it throws: an unknown type, unless nothing seems to change.     *)
Throws(t) ==
  \/ /\ t.kind = "BiquadCombo" /\ ~IsComboType(getString(t, "combo_type"))
     /\ t.cache # Numbers(t, {"frequency", "order"}, 0)
  \/ /\ t.kind = "Biquad" /\ getString(t, "biquad_type") = "invalid"
     /\ ~Unchanged(t.cache, Numbers(t, BiquadFields, Invalid))

(* A transform as it is constructed, with a config of the default volume.  *)
New(kind, json) ==
  LET made(uses, cache) == [kind |-> kind, json |-> json, volume |-> 60, uses |-> uses,
                            cache |-> cache]
      zero(fields) == [f \in fields |-> 0]
  IN  CASE kind = "Gain"        -> made([channels |-> <<>>, gain |-> 0], <<>>)
        [] kind = "Compressor"  -> made([channels |-> <<>>, settings |-> zero(CompressorFields)],
                                        zero(CompressorFields))
        [] kind = "BiquadCombo" -> made([channels |-> <<>>, biquads |-> NoBiquads],
                                        zero({"frequency", "order"}))
        [] kind = "Biquad"      -> made([channels |-> <<>>, filter |-> [type |-> "none"]], <<>>)

AtVolume(t, volume) == reconfigure([t EXCEPT !.volume = volume])

(***************************************************************************)
(* Configurations that mean something: of a known kind, with a list of     *)
(* values for a field, the channel the same for every volume, at no volume *)
(* the settings a transform is constructed with (it would compare, find    *)
(* nothing new and keep the filter it has), and crossovers of which the    *)
(* code makes filters.                                                     *)
(***************************************************************************)
Kind == {"Gain", "Compressor", "BiquadCombo", "Biquad"}
ComboFields == {"frequency", "order"}
Zeros(fields) == [f \in fields |-> 0]
Config(json, volume) == [json |-> json, volume |-> volume]

Configures(kind, json, v) ==
  /\ kind = "Compressor" => Numbers(Config(json, v), CompressorFields, 0) # Zeros(CompressorFields)
  /\ kind = "BiquadCombo" => Numbers(Config(json, v), ComboFields, 0) # Zeros(ComboFields)
  /\ kind = "Biquad" => getNumber(Config(json, v), "frequency", Invalid) # 0

HasWholeFilters(json, v) ==
  IsComboType(getString(Config(json, v), "combo_type")) =>
    /\ getString(Config(json, v), "combo_type") \in {"lr_lowpass", "lr_highpass"}
    /\ getNumber(Config(json, v), "order", 0) \in Nat
    /\ getNumber(Config(json, v), "order", 0) % 2 = 0

Meaningful(kind, json, volumes) ==
  /\ kind \in Kind
  /\ \A f \in DOMAIN json : json[f] \in Seq(ToSet(json[f])) /\ json[f] # <<>>
  /\ \A v \in volumes : Configures(kind, json, v)
  /\ \A v \in volumes : kind = "BiquadCombo" => HasWholeFilters(json, v)
  /\ \A u, v \in volumes : getChannels(Config(json, u)) = getChannels(Config(json, v))
=============================================================================
