------------------------------- MODULE Codecs --------------------------------
(***************************************************************************)
(* The codec drivers of audio-sinks/esp and their sinks: every public call *)
(* as the register accesses it makes.  The ES8311 comes first.             *)
(***************************************************************************)
EXTENDS CodecBus

CONSTANTS Rates,        (* the sample rates clients ask for                 *)
          Volumes,      (* and the volumes                                  *)
          Unwatched     (* kinds of settings other calls are known to undo  *)

(***************************************************************************)
(* coeff_div: the clock dividers for a master clock and a sample rate.     *)
(***************************************************************************)
Coeff(mclk, rate, prediv, premulti, adcdiv, dacdiv, fsmode, lrck_h, lrck_l, bclkdiv, osr) ==
  [mclk |-> mclk, rate |-> rate, prediv |-> prediv, premulti |-> premulti,
   adcdiv |-> adcdiv, dacdiv |-> dacdiv, fsmode |-> fsmode,
   lrck_h |-> lrck_h, lrck_l |-> lrck_l, bclkdiv |-> bclkdiv, adcosr |-> osr, dacosr |-> osr]

(* Most rows differ in the master clock's divider and multiplier only.     *)
PlainRows ==
  {<<12288000, 8000, 6, 1>>, <<16384000, 8000, 8, 1>>, <<8192000, 8000, 4, 1>>,
   <<6144000, 8000, 3, 1>>, <<4096000, 8000, 2, 1>>, <<3072000, 8000, 1, 1>>,
   <<2048000, 8000, 1, 1>>, <<1536000, 8000, 3, 4>>, <<1024000, 8000, 1, 2>>,
   <<11289600, 11025, 4, 1>>, <<5644800, 11025, 2, 1>>, <<2822400, 11025, 1, 1>>,
   <<1411200, 11025, 1, 2>>, <<12288000, 12000, 4, 1>>, <<6144000, 12000, 2, 1>>,
   <<3072000, 12000, 1, 1>>, <<1536000, 12000, 1, 2>>, <<12288000, 16000, 3, 1>>,
   <<16384000, 16000, 4, 1>>, <<8192000, 16000, 2, 1>>, <<6144000, 16000, 3, 2>>,
   <<4096000, 16000, 1, 1>>, <<3072000, 16000, 3, 4>>, <<2048000, 16000, 1, 2>>,
   <<1536000, 16000, 3, 8>>, <<1024000, 16000, 1, 4>>, <<11289600, 22050, 2, 1>>,
   <<5644800, 22050, 1, 1>>, <<2822400, 22050, 1, 2>>, <<1411200, 22050, 1, 4>>,
   <<12288000, 24000, 2, 1>>, <<18432000, 24000, 3, 1>>, <<6144000, 24000, 1, 1>>,
   <<3072000, 24000, 1, 2>>, <<1536000, 24000, 1, 4>>, <<12288000, 32000, 3, 2>>,
   <<16384000, 32000, 2, 1>>, <<8192000, 32000, 1, 1>>, <<6144000, 32000, 3, 4>>,
   <<4096000, 32000, 1, 2>>, <<3072000, 32000, 3, 8>>, <<2048000, 32000, 1, 4>>,
   <<1024000, 32000, 1, 8>>, <<11289600, 44100, 1, 1>>, <<5644800, 44100, 1, 2>>,
   <<2822400, 44100, 1, 4>>, <<1411200, 44100, 1, 8>>, <<12288000, 48000, 1, 1>>,
   <<18432000, 48000, 3, 2>>, <<6144000, 48000, 1, 2>>, <<3072000, 48000, 1, 4>>,
   <<1536000, 48000, 1, 8>>, <<12288000, 64000, 3, 4>>, <<16384000, 64000, 1, 1>>,
   <<8192000, 64000, 1, 2>>, <<4096000, 64000, 1, 4>>, <<2048000, 64000, 1, 8>>,
   <<11289600, 88200, 1, 2>>, <<5644800, 88200, 1, 4>>, <<2822400, 88200, 1, 8>>,
   <<12288000, 96000, 1, 2>>, <<18432000, 96000, 3, 4>>, <<6144000, 96000, 1, 4>>,
   <<3072000, 96000, 1, 8>>}

coeff_div ==
  {Coeff(r[1], r[2], r[3], r[4], 1, 1, 0, 0, 255, 4, 16) : r \in PlainRows} \union
  {Coeff(18432000, 8000, 3, 2, 3, 3, 0, 5, 255, 24, 16),
   Coeff(18432000, 16000, 3, 2, 3, 3, 0, 2, 255, 12, 16),
   Coeff(18432000, 32000, 3, 4, 3, 3, 0, 2, 255, 12, 16),
   Coeff(1536000, 32000, 3, 8, 1, 1, 1, 0, 127, 2, 16),
   Coeff(18432000, 64000, 3, 4, 3, 3, 1, 1, 127, 6, 16),
   Coeff(6144000, 64000, 1, 4, 3, 3, 1, 1, 127, 6, 16),
   Coeff(3072000, 64000, 1, 8, 3, 3, 1, 1, 127, 6, 16),
   Coeff(1536000, 64000, 1, 8, 1, 1, 1, 0, 191, 3, 24),
   Coeff(1024000, 64000, 1, 8, 1, 1, 1, 0, 127, 2, 16),
   Coeff(1411200, 88200, 1, 8, 1, 1, 1, 0, 127, 2, 16),
   Coeff(1536000, 96000, 1, 8, 1, 1, 1, 0, 127, 2, 16)}

get_coeff(mclk, rate) == {c \in coeff_div : c.mclk = mclk /\ c.rate = rate}

(* premulti as its field has it.                                           *)
MultiBits(premulti) ==
  CASE premulti = 1 -> 0 [] premulti = 2 -> 8 [] premulti = 4 -> 16 [] premulti = 8 -> 24

ClockFields(c) ==
  <<<<"REG02", \hF8, (c.prediv - 1) * 32 + MultiBits(c.premulti)>>,
    <<"REG05", \hFF, (c.adcdiv - 1) * 16 + c.dacdiv - 1>>,
    <<"REG03", \h7F, c.fsmode * 64 + c.adcosr>>,
    <<"REG04", \h7F, c.dacosr>>,
    <<"REG07", \h3F, c.lrck_h>>,
    <<"REG08", \hFF, c.lrck_l>>,
    <<"REG06", \h1F, IF c.bclkdiv < 19 THEN c.bclkdiv - 1 ELSE c.bclkdiv>>>>

es8311_pcm_hw_params(lrck) ==
  LET fields == ClockFields(CHOOSE c \in get_coeff(256 * lrck, lrck) : TRUE)
  IN  IF get_coeff(256 * lrck, lrck) = {} THEN <<>>
      ELSE [i \in DOMAIN fields |->
              Update(fields[i][1], \hFF - fields[i][2], fields[i][3])]

(***************************************************************************)
(* es8311_init, with the options Codec_Startup gives it.                   *)
(***************************************************************************)
priv == [master |-> FALSE, sclkPin |-> FALSE, mclkinv |-> FALSE, sclkinv |-> FALSE,
         dmic |-> FALSE]

(* Sets the bit if the option is on, clears it otherwise.                  *)
Option(on, reg, bit) == Update(reg, \hFF - bit, IF on THEN bit ELSE 0)

es8311_init(lrck) ==
  <<Write("REG45", 0), Write("REG01", \h30), Write("REG02", 0), Write("REG03", \h10),
    Write("REG16", \h24), Write("REG04", \h10), Write("REG05", 0), Write("REG0B", 0),
    Write("REG0C", 0), Write("REG10", \h1F), Write("REG11", \h7F), Write("REG00", \h80),
    Option(priv.master, "REG00", \h40), Write("REG0D", 1), Write("REG01", \h3F),
    Option(priv.sclkPin, "REG01", \h80)>>
  \o es8311_pcm_hw_params(lrck) \o
  <<Option(priv.mclkinv, "REG01", \h40), Option(priv.sclkinv, "REG06", \h20),
    Write("REG14", \h1A), Option(priv.dmic, "REG14", \h40),
    Write("REG13", \h10), Write("REG0E", 2), Write("REG15", \h40), Write("REG1B", \h0A),
    Write("REG1C", \h6A), Write("REG37", \h48), Write("REG44", \h08), Write("REG32", \hBF)>>

(***************************************************************************)
(* The calls.                                                              *)
(***************************************************************************)
Adc(mode) == mode \in {"ADC", "ADC_DAC"}
Dac(mode) == mode \in {"DAC", "ADC_DAC"}
If(condition, accesses) == IF condition THEN accesses ELSE <<>>

FormatBits(fmt) == CASE fmt = "NORMAL" -> 0 [] fmt \in {"LEFT", "RIGHT"} -> 1 [] fmt = "DSP" -> 3
FormatAccess(fmt, reg) == Update(reg, IF fmt = "DSP" THEN \hFF ELSE \hFC, FormatBits(fmt))

ConfigFmt(mode, fmt) ==
  If(Adc(mode), <<Write("REG17", \hBF)>>) \o If(Dac(mode), <<Write("REG12", 0)>>)
  \o <<FormatAccess(fmt, "REG09"), FormatAccess(fmt, "REG0A")>>

SetBitsPerSample(mode, bits) ==
  If(Adc(mode), <<Update("REG09", \hE3, bits * 4)>>)
  \o If(Dac(mode), <<Update("REG0A", \hE3, bits * 4)>>)

Start(mode) ==
  If(Adc(mode), <<Write("REG17", \hBF)>>) \o If(Dac(mode), <<Update("REG12", \hFD, 0)>>)
Stop(mode) ==
  If(Adc(mode), <<Write("REG17", 0)>>) \o If(Dac(mode), <<Update("REG12", \hFF, 2)>>)

SetVoiceVolume(volume) == <<Write("REG32", (IF volume = 0 THEN 1 ELSE volume) % 256)>>

es8311_mute(mute) ==
  IF mute THEN <<Write("REG12", 2), Update("REG31", \h9F, \h60), Write("REG32", 0),
                 Write("REG37", \h08)>>
  ELSE <<Update("REG31", \h9F, 0), Write("REG12", 0)>>

SetMicGain(gain) == <<Update("REG16", 7, gain \div 6)>>
SetAdcVolume(volume) == <<Write("REG17", volume)>>
GetRef(flag) == <<IF flag THEN Update("REG44", \hFF, \h50) ELSE Write("REG44", \h08)>>
Uninit == <<Write("REG00", \h3F)>>

(* ES8311AudioSink::ES8311AudioSink.                                       *)
Construct ==
  es8311_init(44100) \o SetBitsPerSample("DAC", 3) \o ConfigFmt("DAC", "NORMAL")
  \o SetVoiceVolume(60) \o Start("DAC") \o <<Write("REG01", \hBF), Write("REG02", \h18)>>

(* What a call sets, unless that kind of setting is not watched.           *)
Sets(kind, fields) == IF kind \in Unwatched THEN AskNothing ELSE fields

ClockValues(rate) == {ClockFields(c)[i] : c \in get_coeff(256 * rate, rate), i \in 1..7}

AskClock(rate) ==
  [f \in {<<c[1], c[2]>> : c \in ClockValues(rate)}
     |-> Bits((CHOOSE c \in ClockValues(rate) : <<c[1], c[2]>> = f)[3])]

Modes == {"ADC", "DAC", "ADC_DAC"}

Es8311Call ==
  \/ Invoke(Construct, AskNothing, TRUE)
  \/ \E rate \in Rates : Invoke(es8311_init(rate), Sets("clock", AskClock(rate)), FALSE)
  \/ \E mode \in Modes, fmt \in {"NORMAL", "LEFT", "DSP"} :
       Invoke(ConfigFmt(mode, fmt),
              Over(Ask("REG09", 3, FormatBits(fmt)), Ask("REG0A", 3, FormatBits(fmt))), FALSE)
  \/ \E mode \in Modes, bits \in {0, 3, 4} :
       Invoke(SetBitsPerSample(mode, bits),
              Over(IF Adc(mode) THEN Ask("REG09", \h1C, bits * 4) ELSE AskNothing,
                   IF Dac(mode) THEN Ask("REG0A", \h1C, bits * 4) ELSE AskNothing), FALSE)
  \/ \E mode \in Modes :
       \/ Invoke(Start(mode), Sets("power", IF Dac(mode) THEN Ask("REG12", 2, 0) ELSE AskNothing), FALSE)
       \/ Invoke(Stop(mode), Sets("power", IF Dac(mode) THEN Ask("REG12", 2, 2) ELSE AskNothing), FALSE)
  \/ \E volume \in Volumes :
       Invoke(SetVoiceVolume(volume),
              Sets("volume", Ask("REG32", \hFF, IF volume = 0 THEN 1 ELSE volume)), FALSE)
  \/ \E mute \in BOOLEAN :
       Invoke(es8311_mute(mute), Ask("REG31", \h60, IF mute THEN \h60 ELSE 0), FALSE)
  \/ \E gain \in {0, 6, 12} :
       Invoke(SetMicGain(gain), Sets("gain", Ask("REG16", 7, gain \div 6)), FALSE)
  \/ \E flag \in BOOLEAN : Invoke(GetRef(flag), AskNothing, FALSE)
  \/ Invoke(SetAdcVolume(\h80), Sets("adc", Ask("REG17", \hFF, \h80)), FALSE)
  \/ Invoke(Uninit, AskNothing, TRUE)

(***************************************************************************)
(* Properties.                                                             *)
(***************************************************************************)
(* Every row of the table divides its master clock down to its sample      *)
(* rate, and no two rows are for the same clock and rate.  Not so of the   *)
(* row for 3072000 and 8000, which divides down to 12000.                  *)
RowsGenerateTheirRates ==
  \A c \in coeff_div :
    /\ c.mclk * c.premulti = c.rate * c.prediv * (256 * c.lrck_h + c.lrck_l + 1)
    /\ get_coeff(c.mclk, c.rate) = {c}

------------------------------------------------------------------------------
(***************************************************************************)
(* The AC101 driver and its sink (ac101.c), the codecs that are only set   *)
(* up, and all drivers over the one bus model: a board has one of the      *)
(* codecs.  The AC101's 16-bit registers share bits between volume, enable *)
(* and clock fields.                                                       *)
(***************************************************************************)
CONSTANTS EarVolumes,   (* the volumes clients ask for                      *)
          AcRates       (* and the sample rates                             *)

SPKOUT_EN == \h0AA0
EAROUT_EN == \h3800

(* The field is replaced, the bits around it kept.                         *)
Replace(reg, mask, value) == Update(reg, \hFFFF - mask, value)

set_spk_volume(volume) == 
  <<Replace("SPKOUT_CTRL", \h1F, ((IF volume < 100 THEN volume ELSE 100) * 31) \div 100)>>

EarphBits(volume) == (((volume % 256) * 63) \div 255) * 16

(* Mutant: the old volume is not cleared.                                  *)
set_earph_volume_Ors(volume) == <<Update("HPOUT_CTRL", \hFFFF, EarphBits(volume))>>

set_earph_volume(volume) == <<Replace("HPOUT_CTRL", \h3F0, EarphBits(volume))>>

speaker(active) == <<Replace("SPKOUT_CTRL", SPKOUT_EN, IF active THEN SPKOUT_EN ELSE 0)>>
headset(active) == <<Replace("HPOUT_CTRL", EAROUT_EN, IF active THEN EAROUT_EN ELSE 0)>>

RateBits(rate) ==
  CASE rate = 8000 -> 0 [] rate = 11025 -> \h1000 [] rate = 12000 -> \h2000
    [] rate = 16000 -> \h3000 [] rate = 22050 -> \h4000 [] rate = 24000 -> \h5000
    [] rate = 32000 -> \h6000 [] rate = 48000 -> \h8000
    [] rate = 96000 -> \h9000 [] rate = 192000 -> \hA000 [] OTHER -> \h7000
set_sample_rate(rate) == <<Write("I2S_SR_CTRL", RateBits(rate))>>

(* start powers the DAC's PLL up; power only asks it for AC_MODULE_DAC.    *)
start(mode) ==
  (IF mode = "LINE" THEN <<Write("ADC_SRC", \h0408), Write("ADC_DIG_CTRL", \h8000),
                           Write("ADC_ANA_CTRL", \h3BC0)>> ELSE <<>>)
  \o (IF mode \in {"ADC", "ADC_DAC", "LINE"}
      THEN <<Write("MOD_CLK_ENA", \h800C), Write("MOD_RST_CTRL", \h800C)>> ELSE <<>>)
  \o (IF mode \in {"DAC", "ADC_DAC", "LINE"} THEN <<Replace("PLL_CTRL2", \h8000, \h8000)>> ELSE <<>>)
stop == <<Replace("PLL_CTRL2", \h8000, 0)>>
power(mode) == IF mode = "ON" THEN start("DAC") ELSE stop

MixerMask(source) == CASE source = "MIC1" -> \h1C0 [] source = "MIC2" -> \h38 [] source = "LINEIN" -> 7
MixerBits(gain, source) == 
  gain * (CASE source = "MIC1" -> 64 [] source = "MIC2" -> 8 [] source = "LINEIN" -> 1)
set_output_mixer_gain(gain, source) ==
  <<Replace("OMIXER_BST1_CTRL", MixerMask(source), MixerBits(gain, source))>>

ClockBits(bclk, lclk) == bclk * 512 + lclk * 64
i2s_config_clock(bclk, lclk) == <<Replace("I2S1LCK_CTRL", \h1FC0, ClockBits(bclk, lclk))>>

(* With ENABLE_ADC undefined.  A codec that does not answer is left alone. *)
InitWrites101 ==
  <<Write("CHIP_AUDIO_RS", \h123), Write("PLL_CTRL1", \h014F), Write("PLL_CTRL2", \h8600),
    Write("SYSCLK_CTRL", \hAA08), Write("MOD_CLK_ENA", \h800C), Write("MOD_RST_CTRL", \h800C),
    Write("I2S_SR_CTRL", \h7000), Write("I2S1LCK_CTRL", \h8850),
    Write("I2S1_SDOUT_CTRL", \hC000), Write("I2S1_SDIN_CTRL", \hC000),
    Write("I2S1_MXR_SRC", \h2200), Write("ADC_SRCBST_CTRL", \h4440), Write("ADC_SRC", 0),
    Write("ADC_DIG_CTRL", 0), Write("ADC_ANA_CTRL", \h3300), Write("DAC_MXR_SRC", \h8800),
    Write("DAC_DIG_CTRL", \h8000), Write("OMIXER_DACA_CTRL", \hF000),
    Write("OMIXER_DACA_CTRL", \hFF00), Write("OMIXER_SR", \h050A),
    Write("SPKOUT_CTRL", \h0220), Write("HPOUT_CTRL", \hF801)>>

init(answers) ==
  IF answers THEN InitWrites101 \o set_spk_volume(70) \o set_earph_volume(70) ELSE <<>>

(* AC101AudioSink::AC101AudioSink.                                         *)
AC101AudioSink(answers) == init(answers) \o speaker(FALSE) \o power("ON")

(* The last four are in the driver, and nothing in the library calls them. *)
Ac101Call ==
  \/ \E answers \in BOOLEAN :
       Invoke(AC101AudioSink(answers),
              Over(Ask("SPKOUT_CTRL", SPKOUT_EN, 0), Ask("PLL_CTRL2", \h8000, \h8000)), TRUE)
  \/ \E volume \in EarVolumes :
       Invoke(set_earph_volume(volume), Ask("HPOUT_CTRL", \h3F0, EarphBits(volume)), FALSE)
  \/ \E mode \in {"STANDBY", "OFF", "ON"} :
       Invoke(power(mode), Ask("PLL_CTRL2", \h8000, IF mode = "ON" THEN \h8000 ELSE 0), FALSE)
  \/ \E active \in BOOLEAN :
       \/ Invoke(speaker(active),
                 Ask("SPKOUT_CTRL", SPKOUT_EN, IF active THEN SPKOUT_EN ELSE 0), FALSE)
       \/ Invoke(headset(active),
                 Ask("HPOUT_CTRL", EAROUT_EN, IF active THEN EAROUT_EN ELSE 0), FALSE)
  \/ \E rate \in AcRates :
       Invoke(set_sample_rate(rate), Ask("I2S_SR_CTRL", \hFFFF, RateBits(rate)), FALSE)
  \/ \E gain \in {0, 7}, source \in {"MIC1", "MIC2", "LINEIN"} :
       Invoke(set_output_mixer_gain(gain, source),
              Ask("OMIXER_BST1_CTRL", MixerMask(source), MixerBits(gain, source)), FALSE)
  \/ \E bclk \in {0, 13}, lclk \in {0, 4} :
       Invoke(i2s_config_clock(bclk, lclk),
              Ask("I2S1LCK_CTRL", \h1FC0, ClockBits(bclk, lclk)), FALSE)


(***************************************************************************)
(* ES8388AudioSink and TAS5711AudioSink write their registers in the       *)
(* constructor, and nothing is changed afterwards.                         *)
(***************************************************************************)
MUTE == Write("DACCONTROL3", \h04)
UNMUTE == Write("DACCONTROL3", 0)

BeforeVolumes ==
  <<MUTE, Write("CONTROL2", \h50), Write("CHIPPOWER", 0), Write("MASTERMODE", 0),
    Write("DACPOWER", \h3E), Write("CONTROL1", \h12), Write("DACCONTROL1", \h18),
    Write("DACCONTROL2", 2), Write("DACCONTROL16", \h1B), Write("DACCONTROL17", \h90),
    Write("DACCONTROL20", \h90), Write("DACCONTROL21", \h80), Write("DACCONTROL23", 0),
    Write("DACCONTROL5", 0), Write("DACCONTROL4", 0), Write("ADCPOWER", \hFF),
    Write("ADCCONTROL1", \h88), Write("ADCCONTROL2", \hF0), Write("ADCCONTROL3", \h80),
    Write("ADCCONTROL4", \h0E), Write("ADCCONTROL5", 2)>>
Volumes8388 ==
  <<Write("ADCCONTROL8", \h20), Write("ADCCONTROL9", \h20), Write("DACCONTROL24", \h1E),
    Write("DACCONTROL25", \h1E), Write("DACCONTROL26", \h1E), Write("DACCONTROL27", \h1E)>>

PowerUp == <<Write("DACPOWER", \h3C), UNMUTE, Write("ADCPOWER", 0)>>

ES8388AudioSink == BeforeVolumes \o Volumes8388 \o PowerUp

tas5711_init_sequence ==
  <<Write("R00", \h6C), Write("R04", 3), Write("R05", 0), Write("R06", 0), Write("R07", \h50)>>
TAS5711AudioSink == <<Write("R1B", 0)>> \o tas5711_init_sequence

FixedCall ==
  \/ codec = "es8388" /\ Invoke(ES8388AudioSink, AskNothing, TRUE)
  \/ codec = "tas5711" /\ Invoke(TAS5711AudioSink, AskNothing, TRUE)

CodecNext ==
  \/ codec = "es8311" /\ Es8311Call
  \/ codec = "ac101" /\ Ac101Call
  \/ FixedCall
  \/ BusNext

(***************************************************************************)
(* Properties.                                                             *)
(***************************************************************************)
DacRegisters ==
  {MUTE.reg} \union {"DACPOWER", "CONTROL1", "CONTROL2", "CHIPPOWER", "MASTERMODE"}
  \union {BeforeVolumes[i].reg : i \in 7..15} \union {Volumes8388[i].reg : i \in 3..6}

(* "mute DAC during setup": while a set-up no write of which has failed    *)
(* still has to touch the DAC, the DAC is muted or not yet reached.        *)
MutedDuringSetup ==
  codec = "es8388" /\ ~broken /\ touched # {} /\ program # ES8388AudioSink
  /\ (\E i \in DOMAIN program : program[i].reg \in DacRegisters)
    => FieldIs(<<MUTE.reg, \h04>>, MUTE.set)

(* What the drivers promise of their registers.                            *)
RegistersHold == SettingsHold /\ MutedDuringSetup
==============================================================================
