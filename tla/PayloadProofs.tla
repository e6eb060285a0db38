---------------------------- MODULE PayloadProofs ----------------------------
(***************************************************************************)
(* Proofs about Payload: what a letter holds is fixed by the input and the *)
(* configuration it was made from (Sealed), and that is enough to read it  *)
(* back, or to be refused, for any texts, passphrases and salts.           *)
(***************************************************************************)
EXTENDS Payload, TLAPS

\* A letter's body is what ToPayload makes of its input with the letter's
\* options and the key the config had then; the other settings have not changed
\* since. The letters of the service carry its encryption.
Sealed(l) ==
    /\ l.opts \in LetterOpts
    /\ l.by = "service" => l.opts.EConf
    /\ l.key \in Keys \cup {None, Short}
    /\ \E input \in Inputs :
         LET payload == ToPayload(input, CConf(l.opts), [EConf(l.opts) EXCEPT !.hashkey = l.key])
         IN  /\ l.plain = Raw(input)
             /\ ~payload.err
             /\ l.body = payload.data

ConfigOK == compression \in Compressions /\ encryption \in Encryptions

\* The inductive invariant.
LetterSealed == ConfigOK /\ (letter # None => Sealed(letter))

\* The configs that a letter's options stand for.
LEMMA OptsConfs ==
    ASSUME ConfigOK, NEW opts \in LetterOpts
    PROVE  /\ CConf(opts) \in Compressions
           /\ EConf(opts) \in Encryptions
           /\ EConf(opts).hashkey = encryption.hashkey
           /\ EConf(opts).enabled = (opts.EConf /\ encryption.enabled)
<1>1. CConf(opts) \in Compressions
  BY DEF ConfigOK, CConf, Compressions
<1>2. CASE opts.EConf
  BY <1>1, <1>2 DEF ConfigOK, EConf, LetterOpts, Encryptions
<1>3. CASE ~opts.EConf
  BY <1>1, <1>3 DEF ConfigOK, EConf, LetterOpts, Encryptions
<1>. QED
  BY <1>2, <1>3

\* The encryption a letter was made with.
LEMMA OwnConf ==
    ASSUME ConfigOK, NEW opts \in LetterOpts, NEW key \in Keys \cup {None, Short}
    PROVE  LET e == [EConf(opts) EXCEPT !.hashkey = key]
           IN  e \in Encryptions /\ e.enabled = EConf(opts).enabled /\ e.hashkey = key
<1>1. EConf(opts) \in Encryptions
  BY OptsConfs
<1>. QED
  BY <1>1 DEF Encryptions

\* The bytes of an input, compressed or not, before they are sealed.
Packed(input, zip) ==
    [text |-> input.text, json |-> input.kind = "value", zip |-> zip, key |-> None]

\* Decompress undoes Compress on the bytes of an input.
LEMMA Unpacked ==
    ASSUME NEW input \in Inputs, NEW type \in {"gzip", "zstd", "other"}
    PROVE  \E zip \in Zips :
             /\ Compress(type, Raw(input)) = Packed(input, zip)
             /\ Decompress(type, Packed(input, zip)) = Ok(Raw(input))
<1>. DEFINE zip == Algorithm(type)
<1>1. Raw(input) = Packed(input, "none")
  BY DEF Raw, Packed
<1>2. CASE IsEmpty(Raw(input)) /\ zip = "zstd"
  BY <1>1, <1>2 DEF Compress, Decompress, Zips
<1>3. CASE ~(IsEmpty(Raw(input)) /\ zip = "zstd")
  <2>1. zip \in {"gzip", "zstd"}
    BY DEF Algorithm
  <2>2. Compress(type, Raw(input)) = Packed(input, zip)
    BY <1>1, <1>3 DEF Compress, Packed
  <2>3. ~IsEmpty(Packed(input, zip))
    BY <2>1 DEF IsEmpty, Packed
  <2>4. Decompress(type, Packed(input, zip)) = Ok(Packed(input, "none"))
    BY <2>3 DEF Decompress, Packed
  <2>. QED
    BY <1>1, <2>1, <2>2, <2>4 DEF Zips
<1>. QED
  BY <1>2, <1>3

\* Replacing the key twice is replacing it once.
LEMMA Rekeyed ==
    ASSUME NEW text, NEW json, NEW zip, NEW key
    PROVE  LET d == [text |-> text, json |-> json, zip |-> zip, key |-> None]
               sealed == [d EXCEPT !.key = key]
           IN  sealed.key = key /\ [sealed EXCEPT !.key = None] = d
<1>1. [[text |-> text, json |-> json, zip |-> zip, key |-> None] EXCEPT !.key = key]
        = [text |-> text, json |-> json, zip |-> zip, key |-> key]
  OBVIOUS
<1>2. [[text |-> text, json |-> json, zip |-> zip, key |-> key] EXCEPT !.key = None]
        = [text |-> text, json |-> json, zip |-> zip, key |-> None]
  OBVIOUS
<1>. QED
  BY <1>1, <1>2

\* Decrypt opens what Encrypt sealed, with the same key and with no other.
LEMMA Opened ==
    ASSUME NEW input, NEW zip, NEW key \in Keys \cup {None, Short}, NEW other,
           ~Encrypt(key, Packed(input, zip)).err
    PROVE  LET sealed == Encrypt(key, Packed(input, zip)).data
           IN  /\ sealed.key \in Keys
               /\ Decrypt(other, sealed) = IF other = key THEN Ok(Packed(input, zip)) ELSE Err(sealed)
<1>. DEFINE sealed == [Packed(input, zip) EXCEPT !.key = key]
<1>1. key \in Keys /\ Encrypt(key, Packed(input, zip)) = Ok(sealed)
  BY DEF Encrypt, Err, Ok
<1>2. sealed.key = key /\ [sealed EXCEPT !.key = None] = Packed(input, zip)
  <2>1. PICK text, json :
          Packed(input, zip) = [text |-> text, json |-> json, zip |-> zip, key |-> None]
    BY Zenon DEF Packed
  <2>. DEFINE d == [text |-> text, json |-> json, zip |-> zip, key |-> None]
  <2>2. [d EXCEPT !.key = key].key = key /\ [[d EXCEPT !.key = key] EXCEPT !.key = None] = d
    BY Rekeyed, Zenon
  <2>. HIDE DEF d
  <2>. QED
    BY <2>1, <2>2 DEF d
<1>3. Decrypt(other, sealed) = IF other = key THEN Ok(Packed(input, zip)) ELSE Err(sealed)
  BY <1>1, <1>2, KeysAssumption DEF Decrypt
<1>4. Encrypt(key, Packed(input, zip)).data = sealed
  BY <1>1 DEF Ok
<1>. QED
  BY <1>1, <1>2, <1>3, <1>4

\* Whatever the compression, an input is packed into bytes that unpack to it.
LEMMA PackedInput ==
    ASSUME NEW input \in Inputs, NEW c \in Compressions
    PROVE  \E zip \in Zips :
             /\ (IF c.enabled THEN Compress(c.type, Raw(input)) ELSE Raw(input))
                  = Packed(input, zip)
             /\ (IF c.enabled THEN Decompress(c.type, Packed(input, zip))
                              ELSE Ok(Packed(input, zip))) = Ok(Raw(input))
<1>1. CASE c.enabled
  <2>1. c.type \in {"gzip", "zstd", "other"}
    BY DEF Compressions
  <2>. QED
    BY <1>1, <2>1, Unpacked
<1>2. CASE ~c.enabled
  BY <1>2 DEF Packed, Raw, Zips
<1>. QED
  BY <1>1, <1>2

\* A payload is read back with its own key, refused with any other, and sealed
\* whenever encryption is enabled.
LEMMA PayloadReadBack ==
    ASSUME NEW input \in Inputs, NEW c \in Compressions,
           NEW e \in Encryptions, NEW f \in Encryptions,
           f.enabled = e.enabled, ~ToPayload(input, c, e).err
    PROVE  LET body == ToPayload(input, c, e).data
               read == ReadPayload(body, c, f)
           IN  /\ IF f.enabled /\ f.hashkey # e.hashkey THEN read.err ELSE read = Ok(Raw(input))
               /\ e.enabled => body.key \in Keys
<1>1. PICK zip \in Zips :
        /\ (IF c.enabled THEN Compress(c.type, Raw(input)) ELSE Raw(input)) = Packed(input, zip)
        /\ (IF c.enabled THEN Decompress(c.type, Packed(input, zip)) ELSE Ok(Packed(input, zip)))
             = Ok(Raw(input))
  BY PackedInput
<1>2. ToPayload(input, c, e)
        = IF e.enabled THEN Encrypt(e.hashkey, Packed(input, zip)) ELSE Ok(Packed(input, zip))
  BY <1>1 DEF ToPayload, Err
<1>3. CASE e.enabled
  <2>. DEFINE sealed == Encrypt(e.hashkey, Packed(input, zip)).data
  <2>1. e.hashkey \in Keys \cup {None, Short}
    BY DEF Encryptions
  <2>2. /\ sealed.key \in Keys
        /\ Decrypt(f.hashkey, sealed)
             = IF f.hashkey = e.hashkey THEN Ok(Packed(input, zip)) ELSE Err(sealed)
    BY <1>2, <1>3, <2>1, Opened
  <2>3. CASE f.hashkey # e.hashkey
    BY <1>2, <1>3, <2>2, <2>3 DEF ReadPayload, Err
  <2>4. CASE f.hashkey = e.hashkey
    <3>1. Decrypt(f.hashkey, sealed) = Ok(Packed(input, zip))
      BY <2>2, <2>4
    <3>2. ReadPayload(sealed, c, f) = Ok(Raw(input))
      BY <1>1, <1>3, <3>1 DEF ReadPayload, Ok
    <3>. QED
      BY <1>2, <1>3, <2>2, <2>4, <3>2
  <2>. QED
    BY <2>3, <2>4
<1>4. CASE ~e.enabled
  <2>1. ToPayload(input, c, e).data = Packed(input, zip)
    BY <1>2, <1>4 DEF Ok
  <2>2. ReadPayload(Packed(input, zip), c, f) = Ok(Raw(input))
    BY <1>1, <1>4 DEF ReadPayload, Ok
  <2>. QED
    BY <1>4, <2>1, <2>2
<1>. QED
  BY <1>3, <1>4

\* The parts of the next-state relation that can disturb the invariant: a new
\* key in the config and a new letter.
LEMMA LetterSealedStep == LetterSealed /\ [Next]_vars => LetterSealed'
<1>. SUFFICES ASSUME LetterSealed, [Next]_vars
              PROVE  LetterSealed'
  OBVIOUS
<1>. USE DEF LetterSealed, ConfigOK
<1>1. ASSUME NEW passphrase \in Passphrases \cup {None}, NEW salt \in Salts \cup {None},
             NewRabbitService(passphrase, salt)
      PROVE  LetterSealed'
  <2>1. GetHashWithArgon(passphrase, salt, encryption.cost) \in Keys \cup {None}
    BY CostAssumption DEF GetHashWithArgon, Encryptions, Keys
  <2>2. /\ encryption' \in Encryptions /\ compression' = compression
        /\ encryption' = encryption \/ \E key : encryption' = [encryption EXCEPT !.hashkey = key]
    BY <1>1, <2>1 DEF NewRabbitService, Encryptions
  <2>3. \A opts, key : /\ CConf(opts)' = CConf(opts)
                       /\ [EConf(opts)' EXCEPT !.hashkey = key] = [EConf(opts) EXCEPT !.hashkey = key]
    BY <2>2 DEF CConf, EConf, Encryptions
  <2>4. letter # None => Sealed(letter)'
    BY <1>1, <2>3 DEF NewRabbitService, Sealed
  <2>. QED
    BY <1>1, <2>2, <2>4 DEF NewRabbitService
<1>2. ASSUME NEW input \in Inputs, NEW opts \in LetterOpts, NEW by,
             NewLetter(input, opts, by), by = "service" => opts.EConf,
             UNCHANGED <<compression, encryption>>
      PROVE  LetterSealed'
  <2>1. [EConf(opts) EXCEPT !.hashkey = encryption.hashkey] = EConf(opts)
    BY OptsConfs DEF Encryptions
  <2>2. /\ letter'.key = encryption.hashkey /\ letter'.plain = Raw(input)
        /\ letter'.body = ToPayload(input, CConf(opts), EConf(opts)).data
        /\ letter'.opts = opts /\ letter'.by = by
        /\ ~ToPayload(input, CConf(opts), EConf(opts)).err
    BY <1>2 DEF NewLetter
  <2>3. letter'.key \in Keys \cup {None, Short}
    BY <2>2 DEF Encryptions
  <2>4. CConf(opts)' = CConf(opts) /\ EConf(opts)' = EConf(opts)
    BY <1>2 DEF CConf, EConf
  <2>5. CConf(letter.opts)' = CConf(opts) /\ EConf(letter.opts)' = EConf(opts)
    BY <1>2, <2>2 DEF CConf, EConf
  <2>6. Sealed(letter)'
    BY <1>2, <2>1, <2>2, <2>3, <2>5 DEF Sealed
  <2>. QED
    BY <1>2, <2>6
<1>3. ASSUME NEW input \in Inputs, NEW addressed \in BOOLEAN, Publish(input, addressed)
      PROVE  LetterSealed'
  <2>1. [CConf |-> TRUE, EConf |-> TRUE] \in LetterOpts
    BY DEF LetterOpts
  <2>. QED
    BY <1>2, <1>3, <2>1 DEF Publish
<1>4. ASSUME NEW input \in Inputs, NEW opts \in LetterOpts, PublishLetter(input, opts)
      PROVE  LetterSealed'
  BY <1>2, <1>4 DEF PublishLetter
<1>5. ASSUME Shutdown \/ Receive \/ Read \/ UNCHANGED vars
      PROVE  LetterSealed'
  BY <1>5 DEF Shutdown, Receive, Read, vars, Sealed, CConf, EConf
<1>. QED
  BY <1>1, <1>3, <1>4, <1>5 DEF Next

\* What a letter reads as under the current config.
LEMMA SealedReads ==
    ASSUME LetterSealed
    PROVE  RoundTrip /\ ConfiguredLettersSealed
<1>. SUFFICES ASSUME letter # None
              PROVE  RoundTrip /\ ConfiguredLettersSealed
  BY DEF RoundTrip, ConfiguredLettersSealed
<1>. DEFINE c == CConf(letter.opts)
            f == EConf(letter.opts)
            e == [f EXCEPT !.hashkey = letter.key]
<1>1. PICK input \in Inputs :
        /\ letter.plain = Raw(input)
        /\ ~ToPayload(input, c, e).err
        /\ letter.body = ToPayload(input, c, e).data
  BY DEF LetterSealed, Sealed
<1>2. /\ letter.opts \in LetterOpts /\ letter.key \in Keys \cup {None, Short}
      /\ letter.by = "service" => letter.opts.EConf
  BY DEF LetterSealed, Sealed
<1>3. /\ c \in Compressions /\ f \in Encryptions
      /\ f.enabled = (letter.opts.EConf /\ encryption.enabled)
  BY <1>2, OptsConfs DEF LetterSealed
<1>4. e \in Encryptions /\ e.enabled = f.enabled /\ e.hashkey = letter.key
  BY <1>2, OwnConf DEF LetterSealed
<1>. HIDE DEF c, e, f
<1>5. /\ IF f.enabled /\ f.hashkey # e.hashkey
           THEN ReadPayload(letter.body, c, f).err
           ELSE ReadPayload(letter.body, c, f) = Ok(Raw(input))
      /\ e.enabled => letter.body.key \in Keys
  BY <1>1, <1>3, <1>4, PayloadReadBack
<1>6. RoundTrip
  BY <1>1, <1>4, <1>5 DEF RoundTrip, c, f
<1>7. ConfiguredLettersSealed
  BY <1>2, <1>3, <1>4, <1>5 DEF ConfiguredLettersSealed
<1>. QED
  BY <1>6, <1>7

\* Every letter can be read back as it was published while the services keep
\* its key, and is refused, not misread, once they have another one.
THEOREM LettersReadBack == Spec => []RoundTrip
<1>1. Init => LetterSealed
  BY DEF Init, LetterSealed, ConfigOK
<1>. QED
  BY <1>1, LetterSealedStep, SealedReads, PTL DEF Spec

\* With encryption enabled every letter the service makes, and every letter a
\* caller makes with the service's EncryptionConfig, is sealed with a key that
\* AES accepts. A letter a caller makes without it is not covered: it goes out
\* in clear.
THEOREM LettersSealed == Spec => []ConfiguredLettersSealed
<1>1. Init => LetterSealed
  BY DEF Init, LetterSealed, ConfigOK
<1>. QED
  BY <1>1, LetterSealedStep, SealedReads, PTL DEF Spec

-----------------------------------------------------------------------------
(* Reading a buffer again                                                  *)

Bytes == [text : Texts \cup {Empty}, json : BOOLEAN, zip : Zips, key : Keys \cup {None}]

\* What the reader gets from letter l with the letter's own key.
Own(l) == ReadPayload(l.body, readerCompression, [encryption EXCEPT !.hashkey = l.key])

\* With encryption enabled a body in clear is opened by no key, and another one
\* by the letter's key, with something in it.
Openable(l) ==
    /\ l.body \in Bytes
    /\ encryption.enabled /\ l.body.key # None
         => l.body.key = l.key /\ l.key \in Keys /\ ~IsEmpty([l.body EXCEPT !.key = None])

\* A buffer whose head a failed decompression has taken: no key opens it and
\* no reader accepts it.
Wrecked(d) == readerCompression.enabled /\ d \in Bytes /\ d.zip = "damaged" /\ d.key = None

\* The inductive invariant of the reader.
BufferInv ==
    /\ result \in {"none", "ok", "err"}
    /\ received # None =>
         /\ Openable(received)
         /\ result = "none" => buffer = received.body
         /\ result = "ok" => Own(received) = Ok(buffer)
         /\ result = "err" => buffer = received.body \/ (Own(received).err /\ Wrecked(buffer))

\* A wrecked buffer is refused and stays wrecked, with every key.
LEMMA WreckedStays ==
    ASSUME NEW d, Wrecked(d), NEW e, readerCompression \in Compressions
    PROVE  LET read == ReadPayload(d, readerCompression, e)
           IN  read.err /\ Wrecked(read.data)
<1>. DEFINE type == readerCompression.type
<1>1. d \in Bytes /\ d.zip = "damaged" /\ d.key = None /\ readerCompression.enabled
  BY DEF Wrecked
<1>2. Decrypt(e.hashkey, d) = Err(d)
  BY <1>1 DEF Decrypt
<1>3. Decompress(type, d) = Err([d EXCEPT !.zip = "damaged", !.key = None])
  BY <1>1 DEF Decompress, Damaged, IsEmpty, Algorithm
<1>4. Wrecked([d EXCEPT !.zip = "damaged", !.key = None])
  BY <1>1 DEF Wrecked, Bytes, Zips
<1>5. ReadPayload(d, readerCompression, e) = Err(d)
      \/ ReadPayload(d, readerCompression, e) = Err([d EXCEPT !.zip = "damaged", !.key = None])
  BY <1>1, <1>2, <1>3 DEF ReadPayload, Err, Ok
<1>. QED
  BY <1>4, <1>5 DEF Err

\* A read with the right key succeeds, or leaves the buffer alone, or wrecks it.
LEMMA OwnRead ==
    ASSUME NEW d \in Bytes, NEW e \in Encryptions, readerCompression \in Compressions,
           e.enabled => d.key = e.hashkey /\ d.key # None /\ ~IsEmpty([d EXCEPT !.key = None])
    PROVE  LET read == ReadPayload(d, readerCompression, e)
           IN  \/ ~read.err /\ read = Ok(read.data)
               \/ read.err /\ (read.data = d \/ Wrecked(read.data))
<1>. DEFINE type == readerCompression.type
            open == IF e.enabled THEN [d EXCEPT !.key = None] ELSE d
            read == ReadPayload(d, readerCompression, e)
<1>1. open \in Bytes /\ (open = d \/ ~IsEmpty(open))
  BY DEF Bytes
<1>2. (IF e.enabled THEN Decrypt(e.hashkey, d) ELSE Ok(d)) = Ok(open)
  BY DEF Decrypt
<1>. HIDE DEF open
<1>3. read = IF readerCompression.enabled THEN Decompress(type, open) ELSE Ok(open)
  BY <1>2 DEF ReadPayload, Ok
<1>. SUFFICES \/ ~read.err /\ read = Ok(read.data)
              \/ read.err /\ (read.data = d \/ Wrecked(read.data))
  OBVIOUS
<1>. HIDE DEF read
<1>4. CASE \E r : read = Ok(r)
  BY <1>4 DEF Ok
<1>5. CASE readerCompression.enabled /\ read = Err(Damaged(open))
  <2>1. read.err /\ read.data = Damaged(open)
    BY <1>5 DEF Err
  <2>2. CASE IsEmpty(open)
    BY <1>1, <2>1, <2>2 DEF Damaged
  <2>3. CASE ~IsEmpty(open)
    <3>1. Damaged(open) = [open EXCEPT !.zip = "damaged", !.key = None]
      BY <2>3 DEF Damaged
    <3>2. Wrecked([open EXCEPT !.zip = "damaged", !.key = None])
      BY <1>1, <1>5 DEF Wrecked, Bytes, Zips
    <3>. QED
      BY <2>1, <3>1, <3>2
  <2>. QED
    BY <2>2, <2>3
<1>6. (\E r : read = Ok(r)) \/ (readerCompression.enabled /\ read = Err(Damaged(open)))
  BY <1>3 DEF Decompress
<1>. QED
  BY <1>4, <1>5, <1>6

\* The body of a published letter is in clear or sealed with the letter's key.
LEMMA LetterOpenable ==
    ASSUME LetterSealed, letter # None
    PROVE  Openable(letter)
<1>. DEFINE c == CConf(letter.opts)
            e == [EConf(letter.opts) EXCEPT !.hashkey = letter.key]
<1>1. PICK input \in Inputs :
        /\ ~ToPayload(input, c, e).err
        /\ letter.body = ToPayload(input, c, e).data
  BY DEF LetterSealed, Sealed
<1>2. letter.key \in Keys \cup {None, Short} /\ letter.opts \in LetterOpts
  BY DEF LetterSealed, Sealed
<1>3. c \in Compressions /\ e.hashkey = letter.key
  BY <1>2, OptsConfs, OwnConf DEF LetterSealed
<1>. HIDE DEF c, e
<1>4. PICK zip \in Zips :
        (IF c.enabled THEN Compress(c.type, Raw(input)) ELSE Raw(input)) = Packed(input, zip)
  BY <1>3, PackedInput
<1>5. ToPayload(input, c, e)
        = IF e.enabled THEN Encrypt(e.hashkey, Packed(input, zip)) ELSE Ok(Packed(input, zip))
  BY <1>1, <1>4 DEF ToPayload, Err
<1>6. Packed(input, zip) \in Bytes /\ Packed(input, zip).key = None
  BY DEF Packed, Bytes, Inputs
<1>7. CASE ~e.enabled
  BY <1>1, <1>5, <1>6, <1>7 DEF Openable, Ok
<1>8. CASE e.enabled
  <2>1. ~Encrypt(letter.key, Packed(input, zip)).err
    BY <1>1, <1>3, <1>5, <1>8
  <2>2. letter.key \in Keys /\ ~IsEmpty(Packed(input, zip))
        /\ letter.body = [Packed(input, zip) EXCEPT !.key = letter.key]
    BY <1>1, <1>2, <1>3, <1>5, <1>8, <2>1 DEF Encrypt, Err, Ok
  <2>3. letter.body \in Bytes /\ letter.body.key = letter.key
    BY <1>6, <2>2 DEF Bytes
  <2>4. [letter.body EXCEPT !.key = None] = Packed(input, zip)
    <3>1. PICK d \in Bytes : d = Packed(input, zip) /\ d.key = None
      BY <1>6
    <3>2. [[d EXCEPT !.key = letter.key] EXCEPT !.key = None] = d
      BY <3>1 DEF Bytes
    <3>. QED
      BY <2>2, <3>1, <3>2
  <2>. QED
    BY <2>2, <2>3, <2>4 DEF Openable
<1>. QED
  BY <1>7, <1>8

\* A read by the reader keeps its invariant.
LEMMA ReadStep ==
    ASSUME ConfigOK, readerCompression \in Compressions, BufferInv, Read
    PROVE  BufferInv'
<1>. DEFINE read == ReadPayload(buffer, readerCompression, encryption)
<1>1. received # None /\ Openable(received) /\ result \in {"none", "err"}
  BY DEF BufferInv, Read
<1>2. buffer' = read.data /\ result' = IF read.err THEN "err" ELSE "ok"
  BY DEF Read
<1>3. UNCHANGED <<encryption, readerCompression, received>>
  BY DEF Read
<1>4. Openable(received)' /\ Own(received)' = Own(received)
  BY <1>1, <1>3 DEF Openable, Own
<1>. SUFFICES \/ ~read.err /\ Own(received) = Ok(read.data)
              \/ read.err /\ (read.data = received.body
                              \/ (Own(received).err /\ Wrecked(read.data)))
  BY <1>2, <1>3, <1>4 DEF BufferInv, Wrecked
<1>5. CASE Own(received).err /\ Wrecked(buffer)
  BY <1>5, WreckedStays
<1>6. CASE /\ buffer = received.body /\ encryption.enabled
           /\ buffer.key = None \/ encryption.hashkey # received.key
  <2>1. Decrypt(encryption.hashkey, buffer) = Err(buffer)
    BY <1>1, <1>6 DEF Openable, Decrypt
  <2>2. read = Err(buffer)
    BY <1>6, <2>1 DEF ReadPayload, Err
  <2>. QED
    BY <1>6, <2>2 DEF Err
<1>7. CASE /\ buffer = received.body
           /\ ~encryption.enabled \/ (buffer.key # None /\ encryption.hashkey = received.key)
  <2>. DEFINE e == [encryption EXCEPT !.hashkey = received.key]
  <2>1. e.enabled = encryption.enabled /\ e.hashkey = received.key
    BY DEF ConfigOK, Encryptions
  <2>2. encryption.enabled => e = encryption
    BY <1>7 DEF ConfigOK, Encryptions
  <2>3. read = Own(received)
    <3>. HIDE DEF e
    <3>1. read = ReadPayload(buffer, readerCompression, e)
      BY <2>1, <2>2 DEF ReadPayload
    <3>. QED
      BY <1>7, <3>1 DEF Own, e
  <2>4. encryption.enabled => /\ buffer.key = encryption.hashkey /\ buffer.key # None
                              /\ ~IsEmpty([buffer EXCEPT !.key = None])
    BY <1>1, <1>7, KeysAssumption DEF Openable
  <2>5. buffer \in Bytes
    BY <1>1, <1>7 DEF Openable
  <2>6. \/ ~read.err /\ read = Ok(read.data)
        \/ read.err /\ (read.data = buffer \/ Wrecked(read.data))
    BY <2>4, <2>5, OwnRead DEF ConfigOK
  <2>. QED
    BY <1>7, <2>3, <2>6
<1>. QED
  BY <1>1, <1>5, <1>6, <1>7 DEF BufferInv

\* Every other step leaves the reader alone, hands it a letter, or replaces the
\* services' key, which its letter's own key does not depend on.
LEMMA BufferStep ==
    ASSUME LetterSealed, readerCompression \in Compressions, BufferInv, [Next]_vars
    PROVE  BufferInv' /\ readerCompression' \in Compressions
<1>1. ASSUME NEW passphrase, NEW salt, NewRabbitService(passphrase, salt)
      PROVE  BufferInv' /\ readerCompression' = readerCompression
  <2>1. UNCHANGED <<readerCompression, received, buffer, result>>
    BY <1>1 DEF NewRabbitService
  <2>2. /\ encryption'.enabled = encryption.enabled
        /\ \A key : [encryption' EXCEPT !.hashkey = key] = [encryption EXCEPT !.hashkey = key]
    BY <1>1 DEF NewRabbitService, LetterSealed, ConfigOK, Encryptions
  <2>3. Own(received)' = Own(received) /\ (Openable(received) => Openable(received)')
    BY <2>1, <2>2 DEF Own, Openable
  <2>. QED
    BY <2>1, <2>3 DEF BufferInv, Wrecked
<1>2. CASE Receive
  <2>1. Openable(letter)
    BY <1>2, LetterOpenable DEF Receive
  <2>2. Openable(received)'
    BY <1>2, <2>1 DEF Receive, Openable
  <2>. QED
    BY <1>2, <2>2 DEF Receive, BufferInv
<1>3. CASE Read
  BY <1>3, ReadStep DEF LetterSealed, Read
<1>4. CASE \/ \E input \in Inputs, addressed \in BOOLEAN : Publish(input, addressed)
           \/ \E input \in Inputs, opts \in LetterOpts : PublishLetter(input, opts)
           \/ Shutdown \/ UNCHANGED vars
  <2>1. UNCHANGED <<encryption, readerCompression, received, buffer, result>>
    BY <1>4 DEF Publish, PublishLetter, Shutdown, vars
  <2>. QED
    BY <2>1 DEF BufferInv, Openable, Own, Wrecked
<1>. QED
  BY <1>1, <1>2, <1>3, <1>4 DEF Next

\* However often a buffer is read, with whatever keys the services come to
\* have: a success yields what the letter's own key yields, and a failure
\* leaves the buffer as received unless the reader could never read it.
THEOREM RereadingIsSafe == Spec => []RereadIsSafe
<1>. DEFINE RInv == LetterSealed /\ readerCompression \in Compressions /\ BufferInv
<1>1. Init => RInv
  BY DEF Init, LetterSealed, ConfigOK, BufferInv
<1>2. RInv /\ [Next]_vars => RInv'
  BY LetterSealedStep, BufferStep
<1>3. RInv => RereadIsSafe
  BY DEF BufferInv, Own, RereadIsSafe
<1>. QED
  BY <1>1, <1>2, <1>3, PTL DEF Spec
=============================================================================
