------------------------------- MODULE Payload -------------------------------
(***************************************************************************)
(* Payloads: ToPayload and ReadPayload (json.go) over compression.go and   *)
(* crypto.go, the letters NewLetter makes of them (message.go) for the     *)
(* service or for its callers, and the services that publish them with one *)
(* shared RabbitSeasoning, whose Hashkey every new service may overwrite   *)
(* (rabbitservice.go).                                                     *)
(*                                                                         *)
(* Bytes are the text they were made from and what was done to it: whether *)
(* it was marshalled, how it is compressed, which key it is sealed with.   *)
(* No text is itself the output of a compressor or of the cipher.          *)
(***************************************************************************)
EXTENDS Naturals

CONSTANTS Texts, Empty,       \* byte strings, and the empty one
          Passphrases, Salts, \* the non-empty ones
          None,               \* nil, or the empty string
          Short,              \* a hash key of a length AES does not have
          MaxCost             \* bound: TimeConsideration (Threads is treated alike)

ASSUME CostAssumption == MaxCost \in Nat \ {0}

ASSUME DistinctAssumption ==
    /\ Empty \notin Texts
    /\ None # Short
    /\ None \notin Passphrases \cup Salts

Keys == [pass : Passphrases, salt : Salts, cost : 1 .. MaxCost]

ASSUME KeysAssumption == None \notin Keys /\ Short \notin Keys

Zips == {"none", "gzip", "zstd", "damaged"}
Compressions == [enabled : BOOLEAN, type : {"gzip", "zstd", "other"}]
Encryptions == [enabled : BOOLEAN, hashkey : Keys \cup {None, Short}, cost : 0 .. MaxCost]

\* What is published: bytes, a value that json can marshal, one it cannot.
Inputs == [kind : {"bytes"}, text : Texts \cup {Empty}] \cup [kind : {"value", "opaque"}, text : Texts]

Raw(input) == [text |-> input.text, json |-> input.kind = "value", zip |-> "none", key |-> None]
IsEmpty(d) == d.text = Empty /\ d.zip = "none" /\ d.key = None

Ok(d) == [err |-> FALSE, data |-> d]
Err(d) == [err |-> TRUE, data |-> d]

-----------------------------------------------------------------------------
(* compression.go                                                          *)

\* The type switch: everything but zstd is gzip.
Algorithm(type) == IF type = "zstd" THEN "zstd" ELSE "gzip"

\* The zstd writer writes no frame for no data, gzip writes its header.
Compress(type, d) ==
    IF IsEmpty(d) /\ Algorithm(type) = "zstd" THEN d ELSE [d EXCEPT !.zip = Algorithm(type)]

\* A reader that fails has taken the head of what was in the buffer (gzip
\* always, zstd from a large buffer): the rest is no use to anyone.
Damaged(d) == IF IsEmpty(d) THEN d ELSE [d EXCEPT !.zip = "damaged", !.key = None]

\* The readers reject what their writer did not write.
Decompress(type, d) ==
    IF IsEmpty(d) /\ Algorithm(type) = "zstd" THEN Ok(d)
    ELSE IF d.key = None /\ d.zip = Algorithm(type) THEN Ok([d EXCEPT !.zip = "none"])
    ELSE Err(Damaged(d))

-----------------------------------------------------------------------------
(* crypto.go                                                               *)

\* A zero time or number of threads counts as one.
GetHashWithArgon(passphrase, salt, cost) ==
    IF None \in {passphrase, salt} THEN None
    ELSE [pass |-> passphrase, salt |-> salt, cost |-> IF cost = 0 THEN 1 ELSE cost]

EncryptNothingWithoutKey(key, d) ==
    IF IsEmpty(d) \/ key \in {None, Short} THEN Ok(d) ELSE Ok([d EXCEPT !.key = key])

\* encryptWithAes
Encrypt(key, d) ==
    IF IsEmpty(d) \/ key \in {None, Short} THEN Err(d) ELSE Ok([d EXCEPT !.key = key])

DecryptClobbers(key, d) ==
    IF d.key # None /\ d.key = key THEN Ok([d EXCEPT !.key = None])
    ELSE Err([d EXCEPT !.text = Empty, !.zip = "none", !.key = None])

\* decryptWithAes: GCM authenticates, so only the sealing key opens.
Decrypt(key, d) ==
    IF d.key # None /\ d.key = key THEN Ok([d EXCEPT !.key = None]) ELSE Err(d)

-----------------------------------------------------------------------------
(* json.go                                                                 *)

\* Marshal, compress, encrypt.
ToPayload(input, compression, encryption) ==
    LET plain == Raw(input)
        packed == IF compression.enabled THEN Compress(compression.type, plain) ELSE plain
    IN  IF input.kind = "opaque" THEN Err(plain)
        ELSE IF encryption.enabled THEN Encrypt(encryption.hashkey, packed)
        ELSE Ok(packed)

ReadPayloadUnpacksFirst(d, compression, encryption) ==
    LET unpacked == IF compression.enabled THEN Decompress(compression.type, d) ELSE Ok(d)
    IN  IF unpacked.err \/ ~encryption.enabled THEN unpacked
        ELSE Decrypt(encryption.hashkey, unpacked.data)

\* Decrypt in place, then decompress in place.
ReadPayload(d, compression, encryption) ==
    LET opened == IF encryption.enabled THEN Decrypt(encryption.hashkey, d) ELSE Ok(d)
    IN  IF opened.err \/ ~compression.enabled THEN opened
        ELSE Decompress(compression.type, opened.data)

-----------------------------------------------------------------------------
(* Services that share a config, and a reader with a config of its own but *)
(* for the keys                                                            *)

VARIABLES
    compression, encryption, \* the shared config
    readerCompression,       \* the reader's CompressionConfig
    shutdown,                \* rs.shutdown
    letter,                  \* the last letter published, or None
    received,                \* the letter whose body the reader has, or None
    buffer,                  \* the reader's buffer
    result                   \* of the reader's ReadPayload: "none", "ok" or "err"

vars == <<compression, encryption, readerCompression, shutdown, letter, received, buffer, result>>

Init ==
    /\ compression \in Compressions /\ readerCompression \in Compressions
    /\ encryption \in {e \in Encryptions : e.hashkey \in {None, Short}}
    /\ shutdown = FALSE
    /\ letter = None /\ received = None /\ buffer = None
    /\ result = "none"

\* NewRabbitServiceWithPublisher: a further service on the shared config.
NewRabbitService(passphrase, salt) ==
    /\ encryption' =
         IF encryption.enabled /\ None \notin {passphrase, salt}
           THEN [encryption EXCEPT
                   !.hashkey = GetHashWithArgon(passphrase, salt, encryption.cost)]
           ELSE encryption
    /\ UNCHANGED <<compression, readerCompression, shutdown, letter, received, buffer, result>>

\* A letter's options carry the shared configs or leave CConf and EConf nil,
\* which is their default.
LetterOpts == [CConf : BOOLEAN, EConf : BOOLEAN]
CConf(opts) == IF opts.CConf THEN compression ELSE [compression EXCEPT !.enabled = FALSE]
EConf(opts) == IF opts.EConf THEN encryption ELSE [encryption EXCEPT !.enabled = FALSE]

\* NewLetter makes a letter of the input, which is published.
NewLetter(input, opts, by) ==
    LET payload == ToPayload(input, CConf(opts), EConf(opts))
    IN  /\ ~payload.err
        /\ letter' = [plain |-> Raw(input), body |-> payload.data, key |-> encryption.hashkey,
                      opts |-> opts, by |-> by]

\* Publish, PublishWithConfirmation or PublishData: the service makes the
\* letter.
Publish(input, addressed) ==
    /\ ~shutdown /\ addressed
    /\ NewLetter(input, [CConf |-> TRUE, EConf |-> TRUE], "service")
    /\ UNCHANGED <<compression, encryption, readerCompression, shutdown, received, buffer, result>>

\* PublishLetter or QueueLetter: the caller has made the letter, with options
\* of its own, and the body goes out as it is. (A letter made before a key was
\* replaced and published after it is the letter published before.)
PublishLetter(input, opts) ==
    /\ ~shutdown
    /\ NewLetter(input, opts, "caller")
    /\ UNCHANGED <<compression, encryption, readerCompression, shutdown, received, buffer, result>>

Shutdown ==
    /\ ~shutdown
    /\ shutdown' = TRUE
    /\ UNCHANGED <<compression, encryption, readerCompression, letter, received, buffer, result>>

\* The reader receives the letter, and reads its body with the current key.
Receive ==
    /\ letter # None
    /\ received' = letter /\ buffer' = letter.body /\ result' = "none"
    /\ UNCHANGED <<compression, encryption, readerCompression, shutdown, letter>>

Read ==
    /\ received # None /\ result # "ok"
    /\ LET read == ReadPayload(buffer, readerCompression, encryption)
       IN  buffer' = read.data /\ result' = IF read.err THEN "err" ELSE "ok"
    /\ UNCHANGED <<compression, encryption, readerCompression, shutdown, letter, received>>

Next ==
    \/ \E passphrase \in Passphrases \cup {None}, salt \in Salts \cup {None} :
         NewRabbitService(passphrase, salt)
    \/ \E input \in Inputs, addressed \in BOOLEAN : Publish(input, addressed)
    \/ \E input \in Inputs, opts \in LetterOpts : PublishLetter(input, opts)
    \/ Shutdown \/ Receive \/ Read

Spec == Init /\ [][Next]_vars

-----------------------------------------------------------------------------
(* Properties                                                              *)

\* A reader with the letter's options reads every letter back as it was given
\* to the publisher, or, if the services' key has been replaced since, is
\* refused: it never takes other bytes for the message.
RoundTrip ==
    letter # None =>
      LET conf == EConf(letter.opts)
          read == ReadPayload(letter.body, CConf(letter.opts), conf)
      IN  IF conf.enabled /\ conf.hashkey # letter.key
            THEN read.err
            ELSE read = Ok(letter.plain)

\* With encryption enabled, every letter the service makes and every letter a
\* caller makes with the service's EncryptionConfig is sealed, whatever keys
\* the services were or were not given, the empty body and the bad key
\* included. A caller's letter without it (the default) goes out in clear.
ConfiguredLettersSealed ==
    letter # None /\ encryption.enabled /\ (letter.by = "service" \/ letter.opts.EConf)
        => letter.body.key \in Keys

\* A reader may read a buffer again after a failure, with the key of a newer
\* service: if it succeeds it has what the letter's own key yields, and if it
\* fails the buffer is as it was received, unless the message is unreadable
\* for this reader anyway.
RereadIsSafe ==
    received # None =>
      LET own == ReadPayload(received.body, readerCompression,
                             [encryption EXCEPT !.hashkey = received.key])
      IN  /\ result = "ok" => own = Ok(buffer)
          /\ result = "err" => buffer = received.body \/ own.err
=============================================================================
