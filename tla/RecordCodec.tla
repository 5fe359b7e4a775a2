---------------------------- MODULE RecordCodec ----------------------------
(***************************************************************************)
(* The records as bytes.  Anchor loads an account of the program by its    *)
(* owner alone (the wrappers implement only try_deserialize_unchecked),    *)
(* Borsh decodes a prefix of the data, the instruction changes fields, and *)
(* the encoding of the result is written over the start of the data, where *)
(* a shorter encoding leaves the end of a longer one behind it.            *)
(*                                                                         *)
(* One realm, one mint, one voter.  A key, a number or a discriminator is  *)
(* modelled by the one byte that all of its bytes repeat, so that a read   *)
(* that strays from its field meets another byte: a key's may be 0 or 1,   *)
(* and is then a tag to code that takes it for one.  Offsets count from 0, *)
(* as in the source.                                                       *)
(***************************************************************************)
EXTENDS Integers, Sequences, SequencesExt

CONSTANTS
    GovernanceProgram, Realm, Mint,     \* the keys' bytes
    Owner,              \* bytes of the keys the voter may have
    Target,             \* bytes of the keys an action may be aimed at
    Number,             \* slots and weights
    VoterTag, MaxTag, RegistrarTag,     \* bytes of the account discriminators
    None

Byte == 0 .. 255

\* The addin API's MaxVoterWeightRecord.
MaxFields == [account_discriminator : Byte,
              realm : Byte,
              governing_token_mint : Byte,
              max_voter_weight : Byte,
              max_voter_weight_expiry : Byte \union {None},
              reserved : Byte]

\* Any bytes.  The realm is an account of the governance program, not the program.
ASSUME ByteAssumption ==
    /\ {GovernanceProgram, Realm, Mint, VoterTag, MaxTag, RegistrarTag} \subseteq Byte
    /\ Owner \union Target \union Number \subseteq Byte
    /\ Realm # GovernanceProgram
    /\ None \notin Int \union MaxFields

VARIABLES
    owner,      \* byte of the voter's key
    data,       \* bytes of each account, <<>> where there is none
    written,    \* the last record of each type written to each account, or None
    outcome     \* result of the last instruction

codecVars == <<owner, data, written, outcome>>

\* The program's accounts of this realm and mint, and the types of its records.
Account == {"registrar", "voter", "max"}

Type == {"voter", "max"}

-----------------------------------------------------------------------------
(***************************************************************************)
(* Borsh.  A layout is the sequence of a type's fields.                    *)
(***************************************************************************)
Plain(name, size) == [name |-> name, size |-> size, optional |-> FALSE, values |-> Byte]

Optional(name, size, values) ==
    [name |-> name, size |-> size, optional |-> TRUE, values |-> values]

Repeat(byte, n) == [i \in 1 .. n |-> byte]

FieldBytes(field, value) ==
    IF ~field.optional THEN Repeat(value, field.size)
    ELSE IF value = None THEN <<0>>
    ELSE <<1>> \o Repeat(value, field.size)

Encode(layout, record) ==
    FlattenSeq([i \in DOMAIN layout |-> FieldBytes(layout[i], record[layout[i].name])])

\* -1 past the end of the data.
ByteAt(buf, offset) == IF offset < Len(buf) THEN buf[offset + 1] ELSE -1

\* A value of n bytes, -1 when they are not those of one value.
ValueAt(buf, offset, n) ==
    IF \A i \in 1 .. n - 1 : ByteAt(buf, offset + i) = ByteAt(buf, offset)
      THEN ByteAt(buf, offset) ELSE -1

OptionAt(buf, offset, n) ==
    IF ByteAt(buf, offset) = 1 THEN ValueAt(buf, offset + 1, n) ELSE None

FieldAt(field, buf, offset) ==
    IF field.optional THEN OptionAt(buf, offset, field.size)
    ELSE ValueAt(buf, offset, field.size)

\* How many bytes a field takes when it is read.
Span(field, buf, offset) ==
    IF ~field.optional THEN field.size
    ELSE IF ByteAt(buf, offset) = 1 THEN 1 + field.size ELSE 1

\* Where each field starts when the data is read, and where the last one ends.
Offsets(layout, buf) ==
    LET start[i \in 1 .. Len(layout) + 1] ==
            IF i = 1 THEN 0
            ELSE start[i - 1] + Span(layout[i - 1], buf, start[i - 1])
    IN  start

\* The record in a prefix of the data, or None: a tag is neither 0 nor 1, a value
\* is none of its type's, or the data ends first.
Decode(layout, buf) ==
    LET start == Offsets(layout, buf)
        value(i) == FieldAt(layout[i], buf, start[i])
        index(name) == CHOOSE i \in DOMAIN layout : layout[i].name = name
    IN  IF /\ start[Len(layout) + 1] <= Len(buf)
           /\ \A i \in DOMAIN layout :
                 layout[i].optional => /\ ByteAt(buf, start[i]) \in {0, 1}
                                       /\ value(i) \in layout[i].values \union {None, -1}
          THEN [name \in {layout[i].name : i \in DOMAIN layout} |-> value(index(name))]
          ELSE None

-----------------------------------------------------------------------------
\* Mutant: the tag of the optional expiry is forgotten.
VoterSpace_short == 8 + 32 + 32 + 32 + 8 + 8 + 2 + 33 + 8

\* VoterWeightRecord::get_space, MaxVoterWeightRecord::get_space
VoterSpace == 8 + 32 + 32 + 32 + 8 + 9 + 2 + 33 + 8

MaxSpace == 8 + 32 + 32 + 8 + 9 + 8

\* The addin API's records.
VoterLayout == <<Plain("account_discriminator", 8), Plain("realm", 32),
                 Plain("governing_token_mint", 32), Plain("governing_token_owner", 32),
                 Plain("voter_weight", 8), Optional("voter_weight_expiry", 8, Byte),
                 Optional("weight_action", 1, 0 .. 4),
                 Optional("weight_action_target", 32, Byte), Plain("reserved", 8)>>

MaxLayout == <<Plain("account_discriminator", 8), Plain("realm", 32),
               Plain("governing_token_mint", 32), Plain("max_voter_weight", 8),
               Optional("max_voter_weight_expiry", 8, Byte), Plain("reserved", 8)>>

\* Registrar, and its LEN.
RegistrarLayout == <<Plain("discriminator", 8), Plain("governance_program_id", 32),
                     Plain("realm", 32), Plain("governing_token_mint", 32),
                     Plain("min_trust_score", 2), Plain("max_verification_age", 8),
                     Plain("reserved", 64)>>

\* The wrappers: try_deserialize_unchecked and try_serialize.
VoterRecord(buf) == Decode(VoterLayout, buf)

\* Mutant: the discriminator is put in front, as Anchor's #[account] does.
VoterBytes_prefixed(record) == Repeat(VoterTag, 8) \o Encode(VoterLayout, record)

VoterBytes(record) == Encode(VoterLayout, record)

MaxRecord(buf) == Decode(MaxLayout, buf)

MaxBytes(record) == Encode(MaxLayout, record)

-----------------------------------------------------------------------------
\* The end of an instruction that changes `account` as a record of the type: the
\* encoding goes over the start of the data, or does not fit and the transaction
\* fails.
Save(type, account, buf, bytes, record) ==
    /\ UNCHANGED owner
    /\ IF Len(bytes) > Len(buf)
         THEN outcome' = "AccountDidNotSerialize" /\ UNCHANGED <<data, written>>
         ELSE /\ outcome' = "Ok"
              /\ data' = [data EXCEPT ![account] =
                             bytes \o SubSeq(buf, Len(bytes) + 1, Len(buf))]
              /\ written' = [written EXCEPT ![type][account] = record]

\* init: the new account is all zeroes, and is decoded before the fields are set.
create_voter_weight_record ==
    LET zeroes == Repeat(0, VoterSpace)
        record == [VoterRecord(zeroes) EXCEPT !.account_discriminator = VoterTag,
                                              !.realm = Realm,
                                              !.governing_token_mint = Mint,
                                              !.governing_token_owner = owner,
                                              !.voter_weight = 0,
                                              !.voter_weight_expiry = 0,
                                              !.weight_action = None,
                                              !.weight_action_target = None]
    IN  /\ data["voter"] = <<>>
        /\ Save("voter", "voter", zeroes, VoterBytes(record), record)

\* Mutant: a weight without an end, as a max voter weight record has one.
Renew_unexpiring(record, expiry, action, target) ==
    [record EXCEPT !.voter_weight = 1, !.voter_weight_expiry = None,
                   !.weight_action = action, !.weight_action_target = target]

Renew(record, expiry, action, target) ==
    [record EXCEPT !.voter_weight = 1, !.voter_weight_expiry = expiry,
                   !.weight_action = action, !.weight_action_target = target]

\* The account loads, and it is the registrar's and the voter's.
IsVoterRecord(record) == /\ record # None
                         /\ record.realm = Realm
                         /\ record.governing_token_mint = Mint
                         /\ record.governing_token_owner = owner

\* Either update, of whichever account the caller names.
update(account, expiry, action, target) ==
    LET renewed == Renew(VoterRecord(data[account]), expiry, action, target)
    IN  /\ IsVoterRecord(VoterRecord(data[account]))
        /\ Save("voter", account, data[account], VoterBytes(renewed), renewed)

\* The account's data is gone, and a later create starts from zeroes.
close_voter_weight_record(account) ==
    /\ IsVoterRecord(VoterRecord(data[account]))
    /\ data' = [data EXCEPT ![account] = <<>>]
    /\ written' = [type \in Type |-> [written[type] EXCEPT ![account] = None]]
    /\ outcome' = "Ok"
    /\ UNCHANGED owner

create_max_voter_weight_record ==
    LET zeroes == Repeat(0, MaxSpace)
        record == [MaxRecord(zeroes) EXCEPT !.account_discriminator = MaxTag,
                                            !.realm = Realm,
                                            !.governing_token_mint = Mint,
                                            !.max_voter_weight = 0,
                                            !.max_voter_weight_expiry = 0]
    IN  /\ data["max"] = <<>>
        /\ Save("max", "max", zeroes, MaxBytes(record), record)

\* The signer is the realm's authority.  Nothing looks at the address or at the
\* discriminator of the account it names.
update_max_voter_weight_record(account, max_voter_weight) ==
    LET record == MaxRecord(data[account])
        set == [record EXCEPT !.max_voter_weight = max_voter_weight,
                              !.max_voter_weight_expiry = None]
    IN  /\ record # None
        /\ record.realm = Realm
        /\ record.governing_token_mint = Mint
        /\ max_voter_weight > 0
        /\ Save("max", account, data[account], MaxBytes(set), set)

-----------------------------------------------------------------------------
CodecInit ==
    /\ owner \in Owner
    /\ \E score \in Number, age \in Number \ {0} :
          data = [registrar |-> Encode(RegistrarLayout,
                                    [discriminator |-> RegistrarTag,
                                     governance_program_id |-> GovernanceProgram,
                                     realm |-> Realm,
                                     governing_token_mint |-> Mint,
                                     min_trust_score |-> score,
                                     max_verification_age |-> age,
                                     reserved |-> 0]),
                  voter |-> <<>>,
                  max |-> <<>>]
    /\ written = [type \in Type |-> [a \in Account |-> None]]
    /\ outcome = "Ok"

CodecNext ==
    \/ create_voter_weight_record
    \/ create_max_voter_weight_record
    \/ \E account \in Account, n \in Number :
          \/ update(account, n, None, None)
          \/ \E action \in 0 .. 4, target \in Target : update(account, n, action, target)
          \/ update_max_voter_weight_record(account, n)
    \/ \E account \in Account : close_voter_weight_record(account)

CodecSpec == CodecInit /\ [][CodecNext]_codecVars

-----------------------------------------------------------------------------
\* What the README says of the records ("Voter closes their record", "DAO admin sets
\* the max voter weight") takes it that an account reads back as the record last
\* written to it by the instructions of its own type.  The code does not keep this:
\* nothing looks at the discriminator on the way in, and a voter whose key has a 0 or
\* a 1 where a max voter weight record has the tag of its expiry has a voter weight
\* record that update_max_voter_weight_record takes for one, and writes over the owner.
ReadsBack ==
    /\ data["voter"] # <<>> => VoterRecord(data["voter"]) = written["voter"]["voter"]
    /\ data["max"] # <<>> => MaxRecord(data["max"]) = written["max"]["max"]

\* What is kept, whatever sequence of instructions wrote the accounts and whatever
\* bytes they left behind.  An account reads back as the record last written to it;
\* only one of this voter's records written as a max record too reads back as both,
\* its owner lost, and only if the voter's key reads as a tag.  No instruction
\* writes to the registrar, or takes a max voter weight record for a voter's.
ReadsBackUnlessTag ==
    /\ \A type \in Type : written[type]["registrar"] = None
    /\ written["voter"]["max"] = None
    /\ data["max"] # <<>> => MaxRecord(data["max"]) = written["max"]["max"]
    /\ LET record == written["voter"]["voter"]
           set == written["max"]["voter"]
       IN  data["voter"] # <<>> =>
             IF set = None
               THEN VoterRecord(data["voter"]) = record
               ELSE /\ owner \in {0, 1}
                    /\ MaxRecord(data["voter"]) = set
                    /\ VoterRecord(data["voter"]) =
                         [record EXCEPT !.governing_token_owner = -1]

\* The space an account was created with is enough for every record an update can
\* write to it: no instruction ever fails because a record has grown.
AlwaysFits == outcome # "AccountDidNotSerialize"

\* Clients read the records at fixed offsets, though Borsh fixes none after an
\* option: owner at 72, weight at 104, expiry at 112, then an action at 121 and a
\* target after it; for the max record 72 and 80.  They see the record that was
\* written, but for the owner of one that was written as a max record too.
ClientOffsets ==
    /\ LET buf == data["voter"]
           record == written["voter"]["voter"]
       IN  buf # <<>> =>
             /\ ValueAt(buf, 8, 32) = Realm
             /\ written["max"]["voter"] = None => ValueAt(buf, 72, 32) = owner
             /\ ValueAt(buf, 104, 8) = record.voter_weight
             /\ OptionAt(buf, 112, 8) = record.voter_weight_expiry
             /\ OptionAt(buf, 121, 1) = record.weight_action
             /\ OptionAt(buf, IF record.weight_action = None THEN 122 ELSE 123, 32)
                  = record.weight_action_target
    /\ LET buf == data["max"]
           record == written["max"]["max"]
       IN  buf # <<>> =>
             /\ ValueAt(buf, 72, 8) = record.max_voter_weight
             /\ OptionAt(buf, 80, 8) = record.max_voter_weight_expiry
=============================================================================
