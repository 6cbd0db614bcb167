----------------------------- MODULE BeaconTypes ----------------------------
(***************************************************************************)
(* The types of the beacon chain, as the thirteen headers declare them.    *)
(*                                                                         *)
(* A container is its base class and its members, each with the name that  *)
(* YAML_CONT gives it, in the order of SSZ_CONT, which is also the order   *)
(* of YAML_CONT.  All limits of lists are powers of two, up to 2^40: here  *)
(* they are their exponents.  Lengths of arrays and bitsets are themselves.*)
(***************************************************************************)
EXTENDS Integers, Sequences

Basic(sizeof)      == [kind |-> "basic", sizeof |-> sizeof]
Array(type, n)     == [kind |-> "array", of |-> type, n |-> n]
List(type, limit)  == [kind |-> "list", of |-> type, limit |-> limit]
Bitlist(limit)     == [kind |-> "bitlist", limit |-> limit]
Bitset(n)          == [kind |-> "bitset", n |-> n]

(* The base class, which tells the library whether the size is fixed.      *)
ssz_container(members) ==
    [kind |-> "container", variable |-> FALSE, members |-> members]
ssz_variable_size_container(members) ==
    [kind |-> "container", variable |-> TRUE, members |-> members]

-----------------------------------------------------------------------------
(* beaconchain.hpp, and the aliases of other headers.                      *)
bool    == Basic(1)
byte    == Basic(1)
uint64  == Basic(8)
uint256 == Basic(32)

Slot == uint64
Epoch == uint64
ValidatorIndex == uint64
Gwei == uint64
Root == Array(byte, 32)
blob_kzg_commitments_t == Array(byte, 48)
signature_t == Array(byte, 96)
bls_pubkey_t == Array(byte, 48)
execution_address_t == Array(byte, 20)
version_t == Array(byte, 4)
WithdrawalIndex == uint64
participation_flags_t == Basic(1)

(* Limits of lists, as powers of two.                                      *)
MAX_ATTESTATIONS == 7
MAX_VALIDATORS_PER_COMMITEE == 11
MAX_ATTESTER_SLASHINGS == 1
MAX_PROPOSER_SLASHINGS == 4
MAX_BLS_TO_EXECUTION_CHANGES == 4
MAX_BLOB_COMMITMENTS_PER_BLOCK == 12
MAX_DEPOSITS == 4
MAX_VOLUNTARY_EXITS == 4
MAX_BYTES_PER_TRANSACTION == 30
MAX_TRANSACTIONS_PER_PAYLOAD == 20
MAX_EXTRA_DATA_BYTES == 5
MAX_WITHDRAWALS_PER_PAYLOAD == 4
HISTORICAL_ROOTS_LIMIT == 24
VALIDATOR_REGISTRY_LIMIT == 40
ETH1_DATA_VOTES == 6 + 5    \* EPOCHS_PER_ETH1_VOTING_PERIOD * SLOTS_PER_EPOCH

(* Lengths of arrays and bitsets.                                          *)
DEPOSIT_CONTRACT_TREE_DEPTH == 32
SYNC_COMMITTEE_SIZE == 512
BYTES_PER_LOGS_BLOOM == 256
SLOTS_PER_HISTORICAL_ROOT == 8192
EPOCHS_PER_SLASHINGS_VECTOR == 8192
EPOCHS_PER_HISTORICAL_VECTOR == 2 ^ 16
JUSTIFICATION_BITS_LENGTH == 4

-----------------------------------------------------------------------------
(* Containers of one header after the other.                               *)

checkpoint_t == ssz_container(<<
    <<"epoch", Epoch>>, <<"root", Root>>>>)

fork_t == ssz_container(<<
    <<"previous_version", version_t>>, <<"current_version", version_t>>,
    <<"epoch", Epoch>>>>)

historical_summary_t == ssz_container(<<
    <<"block_summary_root", Root>>, <<"state_summary_root", Root>>>>)

validator_t == ssz_container(<<
    <<"pubkey", bls_pubkey_t>>, <<"withdrawal_credentials", Root>>,
    <<"effective_balance", Gwei>>, <<"slashed", bool>>,
    <<"activation_eligibility_epoch", Epoch>>, <<"activation_epoch", Epoch>>,
    <<"exit_epoch", Epoch>>, <<"withdrawable_epoch", Epoch>>>>)

sync_aggregate_t == ssz_container(<<
    <<"sync_committee_bits", Bitset(SYNC_COMMITTEE_SIZE)>>,
    <<"sync_committee_signature", signature_t>>>>)

sync_committee_t == ssz_container(<<
    <<"pubkeys", Array(bls_pubkey_t, SYNC_COMMITTEE_SIZE)>>,
    <<"aggregate_pubkey", bls_pubkey_t>>>>)

voluntary_exit_t == ssz_container(<<
    <<"epoch", Epoch>>, <<"validator_index", ValidatorIndex>>>>)

signed_voluntary_exit_t == ssz_container(<<
    <<"message", voluntary_exit_t>>, <<"signature", signature_t>>>>)

deposit_data_t == ssz_container(<<
    <<"pubkey", bls_pubkey_t>>, <<"withdrawal_credentials", Root>>,
    <<"amount", uint64>>, <<"signature", signature_t>>>>)

deposit_message_t == ssz_container(<<
    <<"pubkey", bls_pubkey_t>>, <<"withdrawal_credentials", Root>>,
    <<"amount", uint64>>>>)

deposit_t == ssz_container(<<
    <<"proof", Array(Root, DEPOSIT_CONTRACT_TREE_DEPTH + 1)>>,
    <<"data", deposit_data_t>>>>)

bls_to_execution_change_t == ssz_container(<<
    <<"validator_index", ValidatorIndex>>, <<"from_bls_pubkey", bls_pubkey_t>>,
    <<"to_execution_address", execution_address_t>>>>)

signed_bls_to_execution_change_t == ssz_container(<<
    <<"message", bls_to_execution_change_t>>, <<"signature", signature_t>>>>)

withdrawal_t == ssz_container(<<
    <<"index", WithdrawalIndex>>, <<"validator_index", ValidatorIndex>>,
    <<"address", execution_address_t>>, <<"amount", Gwei>>>>)

attestation_data_t == ssz_container(<<
    <<"slot", Slot>>, <<"index", ValidatorIndex>>,
    <<"beacon_block_root", Root>>, <<"source", checkpoint_t>>,
    <<"target", checkpoint_t>>>>)

attestation_t == ssz_variable_size_container(<<
    <<"aggregation_bits", Bitlist(MAX_VALIDATORS_PER_COMMITEE)>>,
    <<"data", attestation_data_t>>, <<"signature", signature_t>>>>)

indexed_attestation_t == ssz_variable_size_container(<<
    <<"attesting_indices", List(ValidatorIndex, MAX_VALIDATORS_PER_COMMITEE)>>,
    <<"data", attestation_data_t>>, <<"signature", signature_t>>>>)

aggregate_and_proof_t == ssz_variable_size_container(<<
    <<"aggregator_index", ValidatorIndex>>, <<"aggregate", attestation_t>>,
    <<"selection_proof", signature_t>>>>)

signed_aggregate_and_proof_t == ssz_variable_size_container(<<
    <<"message", aggregate_and_proof_t>>, <<"signature", signature_t>>>>)

transaction_t == List(byte, MAX_BYTES_PER_TRANSACTION)

execution_payload_t == ssz_variable_size_container(<<
    <<"parent_hash", Root>>, <<"fee_recipient", execution_address_t>>,
    <<"state_root", Root>>, <<"receipts_root", Root>>,
    <<"logs_bloom", Array(byte, BYTES_PER_LOGS_BLOOM)>>,
    <<"prev_randao", Root>>, <<"block_number", uint64>>,
    <<"gas_limit", uint64>>, <<"gas_used", uint64>>, <<"timestamp", uint64>>,
    <<"extra_data", List(byte, MAX_EXTRA_DATA_BYTES)>>,
    <<"base_fee_per_gas", uint256>>, <<"block_hash", Root>>,
    <<"transactions", List(transaction_t, MAX_TRANSACTIONS_PER_PAYLOAD)>>,
    <<"withdrawals", List(withdrawal_t, MAX_WITHDRAWALS_PER_PAYLOAD)>>,
    <<"blob_gas_used", uint64>>, <<"excess_blob_gas", uint64>>>>)

execution_payload_header_t == ssz_variable_size_container(<<
    <<"parent_hash", Root>>, <<"fee_recipient", execution_address_t>>,
    <<"state_root", Root>>, <<"receipts_root", Root>>,
    <<"logs_bloom", Array(byte, BYTES_PER_LOGS_BLOOM)>>,
    <<"prev_randao", Root>>, <<"block_number", uint64>>,
    <<"gas_limit", uint64>>, <<"gas_used", uint64>>, <<"timestamp", uint64>>,
    <<"extra_data", List(byte, MAX_EXTRA_DATA_BYTES)>>,
    <<"base_fee_per_gas", uint256>>, <<"block_hash", Root>>,
    <<"transactions_root", Root>>, <<"withdrawals_root", Root>>,
    <<"blob_gas_used", uint64>>, <<"excess_blob_gas", uint64>>>>)

eth1_data_t == ssz_container(<<
    <<"deposit_root", Root>>, <<"deposit_count", uint64>>,
    <<"block_hash", Root>>>>)

beacon_block_header_t == ssz_container(<<
    <<"slot", Slot>>, <<"proposer_index", ValidatorIndex>>,
    <<"parent_root", Root>>, <<"state_root", Root>>, <<"body_root", Root>>>>)

signed_beacon_block_header_t == ssz_container(<<
    <<"message", beacon_block_header_t>>, <<"signature", signature_t>>>>)

(* Mutant: declared of fixed size, as the other slashing is.               *)
FixedSizeSlashing == ssz_container(<<
    <<"attestation_1", indexed_attestation_t>>,
    <<"attestation_2", indexed_attestation_t>>>>)

attester_slashing_t == ssz_variable_size_container(<<
    <<"attestation_1", indexed_attestation_t>>,
    <<"attestation_2", indexed_attestation_t>>>>)

proposer_slashing_t == ssz_container(<<
    <<"signed_header_1", signed_beacon_block_header_t>>,
    <<"signed_header_2", signed_beacon_block_header_t>>>>)

beacon_block_body_t == ssz_variable_size_container(<<
    <<"randao_reveal", signature_t>>, <<"eth1_data", eth1_data_t>>,
    <<"graffiti", Root>>,
    <<"proposer_slashings",
      List(proposer_slashing_t, MAX_PROPOSER_SLASHINGS)>>,
    <<"attester_slashings",
      List(attester_slashing_t, MAX_ATTESTER_SLASHINGS)>>,
    <<"attestations", List(attestation_t, MAX_ATTESTATIONS)>>,
    <<"deposits", List(deposit_t, MAX_DEPOSITS)>>,
    <<"voluntary_exits", List(signed_voluntary_exit_t, MAX_VOLUNTARY_EXITS)>>,
    <<"sync_aggregate", sync_aggregate_t>>,
    <<"execution_payload", execution_payload_t>>,
    <<"bls_to_execution_changes",
      List(signed_bls_to_execution_change_t, MAX_BLS_TO_EXECUTION_CHANGES)>>,
    <<"blob_kzg_commitments",
      List(blob_kzg_commitments_t, MAX_BLOB_COMMITMENTS_PER_BLOCK)>>>>)

beacon_block_t == ssz_variable_size_container(<<
    <<"slot", Slot>>, <<"proposer_index", ValidatorIndex>>,
    <<"parent_root", Root>>, <<"state_root", Root>>,
    <<"body", beacon_block_body_t>>>>)

signed_beacon_block_t == ssz_variable_size_container(<<
    <<"message", beacon_block_t>>, <<"signature", signature_t>>>>)

beacon_state_t == ssz_variable_size_container(<<
    <<"genesis_time", uint64>>, <<"genesis_validators_root", Root>>,
    <<"slot", Slot>>, <<"fork", fork_t>>,
    <<"latest_block_header", beacon_block_header_t>>,
    <<"block_roots", Array(Root, SLOTS_PER_HISTORICAL_ROOT)>>,
    <<"state_roots", Array(Root, SLOTS_PER_HISTORICAL_ROOT)>>,
    <<"historical_roots", List(Root, HISTORICAL_ROOTS_LIMIT)>>,
    <<"eth1_data", eth1_data_t>>,
    <<"eth1_data_votes", List(eth1_data_t, ETH1_DATA_VOTES)>>,
    <<"eth1_deposit_index", uint64>>,
    <<"validators", List(validator_t, VALIDATOR_REGISTRY_LIMIT)>>,
    <<"balances", List(Gwei, VALIDATOR_REGISTRY_LIMIT)>>,
    <<"randao_mixes", Array(Root, EPOCHS_PER_HISTORICAL_VECTOR)>>,
    <<"slashings", Array(Gwei, EPOCHS_PER_SLASHINGS_VECTOR)>>,
    <<"previous_epoch_participation",
      List(participation_flags_t, VALIDATOR_REGISTRY_LIMIT)>>,
    <<"current_epoch_participation",
      List(participation_flags_t, VALIDATOR_REGISTRY_LIMIT)>>,
    <<"justification_bits", Bitset(JUSTIFICATION_BITS_LENGTH)>>,
    <<"previous_justified_checkpoint", checkpoint_t>>,
    <<"current_justified_checkpoint", checkpoint_t>>,
    <<"finalized_checkpoint", checkpoint_t>>,
    <<"inactivity_scores", List(uint64, VALIDATOR_REGISTRY_LIMIT)>>,
    <<"current_sync_committee", sync_committee_t>>,
    <<"next_sync_committee", sync_committee_t>>,
    <<"latest_execution_payload_header", execution_payload_header_t>>,
    <<"next_withdrawal_index", WithdrawalIndex>>,
    <<"next_withdrawal_validator_index", ValidatorIndex>>,
    <<"historical_summaries",
      List(historical_summary_t, HISTORICAL_ROOTS_LIMIT)>>>>)

(* The containers that are members of no other.                            *)
outermost ==
    {signed_beacon_block_t, beacon_state_t, signed_aggregate_and_proof_t,
     deposit_message_t}
=============================================================================
