CONSTANTS
  Raw = {"v4", "mapped", "v6", "invalid"}
  IPs = {"v4", "v6"}
  NoIP = "none"
  Canonical <- MCCanonical
  Labels = {0, 1, 2}
  VNICs <- MCVNICs
  VLANs <- MCVLANs
  Masks = {1, 3}
  MaskOK = {1}
  MaxAdds = 3
SPECIFICATION AddressSpec
INVARIANTS AddressTypeOK RichestOfItsRole EitherOrder
