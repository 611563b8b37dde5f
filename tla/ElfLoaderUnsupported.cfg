SPECIFICATION Spec
CONSTANTS
  Images <- UnsupportedImages
  Word <- MCWord
  HeapAddrs <- MCHeapAddrs
  g_esp_libc_elfsyms <- MCLibc
  g_esp_espidf_elfsyms <- MCIdf
  g_customer_elfsyms <- MCCustomer
  Names <- MCNames
  MaxNameErrors = 0
CHECK_DEADLOCK FALSE
INVARIANT SuccessMeansSupported
