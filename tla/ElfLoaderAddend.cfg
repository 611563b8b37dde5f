SPECIFICATION Spec
CONSTANTS
  Images <- AddendImages
  Word <- MCWord
  HeapAddrs <- MCHeapAddrs
  g_esp_libc_elfsyms <- MCLibc
  g_esp_espidf_elfsyms <- MCIdf
  g_customer_elfsyms <- MCCustomer
  Names <- MCNames
  MaxNameErrors = 0
CHECK_DEADLOCK FALSE
INVARIANT PatchesUseAddend
